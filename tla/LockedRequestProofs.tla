-------------------------- MODULE LockedRequestProofs --------------------------
(***************************************************************************)
(* What the two Redis locks add: theorems about InterviewRequest while no  *)
(* lock is lost and only the operations that respect them are called.      *)
(***************************************************************************)
EXTENDS InterviewRequestProofs

\* Redis answers, sections end before their TTL, and nobody submits, declines or
\* reschedules: submit takes no lock, and the re-trigger writes after its release.
Locked ==
  /\ {"redis", "ttl"} \cap Faults = {}
  /\ Ops \subseteq {"generate", "book", "cancel", "outcome"}

\* Only those operations run, so no request and no session is ever RESCHEDULING.
OnlyLocked ==
  /\ \A c \in Calls : op[c] \in {"none", "generate", "book", "cancel", "outcome"}
  /\ \A c \in Calls : pc[c] # "retrigger"
  /\ \A c \in Calls : seen[c] # "RESCHEDULING"
  /\ status # "RESCHEDULING"

\* Whoever is inside a section holds its key.
Mutex ==
  \A c \in Calls :
    /\ pc[c] \in BookingSteps => lock["booking"] = c
    /\ pc[c] \in RecommendSteps => lock["recommend"] = c

Booking(c)   == pc[c] \in {"create", "persist"}
Searching(c) == pc[c] \in {"search", "saveRun", "saveFail"}
Recording(c) == pc[c] = "save"

\* What a handler has checked still holds when it commits.
Checked ==
  /\ \A c \in Calls : Booking(c) => status = "RECOMMENDED" /\ op[c] = "book"
  /\ \A c \in Calls : Searching(c) => status \in {"READY", "CANCELLED"}
  /\ \A c \in Calls : Recording(c) => status \in {"BOOKED", "COMPLETED", "CANCELLED"}
  /\ \A c, d \in Calls : ~(Searching(c) /\ Recording(d))

-----------------------------------------------------------------------------
(* Only the operations that respect the locks *)

\* No handler runs at the start, and no start is RESCHEDULING.
LEMMA InitOnly == Locked /\ Init => OnlyLocked
BY ScenarioAssumption DEF Init, OnlyLocked

\* Only decline and reschedule write RESCHEDULING or re-trigger, and nobody calls them.
LEMMA StepOnly ==
  Locked /\ TypeInv /\ AllDeciding /\ OnlyLocked /\ [Next]_vars => OnlyLocked'
<1> SUFFICES ASSUME Locked, TypeInv, AllDeciding, OnlyLocked, [Next]_vars
             PROVE  OnlyLocked'
  OBVIOUS
<1> USE DEF Locked, TypeInv, TypeOK, AllDeciding, Deciding, OnlyLocked, rows, google,
            locals, Goto, Answer, Finish, Sees, Accept
<1>a. CASE UNCHANGED vars
  BY <1>a DEF vars
<1>1. ASSUME NEW c \in Calls, Submit(c) PROVE OnlyLocked'
  BY <1>1 DEF Submit
<1>2. ASSUME NEW c \in Calls, SaveSubmit(c) PROVE OnlyLocked'
  BY <1>2 DEF SaveSubmit
<1>3. ASSUME NEW c \in Calls, Generate(c) PROVE OnlyLocked'
  BY <1>3 DEF Generate
<1>4. ASSUME NEW c \in Calls, LoadGenerate(c) PROVE OnlyLocked'
  BY <1>4 DEF LoadGenerate
<1>5. ASSUME NEW c \in Calls, EnterRecommend(c) PROVE OnlyLocked'
  BY <1>5 DEF EnterRecommend, TakeLock
<1>6. ASSUME NEW c \in Calls, RecommendBusy(c) PROVE OnlyLocked'
  BY <1>6 DEF RecommendBusy
<1>7. ASSUME NEW c \in Calls, Refresh(c) PROVE OnlyLocked'
  BY <1>7 DEF Refresh, Refreshed, GenReply, LeaveRec
<1>8. ASSUME NEW c \in Calls, Search(c) PROVE OnlyLocked'
  BY <1>8 DEF Search, GenReply, LeaveRec
<1>9. ASSUME NEW c \in Calls, SaveRun(c) PROVE OnlyLocked'
  BY <1>9 DEF SaveRun, GenReply, LeaveRec, Written
<1>10. ASSUME NEW c \in Calls, SaveFail(c) PROVE OnlyLocked'
  BY <1>10 DEF SaveFail, GenReply, LeaveRec, Written
<1>11. ASSUME NEW c \in Calls, LeaveRecommend(c) PROVE OnlyLocked'
  BY <1>11 DEF LeaveRecommend, DropLock
<1>12. ASSUME NEW c \in Calls, PollAnswered(c) PROVE OnlyLocked'
  BY <1>12 DEF PollAnswered, GenReply
<1>13. ASSUME NEW c \in Calls, PollGivesUp(c) PROVE OnlyLocked'
  BY <1>13 DEF PollGivesUp, GenReply
<1>14. ASSUME NEW c \in Calls, EnterBooking(c) PROVE OnlyLocked'
  BY <1>14 DEF EnterBooking, TakeLock
<1>15. ASSUME NEW c \in Calls, BookingBusy(c) PROVE OnlyLocked'
  BY <1>15 DEF BookingBusy
<1>16. ASSUME NEW c \in Calls, LeaveBooking(c) PROVE OnlyLocked'
  BY <1>16 DEF LeaveBooking, DropLock, Retriggers
<1>17. ASSUME NEW c \in Calls, Validate(c) PROVE OnlyLocked'
  BY <1>17 DEF Validate, Refreshed, Leave
<1>18. ASSUME NEW c \in Calls, CreateEvent(c) PROVE OnlyLocked'
  BY <1>18 DEF CreateEvent, GoogleCreate, Leave
<1>19. ASSUME NEW c \in Calls, Persist(c) PROVE OnlyLocked'
  BY <1>19 DEF Persist, Leave, Written
<1>20. ASSUME NEW c \in Calls, Undo(c) PROVE OnlyLocked'
  BY <1>20 DEF Undo, GoogleDelete
<1>21. ASSUME NEW c \in Calls, Record(c) PROVE OnlyLocked'
  BY <1>21 DEF Record
<1>22. ASSUME NEW c \in Calls, Decline(c) PROVE OnlyLocked'
  BY <1>22 DEF Decline
<1>23. ASSUME NEW c \in Calls, Reschedule(c) PROVE OnlyLocked'
  BY <1>23 DEF Reschedule
<1>24. ASSUME NEW c \in Calls, Cancel(c) PROVE OnlyLocked'
  BY <1>24 DEF Cancel
<1>25. ASSUME NEW c \in Calls, SelectEvent(c) PROVE OnlyLocked'
  BY <1>25 DEF SelectEvent, Loaded, Confirmed
<1>26. ASSUME NEW c \in Calls, UnlistEvent(c) PROVE OnlyLocked'
  BY <1>26 DEF UnlistEvent, GoogleDelete
<1>27. ASSUME NEW c \in Calls, CommitLeave(c) PROVE OnlyLocked'
  BY <1>27 DEF CommitLeave, Leave, NextStatus, Written
<1>28. ASSUME NEW c \in Calls, Retrigger(c) PROVE OnlyLocked'
  BY <1>28 DEF Retrigger
<1>29. ASSUME NEW c \in Calls, RecordOutcome(c) PROVE OnlyLocked'
  BY <1>29 DEF RecordOutcome
<1>30. ASSUME NEW c \in Calls, SaveOutcome(c) PROVE OnlyLocked'
  BY <1>30 DEF SaveOutcome, Written
<1>31. ASSUME NEW c \in Calls, Crash(c) PROVE OnlyLocked'
  BY <1>31 DEF Crash
<1>32. ASSUME NEW c \in Calls, NEW r \in runs, Book(c, r) PROVE OnlyLocked'
  BY <1>32 DEF Book
<1>33. ASSUME NEW k \in Keys, Expire(k) PROVE OnlyLocked'
  BY <1>33 DEF Expire, Section, Keys
<1> QED
  BY <1>a, <1>1, <1>2, <1>3, <1>4, <1>5, <1>6, <1>7, <1>8, <1>9, <1>10, <1>11, <1>12,
     <1>13, <1>14, <1>15, <1>16, <1>17, <1>18, <1>19, <1>20, <1>21, <1>22, <1>23, <1>24,
     <1>25, <1>26, <1>27, <1>28, <1>29, <1>30, <1>31, <1>32, <1>33
  DEF Next, Arrive, Step, Quiet

-----------------------------------------------------------------------------
(* Mutual exclusion *)

\* Nobody is inside a section at the start.
LEMMA InitMutex == Init => Mutex
BY DEF Init, Mutex, BookingSteps, RecommendSteps

\* A section is entered by taking a free key, left by freeing one's own, and no
\* key expires under its holder: one handler at a time is inside each section.
LEMMA StepMutex == Locked /\ TypeInv /\ Mutex /\ [Next]_vars => Mutex'
<1> SUFFICES ASSUME Locked, TypeInv, Mutex, [Next]_vars PROVE Mutex'
  OBVIOUS
<1> USE CallsAssumption
    DEF Locked, TypeInv, TypeOK, Mutex, BookingSteps, RecommendSteps, Keys, rows, google,
        locals, Goto, Answer, Finish, Sees, Accept
<1>a. CASE UNCHANGED vars
  BY <1>a DEF vars
<1>1. ASSUME NEW c \in Calls, Submit(c) PROVE Mutex'
  BY <1>1 DEF Submit
<1>2. ASSUME NEW c \in Calls, SaveSubmit(c) PROVE Mutex'
  BY <1>2 DEF SaveSubmit
<1>3. ASSUME NEW c \in Calls, Generate(c) PROVE Mutex'
  BY <1>3 DEF Generate
<1>4. ASSUME NEW c \in Calls, LoadGenerate(c) PROVE Mutex'
  BY <1>4 DEF LoadGenerate
<1>5. ASSUME NEW c \in Calls, EnterRecommend(c) PROVE Mutex'
  BY <1>5 DEF EnterRecommend, TakeLock
<1>6. ASSUME NEW c \in Calls, RecommendBusy(c) PROVE Mutex'
  BY <1>6 DEF RecommendBusy
<1>7. ASSUME NEW c \in Calls, Refresh(c) PROVE Mutex'
  BY <1>7 DEF Refresh, Refreshed, GenReply, LeaveRec
<1>8. ASSUME NEW c \in Calls, Search(c) PROVE Mutex'
  BY <1>8 DEF Search, GenReply, LeaveRec
<1>9. ASSUME NEW c \in Calls, SaveRun(c) PROVE Mutex'
  BY <1>9 DEF SaveRun, GenReply, LeaveRec, Written
<1>10. ASSUME NEW c \in Calls, SaveFail(c) PROVE Mutex'
  BY <1>10 DEF SaveFail, GenReply, LeaveRec, Written
<1>11. ASSUME NEW c \in Calls, LeaveRecommend(c) PROVE Mutex'
  BY <1>11 DEF LeaveRecommend, DropLock
<1>12. ASSUME NEW c \in Calls, PollAnswered(c) PROVE Mutex'
  BY <1>12 DEF PollAnswered, GenReply
<1>13. ASSUME NEW c \in Calls, PollGivesUp(c) PROVE Mutex'
  BY <1>13 DEF PollGivesUp, GenReply
<1>14. ASSUME NEW c \in Calls, EnterBooking(c) PROVE Mutex'
  BY <1>14 DEF EnterBooking, TakeLock
<1>15. ASSUME NEW c \in Calls, BookingBusy(c) PROVE Mutex'
  BY <1>15 DEF BookingBusy
<1>16. ASSUME NEW c \in Calls, LeaveBooking(c) PROVE Mutex'
  BY <1>16 DEF LeaveBooking, DropLock, Retriggers
<1>17. ASSUME NEW c \in Calls, Validate(c) PROVE Mutex'
  BY <1>17 DEF Validate, Refreshed, Leave
<1>18. ASSUME NEW c \in Calls, CreateEvent(c) PROVE Mutex'
  BY <1>18 DEF CreateEvent, GoogleCreate, Leave
<1>19. ASSUME NEW c \in Calls, Persist(c) PROVE Mutex'
  BY <1>19 DEF Persist, Leave, Written
<1>20. ASSUME NEW c \in Calls, Undo(c) PROVE Mutex'
  BY <1>20 DEF Undo, GoogleDelete
<1>21. ASSUME NEW c \in Calls, Record(c) PROVE Mutex'
  BY <1>21 DEF Record
<1>22. ASSUME NEW c \in Calls, Decline(c) PROVE Mutex'
  BY <1>22 DEF Decline
<1>23. ASSUME NEW c \in Calls, Reschedule(c) PROVE Mutex'
  BY <1>23 DEF Reschedule
<1>24. ASSUME NEW c \in Calls, Cancel(c) PROVE Mutex'
  BY <1>24 DEF Cancel
<1>25. ASSUME NEW c \in Calls, SelectEvent(c) PROVE Mutex'
  BY <1>25 DEF SelectEvent, Loaded, Confirmed
<1>26. ASSUME NEW c \in Calls, UnlistEvent(c) PROVE Mutex'
  BY <1>26 DEF UnlistEvent, GoogleDelete
<1>27. ASSUME NEW c \in Calls, CommitLeave(c) PROVE Mutex'
  BY <1>27 DEF CommitLeave, Leave, NextStatus, Written
<1>28. ASSUME NEW c \in Calls, Retrigger(c) PROVE Mutex'
  BY <1>28 DEF Retrigger
<1>29. ASSUME NEW c \in Calls, RecordOutcome(c) PROVE Mutex'
  BY <1>29 DEF RecordOutcome
<1>30. ASSUME NEW c \in Calls, SaveOutcome(c) PROVE Mutex'
  BY <1>30 DEF SaveOutcome, Written
<1>31. ASSUME NEW c \in Calls, Crash(c) PROVE Mutex'
  BY <1>31 DEF Crash
<1>32. ASSUME NEW c \in Calls, NEW r \in runs, Book(c, r) PROVE Mutex'
  BY <1>32 DEF Book
<1>33. ASSUME NEW k \in Keys, Expire(k) PROVE Mutex'
  BY <1>33 DEF Expire, Section, Keys
<1> QED
  BY <1>a, <1>1, <1>2, <1>3, <1>4, <1>5, <1>6, <1>7, <1>8, <1>9, <1>10, <1>11, <1>12,
     <1>13, <1>14, <1>15, <1>16, <1>17, <1>18, <1>19, <1>20, <1>21, <1>22, <1>23, <1>24,
     <1>25, <1>26, <1>27, <1>28, <1>29, <1>30, <1>31, <1>32, <1>33
  DEF Next, Arrive, Step, Quiet

-----------------------------------------------------------------------------
(* What was checked under the lock still holds at the commit *)

\* Nobody has checked anything at the start.
LEMMA InitChecked == Init => Checked
BY DEF Init, Checked, Booking, Searching, Recording

\* A handler that writes the status is alone in its section, or is recording an
\* outcome, which excludes a booking and a search by the status it was given.
LEMMA StepChecked ==
  Locked /\ TypeInv /\ AllDeciding /\ OnlyLocked /\ Mutex /\ Checked /\ [Next]_vars
  => Checked'
<1> SUFFICES ASSUME Locked, TypeInv, AllDeciding, OnlyLocked, Mutex, Checked, [Next]_vars
             PROVE  Checked'
  OBVIOUS
<1> USE DEF Locked, TypeInv, TypeOK, AllDeciding, Deciding, OnlyLocked, Mutex, Checked,
            Booking, Searching, Recording, BookingSteps, RecommendSteps, rows, google,
            locals, Goto, Answer, Finish, Sees, Accept
<1>a. CASE UNCHANGED vars
  BY <1>a DEF vars
<1>1. ASSUME NEW c \in Calls, Submit(c) PROVE Checked'
  BY <1>1 DEF Submit
<1>2. ASSUME NEW c \in Calls, SaveSubmit(c) PROVE Checked'
  BY <1>2 DEF SaveSubmit
<1>3. ASSUME NEW c \in Calls, Generate(c) PROVE Checked'
  BY <1>3 DEF Generate
<1>4. ASSUME NEW c \in Calls, LoadGenerate(c) PROVE Checked'
  BY <1>4 DEF LoadGenerate
<1>5. ASSUME NEW c \in Calls, EnterRecommend(c) PROVE Checked'
  BY <1>5 DEF EnterRecommend, TakeLock
<1>6. ASSUME NEW c \in Calls, RecommendBusy(c) PROVE Checked'
  BY <1>6 DEF RecommendBusy
<1>7. ASSUME NEW c \in Calls, Refresh(c) PROVE Checked'
  BY <1>7 DEF Refresh, Refreshed, GenReply, LeaveRec
<1>8. ASSUME NEW c \in Calls, Search(c) PROVE Checked'
  BY <1>8 DEF Search, GenReply, LeaveRec
<1>9. ASSUME NEW c \in Calls, SaveRun(c) PROVE Checked'
  BY <1>9 DEF SaveRun, GenReply, LeaveRec, Written
<1>10. ASSUME NEW c \in Calls, SaveFail(c) PROVE Checked'
  BY <1>10 DEF SaveFail, GenReply, LeaveRec, Written
<1>11. ASSUME NEW c \in Calls, LeaveRecommend(c) PROVE Checked'
  BY <1>11 DEF LeaveRecommend, DropLock
<1>12. ASSUME NEW c \in Calls, PollAnswered(c) PROVE Checked'
  BY <1>12 DEF PollAnswered, GenReply
<1>13. ASSUME NEW c \in Calls, PollGivesUp(c) PROVE Checked'
  BY <1>13 DEF PollGivesUp, GenReply
<1>14. ASSUME NEW c \in Calls, EnterBooking(c) PROVE Checked'
  BY <1>14 DEF EnterBooking, TakeLock
<1>15. ASSUME NEW c \in Calls, BookingBusy(c) PROVE Checked'
  BY <1>15 DEF BookingBusy
<1>16. ASSUME NEW c \in Calls, LeaveBooking(c) PROVE Checked'
  BY <1>16 DEF LeaveBooking, DropLock, Retriggers
<1>17. ASSUME NEW c \in Calls, Validate(c) PROVE Checked'
  BY <1>17 DEF Validate, Refreshed, Leave
<1>18. ASSUME NEW c \in Calls, CreateEvent(c) PROVE Checked'
  BY <1>18 DEF CreateEvent, GoogleCreate, Leave
<1>19. ASSUME NEW c \in Calls, Persist(c) PROVE Checked'
  BY <1>19 DEF Persist, Leave, Written
<1>20. ASSUME NEW c \in Calls, Undo(c) PROVE Checked'
  BY <1>20 DEF Undo, GoogleDelete
<1>21. ASSUME NEW c \in Calls, Record(c) PROVE Checked'
  BY <1>21 DEF Record
<1>22. ASSUME NEW c \in Calls, Decline(c) PROVE Checked'
  BY <1>22 DEF Decline
<1>23. ASSUME NEW c \in Calls, Reschedule(c) PROVE Checked'
  BY <1>23 DEF Reschedule
<1>24. ASSUME NEW c \in Calls, Cancel(c) PROVE Checked'
  BY <1>24 DEF Cancel
<1>25. ASSUME NEW c \in Calls, SelectEvent(c) PROVE Checked'
  BY <1>25 DEF SelectEvent, Loaded, Confirmed
<1>26. ASSUME NEW c \in Calls, UnlistEvent(c) PROVE Checked'
  BY <1>26 DEF UnlistEvent, GoogleDelete
<1>27. ASSUME NEW c \in Calls, CommitLeave(c) PROVE Checked'
  BY <1>27 DEF CommitLeave, Leave, NextStatus, Written
<1>28. ASSUME NEW c \in Calls, Retrigger(c) PROVE Checked'
  BY <1>28 DEF Retrigger
<1>29. ASSUME NEW c \in Calls, RecordOutcome(c) PROVE Checked'
  BY <1>29 DEF RecordOutcome
<1>30. ASSUME NEW c \in Calls, SaveOutcome(c) PROVE Checked'
  BY <1>30 DEF SaveOutcome, Written
<1>31. ASSUME NEW c \in Calls, Crash(c) PROVE Checked'
  BY <1>31 DEF Crash
<1>32. ASSUME NEW c \in Calls, NEW r \in runs, Book(c, r) PROVE Checked'
  BY <1>32 DEF Book
<1>33. ASSUME NEW k \in Keys, Expire(k) PROVE Checked'
  BY <1>33 DEF Expire, Section, Keys
<1> QED
  BY <1>a, <1>1, <1>2, <1>3, <1>4, <1>5, <1>6, <1>7, <1>8, <1>9, <1>10, <1>11, <1>12,
     <1>13, <1>14, <1>15, <1>16, <1>17, <1>18, <1>19, <1>20, <1>21, <1>22, <1>23, <1>24,
     <1>25, <1>26, <1>27, <1>28, <1>29, <1>30, <1>31, <1>32, <1>33
  DEF Next, Arrive, Step, Quiet

-----------------------------------------------------------------------------

LockInv == TypeInv /\ AllDeciding /\ OnlyLocked /\ Mutex /\ Checked

\* All of it together is inductive.
LEMMA LockInvariant == Locked => (Spec => []LockInv)
<1> SUFFICES ASSUME Locked PROVE Spec => []LockInv
  OBVIOUS
<1>1. Init => LockInv
  BY InitType, InitDeciding, InitOnly, InitMutex, InitChecked DEF LockInv
<1>2. LockInv /\ [Next]_vars => LockInv'
  BY StepType, StepDeciding, StepOnly, StepMutex, StepChecked DEF LockInv
<1> QED
  BY <1>1, <1>2, PTL DEF Spec

\* For any number of calls, and whatever fails other than the locks: a booking
\* commits only while its request is RECOMMENDED (booking/service.py:94-195).
THEOREM BookedWhileRecommended == Locked => (Spec => BooksRecommended)
<1> SUFFICES ASSUME Locked PROVE Spec => BooksRecommended
  OBVIOUS
<1>1. LockInv /\ [Next]_vars => [\A c \in Calls : Books(c) => status = "RECOMMENDED"]_vars
  <2> SUFFICES ASSUME LockInv, [Next]_vars, NEW c \in Calls, Books(c)
               PROVE  status = "RECOMMENDED"
    OBVIOUS
  <2>1. event' # event
    BY DEF Books
  <2>2. PICK d \in Calls : Persist(d) \/ CommitLeave(d)
    BY <2>1 DEF Next, Arrive, Step, Crash, Expire, Quiet, vars, rows, Submit, Generate,
                Decline, Reschedule, Cancel, RecordOutcome, Book, EnterBooking,
                BookingBusy, LeaveBooking, SaveSubmit, SaveOutcome, LoadGenerate,
                EnterRecommend, RecommendBusy, Refresh, Search, SaveRun, SaveFail,
                LeaveRecommend, PollAnswered, PollGivesUp, Validate, CreateEvent, Undo,
                Record, SelectEvent, UnlistEvent, Retrigger
  <2>3. CASE CommitLeave(d)
    BY <2>1, <2>3 DEF CommitLeave, Books, Bookings
  <2>4. CASE Persist(d)
    BY <2>4 DEF Persist, LockInv, Checked, Booking
  <2> QED
    BY <2>2, <2>3, <2>4
<1>2. Spec => []LockInv
  BY LockInvariant
<1> QED
  BY <1>1, <1>2, PTL DEF Spec, BooksRecommended

\* Under the same assumptions a generation never replaces a run that is on offer:
\* what a client was shown stays bookable (scheduling/service.py:134-139).
THEOREM CurrentRunKept == Locked => (Spec => KeepsCurrentRun)
<1> SUFFICES ASSUME Locked PROVE Spec => KeepsCurrentRun
  OBVIOUS
<1>1. LockInv /\ [Next]_vars => [runs' # runs => status # "RECOMMENDED"]_vars
  <2> SUFFICES ASSUME LockInv, [Next]_vars, runs' # runs
               PROVE  status # "RECOMMENDED"
    OBVIOUS
  <2>1. PICK d \in Calls : SaveRun(d)
    BY DEF Next, Arrive, Step, Crash, Expire, Quiet, vars, rows, Submit, Generate, Decline,
           Reschedule, Cancel, RecordOutcome, Book, EnterBooking, BookingBusy,
           LeaveBooking, SaveSubmit, SaveOutcome, LoadGenerate, EnterRecommend,
           RecommendBusy, Refresh, Search, SaveFail, Persist, LeaveRecommend, PollAnswered,
           PollGivesUp, Validate, CreateEvent, Undo, Record, SelectEvent, UnlistEvent,
           CommitLeave, Retrigger
  <2> QED
    BY <2>1 DEF SaveRun, LockInv, Checked, Searching
<1>2. Spec => []LockInv
  BY LockInvariant
<1> QED
  BY <1>1, <1>2, PTL DEF Spec, KeepsCurrentRun
=============================================================================
