# A verification of the Smart Interview Scheduler

TLA+ models of the scheduler in this repository, checked with TLC, and theorems
about them, checked with TLAPS. Everything is translated from the code under
`src/`; the design documents are used only to state what the code is expected to
do.

## 1. The system

One FastAPI process (or several) over Postgres, Redis, Google Calendar and
SendGrid, and a Next.js frontend. Handlers are coroutines: each `await` on
Postgres, Redis or Google lets any other handler run. Sessions are READ COMMITTED
with no version column, so a handler that read a row may write over what others
committed since.

| component | state it keeps | operations | talks to |
|---|---|---|---|
| Interview request lifecycle (`interviews/lifecycle.py`) | `interview_requests.status`, `interview_events.status`, participants' responses | decline, reschedule, cancel, record outcome, next round, reminder | Redis lock, Google, scheduling, notifications |
| Booking (`booking/service.py`) | `interview_events`, `reconciliation_tasks`, status BOOKED | book, compensate | Redis lock, Google, notifications |
| Scheduling service (`scheduling/service.py`) | `recommendation_runs`, status RECOMMENDED / FAILED | generate | its own Redis lock, free/busy, engine |
| Scheduling engine (`scheduling/engine.py`, `scoring.py`) | none (pure) | interval algebra, slot generation, ranking | - |
| Redis lock (`core/locks.py`) | one key per request and purpose | acquire, refuse, degrade, release, TTL | Redis |
| Availability (`availability/service.py`) | `candidate_availability`, status READY | submit | - |
| Calendar connections (`calendar/service.py`) | `calendar_connections`, free/busy cache | connect, refresh, revoke, free/busy | Google, Redis |
| Calendar client (`calendar/client.py`) | none | create, delete, free/busy, tokens, three attempts each | Google |
| Invitations (`invitations/service.py`) | `participant_invitations`, passwords | issue, resend, expire, respond, claim | SendGrid |
| Reminders, notifications | `notification_logs` | cron run, manual reminder, confirmation | SendGrid |
| Rate limiter (`core/ratelimit.py`) | a counter per identity and bucket | admit, reject | Redis |
| Accounts (`auth/`, `users/`) | `users` | register, bootstrap, login, refresh, provision, archive | - |
| Frontend API client and session (`lib/api-client.ts`, `lib/auth-context.tsx`, sign-in pages, `RoleGuard`) | tokens in localStorage, the refresh in flight, the user shown | request, refresh, retry, sign in and out, claim | API |
| Creation wizard (`admin/interviews/new/page.tsx`) | the step, the people selected, the lists, the inline forms | load, provision, select, create | API |
| Detail pages (`[id]/page.tsx` of three roles, `LifecycleActions`, `OutcomePanel`) | the interview as last loaded, a busy flag per card | lifecycle actions, outcome, next round, archive, invite, remind, audit log | API |
| Slots pages (`recommendations/page.tsx` of two roles, `BookingModal`) | the run shown, the slot selected, the event shown | ask the engine, select, book | API |
| Availability form (`availability/page.tsx`, `lib/utils.ts`) | rows of wall-clock times, the timezone | edit, convert, submit | API |
| Invitation page (`invite/[token]/page.tsx`) | the invitation shown, the answer and the claim under way | answer, claim, go on | API |

What is hard, and where the properties come from:

- **Interleaving on one request.** Two locks with different keys guard one row:
  `lock:booking` (book, decline, reschedule, cancel) and `lock:recommend`
  (generate). Submit, record outcome and the re-trigger take none.
- **Two systems, no common transaction.** Booking creates the Google event, then
  commits; cancelling deletes it, then commits. Each order needs its own repair.
- **Stale reads.** Status, latest run and clash check are read some awaits before
  they are acted on; under the lock, `reschedule` and `cancel` re-read through the
  session's identity map and see the old value again.
- **Locks that may be absent.** Redis errors degrade to "no lock", and a TTL of 10
  or 30 seconds may end under a slow holder.
- **Progress.** RESCHEDULING must pass, a caller waiting for another's
  recommendations must be answered.
- **Answers that come late.** In the browser every `await` of a handler is a moment in
  which another control is pressed, another page opened, another answer comes first, or
  the network loses the answer to something that was done.
- **Sessions.** Several calls find the access token expired at once; somebody signs out,
  or signs in as somebody else, while a refresh is on its way.

`PROJECT.json` lists every hazard at its line, with the property that covers it or the
reason why none does. Several of them the code does not prevent: the model then has the
behaviour, a property whose exception it is names the exception, and the hazard's note says
which part, if any, is covered.

What makes each component correct, in a sentence:

- *request and booking*: never two confirmed events, BOOKED only with an event, a
  cancelled request stays cancelled, callers are told the truth, the calendar
  agrees with the rows or a task says otherwise;
- *recommendations*: a run on offer is not replaced, what is booked is from the
  current run;
- *engine*: a slot lies in everybody's free time with its buffers, no slot is
  missed on the grid, the order is total and deterministic;
- *lock*: at most one holder within the TTL, nobody deletes another's key, nobody waits
  for a key;
- *invitations*: a real response is never reset while its link lives, one live token per
  participant;
- *session*: one refresh in flight for all calls that need it, everybody who waits goes
  on or is signed out, the user shown is the tokens' owner;
- *wizard*: one request per wizard, with people the backend accepts and the review shows;
- *pages*: a page shows what its own action did, offers to book only what it shows, says
  "booked" only of an event that was confirmed, sends no window that ends before it
  starts, and stops waiting.

## 2. Modules

### `InterviewRequest` - the core

One interview request and everything that is keyed by its id. A *call* is one HTTP
request; it runs one operation and is answered once.

| variable | code |
|---|---|
| `status` | `interview_requests.status` (AWAITING and READY for the two long names; DRAFT is never written) |
| `available` | a `candidate_availability` row exists |
| `runs`, `began` | committed `recommendation_runs`, and the order of their transactions' start: `generated_at` is `now()`, the transaction's start |
| `event`, `tasks` | `interview_events.status` per booking, events with an OPEN `reconciliation_tasks` row |
| `lock` | the two Redis keys; the token is the call's name |
| `calendar`, `strays` | the organiser's Google calendar; events created by an attempt whose answer was lost |
| `op`, `pc`, `seen`, `slot`, `target`, `reply` | the handlers: operation, position, the status in the ORM session, the chosen run, the event being cancelled, the answer |

An action is what runs between two awaits that touch shared state; a commit is one
step, since nothing is visible before it. `Written` is the unit of work: assigning
the value the session already holds emits no UPDATE. `Loaded` is `db.get`: it
answers from the identity map while a reference is held (reschedule, cancel) and
from the database otherwise (decline).

The handlers, in the order of their steps:

- submit: `Submit`, `SaveSubmit`;
- generate: `Generate`, `LoadGenerate`, then `EnterRecommend`, `Refresh`, `Search`,
  `SaveRun` or `SaveFail`, `LeaveRecommend`, or, if the lock is taken,
  `RecommendBusy` and `PollAnswered` or `PollGivesUp`;
- book: `Book`, `EnterBooking` or `BookingBusy`, `Validate`, `CreateEvent`,
  `Persist`, if it fails `Undo` and `Record`, `LeaveBooking`;
- decline, reschedule, cancel: `Decline` / `Reschedule` / `Cancel`, `EnterBooking` or
  `BookingBusy`, `SelectEvent`, `UnlistEvent`, `CommitLeave`, `LeaveBooking`, and for
  a booking that was cancelled `Retrigger` and the steps of generate from the lock on;
- outcome: `RecordOutcome`, `SaveOutcome`;
- the environment: `Expire` (TTL), `Crash` (the worker), `Quiet` (all calls are over).

`Faults` names what else may go wrong, so that a run says under which faults its
properties hold: `redis`, `ttl`, `create`, `delete`, `timeout`, `persist`, `ack`,
`task`, `commit`, `renew`, `crash` (explained at `AllFaults`).

Abstracted: what a slot contains (only its run matters), the engine's result (slots,
none, or an error), the participants, texts, audit rows, e-mails, and other requests
(the clash check may answer either way). The SIMULATED calendar provider takes the
same path without Google and is not modelled.

### `BookingContract` - the promise

What clients may rely on, without locks or handlers: at most one active booking; a
booking that ended stays ended; success is told only of a booking that stood, and a
caller told of failure never finds its booking standing. `InterviewRequest` is shown
to implement it (`ImplementsContract`): the active booking is the CONFIRMED event,
the past ones the CANCELLED rows, `told` and `refused` the delivered answers of book.

### `Engine` - from availability to slots on offer

The engine is a pure function, so the specification has one action: `Generate` takes a
request (`asked`) to its `outcome` and the `slots` on offer. What is checked is the
result, against a definition of "everybody is free" made instant by instant.

- `Merge`, `Subtract`, `Intersect`, `Clip`: the interval operators of engine.py over
  sequences of half-open intervals, each a fold of the body of its loop (`Absorb` over the
  stable sort `ByStart`, `CutAll` with `Pieces`, `Sweep`).
- `Local`, `Utc`, `WorkingIntervals`: local dates and the change of the clocks, as
  `zoneinfo` does it (a skipped local time is read with the offset before the change, of
  a repeated one the first is meant).
- `Prepared` is the service's clipping of windows that have begun or passed, `Valid` the
  engine's `_validate`, `CommonFree` its `_free_intervals`.
- `TimezoneFairness`, `WorkingHoursComfort`, `SchedulingProximity`, `BufferQuality`,
  `Total`: scoring.py with exact fractions (numbers of `Scale`-ths). What rounding of
  floats does to ties is therefore not modelled. `WorkloadBalance` is constant because
  the service passes no existing bookings (scheduling/service.py:269).
- `Raw`, `Better`, `Recommended`: the grid of starts, the ranking, the best `TopN`.

`asked.panel[i].busy` is free/busy and internal commitments together, as the service
hands them in. `PlainZones` says that no change of a clock in reach skips or repeats the
time at which a working day begins or ends; the clocks of `MCEngine` change at night, as
those of real zones do.

### `Invitations` - who was asked, and what they answered

One request's invitations under concurrent calls. `row` is the committed row of each
participant, `draft` what a transaction has written and not committed (it holds the
row's lock: `Free`), `seen` what its session read, `response` the participant's entry in
`interview_participants`, `sent` the links handed out, `expired` those that have run out.

- issue and resend, one transaction over all participants: `Issue`, then for each, in
  any order, `ReadRow`, `Flush`, `Send`, and `CommitIssue` at the end. `Rotated` is the
  UPDATE SQLAlchemy emits: it names only the columns whose value the session changed.
- a link: `View`, `Respond` (both through `Resolve`), `MarkExpired` if its time is up,
  `FlushResponse` and `CommitResponse`.
- lifecycle's decline, which writes the same entry: `Decline`, `CommitDecline`.
- Postgres: `Victim` (a deadlock is broken), `Abort` (a transaction is lost); `Expire`.

A call whose INSERT is refused rolls back and then reads an attribute the rollback
expired; under an async session that raises, so `Flush` answers an error where the
comment at service.py:125-127 announces a rotation. `claim_account` writes `users` only;
it is one step of `InvitePage`.

### `NewInterview` - the creation wizard

One wizard, its calls in flight (`net`), the backend's `accounts` and the number of
requests it `made`. What the administrator may press is computed from what the page
renders and does not disable (`Offers` and the definitions before it); every handler of
`CreateInterviewPage` and of its `ProvisionInlineForm` is an action. The backend answers
in one step each: `ReadList` (two lists, two moments), `ServeProvision` (idempotent on
address and role), `ServeCreate` (validates the body and the roles). The network fails a
call before the backend has it (`LoseRequest`) or loses the answer to a creation
(`LoseAnswer`; of a provision that is the same as a second press, which is idempotent).
The text fields are one choice made on creation, `fits`: whether the backend takes them.

### `RequestServer`, `DetailPage`, `SlotsPage`, `AvailabilityForm`, `InterviewScreens` - one request on the screens

Five modules, each extending the one before it, and one specification, in the last.

- `RequestServer`: the backend as the browsers see it, one step per call (`Reactions`
  gives the states and answers a call may lead to; the steps inside are
  `InterviewRequest`'s business), and the calls in flight: `Serve`, `Lose`, `Follow` (the
  next await of a handler), `Orphaned` (the page that asked is gone: its reads are
  dropped, its writes go on). `Lose` fails a call before or after it took effect.
- `DetailPage`: the interview's page in three roles. `LifecycleOffers`, `OutcomeOffers`,
  ... say which controls there are; `Run`, `PressRecordOutcome`, `CreateNextRound`,
  `ArchiveCandidate`, `HandleSendInvitations`, `HandleSendReminder`, `ToggleAudit` press
  them; the `...Arrives` operators are the handlers after their awaits, reloads included.
  The lists of invitations and notifications that the page asks for on mount, and the first
  after a lifecycle action, are left out: they hold up no flag and nothing else reads them.
- `SlotsPage`: the administrator's page, which asks the engine when it opens and on
  demand and books through a dialog; the candidate's, which reads what is on offer and
  reloads after a conflict.
- `AvailabilityForm`: rows, timezone, the conversion `ZonedWallTimeToISO`, submission. A
  timezone is a clock that is moved once; an hour is the unit of time.
- `InterviewScreens`: who is on which page, the links between pages, what arrives for a
  page that is gone (`ArrivesForNobody`), and the properties. A *scene* says who is
  there, on which page, the request's status and which controls they use.

### `ApiClient`, `InvitePage`, `Session` - one browser tab

- `ApiClient`: `localStorage` (`store`), the page and the context (`tab`), the calls in
  flight, and `request`: a 401 starts the refresh or waits for the one under way
  (`Refresh`), a refresh sends all that wait again, once (`Resend`), a failed one ends
  the session (`SessionOver`). The context's sign-ins are chains of calls under its
  loading flag (`Enter`, `Succeeds`, `Fails`). `Load`, `Unload`, `Visit`, `Back`: page
  loads forget what is in memory and in flight, going back in the history does not.
  `Redirect`: the login page and the pages that make an account go on to the workspace once
  there is a user, and the workspace to the login page when there is none. After a
  registration the code pushes in the handler; here it is a step of its own, which a user
  signed in before may take too (the page's link to the login page leads there).
- `InvitePage`: the invitation shown, the answer, the claim, and the backend behind them.
- `Session`: the tab from page to page, and the properties. `slips` remembers two things
  that went wrong on the way, so that `ShownIsTokenOwner` can say when it holds.

### The rest

`MCInterviewRequest`, `MCEngine`, `MCInvitations`, `MCNewInterview`,
`MCInterviewScreens` and `MCSession` are the instances for TLC (symmetry of calls; the
engine's requests; the known accounts; the scenes and clocks).
`InterviewRequestProofs`, `LockedRequestProofs`, `ContractProofs`, `NewInterviewProofs`,
`SessionProofs`, `InvitationsProofs`, `InterviewScreensProofs` and `EngineProofs` hold the
theorems of section 4.
A definition that begins with "Mutant:" in its comment is a plausible bug in the one after
it; it takes no part in any specification and shows that the property it belongs to can
be broken.

## 3. Runs

| run | instance | shows |
|---|---|---|
| `request_lifecycle` | 3 calls of any kind, three starts, faults redis, delete, persist, commit, crash; 1.06 million states | `TypeOK`, `BookedHasEvent`, `OneConfirmed`, `ImplementsContract` |
| `request_locked` | 3 calls of generate, book, cancel, outcome, every fault but redis and ttl; 269 thousand states | `BooksRecommended`, `KeepsCurrentRun` |
| `request_progress` | 2 calls of any kind, four starts, faults redis, ttl, create, delete, persist; weak fairness of the handlers; 123 thousand states | `CalendarAgrees`, `OnlyOwnLock`, `EveryCallEnds`, `ReschedulingPasses` |
| `cancelled_then_declined` | decline after cancel | **violated** `CancelledIsFinal` |
| `engine` | 195 thousand requests over two days of 12 hours; 390 thousand states | `TypeOK`, `FitsEverybody`, `FailsOnlyWithoutRoom`, `OffersTheBest`, `NeverRejected`, `TotalInRange` |
| `invitations` | 3 calls of any kind, 2 participants, faults expiry, abort; 1.55 million states | `TypeOK`, `Mirrored`, `LiveLinkWasSent`, `ResponsesSurvive`, no deadlock |
| `invitations_progress` | 2 calls, weak fairness; 94 thousand states | `EveryCallEnds` |
| `answer_reopened` | resends and answers while links run out | **violated** `NotReopened` |
| `new_interview` | 2 people, 2 calls in flight, one lost answer, three sets of known accounts; weak fairness; 282 thousand states | `TypeOK`, `OneRequestEach`, `NeverRefused`, `OnlyLoadsForget`, `EveryCallEnds` |
| `interview_screens` | 13 scenes, two to four actions, 3 calls in flight, two clocks; weak fairness; 255 thousand states | `TypeOK`, `ReadYourWrites`, `OneCallEach`, `SelectionIsOffered`, `BookedWasConfirmed`, `FreshLinksWork`, `WindowsInOrder`, `OffByTheGapAtMost`, `EveryWaitEnds` |
| `session` | 2 accounts, 4 calls in flight, 3 actions; weak fairness; 165 thousand states | `TypeOK`, `OneRefresh`, `ShownIsTokenOwner`, `ShownAnswerIsRecorded`, `EverythingSettles` |
| `clock_change` | the form around the night the clocks change | **violated** `OffInTheTransitionOnly` |

**Bounds of `InterviewRequest`.** The only bound is the number of calls, each running once. Every race in
the list of hazards needs two handlers, or three when a third must change the status
in between; retries by a client are further calls. The
starts other than AWAITING are what submit, generate and book make of a request
undisturbed, so that three calls reach as far as six or seven would. Before these
sizes were fixed the same properties were checked on larger instances, too slow for
every day: 3 calls, every start, faults redis, ttl, create, delete and persist (9.8
million states: `TypeOK`, `BookedHasEvent`, `OneConfirmed`, `CalendarAgrees`,
`ImplementsContract`); 3 calls with every fault but ack (6.4 million); `request_locked`
with 4 calls (5.7 million).

**Bounds of `Engine`.** Up to two windows and up to two busy blocks with ends from four
instants each give every relative position of two intervals (apart, touching,
overlapping, nested, unsorted, equal); the second panelist adds a third zone and a third
intersection. Two days are the least in which a local date differs from the UTC date at
both ends; one clock changes in the night between, forward or back. Durations and
buffers of one or two units against free stretches of up to seven make both the exactly
filled and the too short stretch occur; the best two of the grid are on offer, so that
something is left out. Three times of generation: at once, in the middle of a window,
and after the last. Deadlock is not checked: the function ends.

**Bounds of `Invitations`.** Two participants are the least whose rows two resends can
lock in opposite orders; three calls let an answer and a resend come between another
resend's read and write. `ResponsesSurvive` allows for the loss of an answer once a link
of the participant has run out: that is what `answer_reopened` shows.

**Bounds of `NewInterview`.** Two people, so that one can be candidate and the other
panelist, or one both by mistake. They start as a candidate and a stranger, a candidate and
a panelist, or an archived account and a panelist. Two calls in flight, so that a load, a provision and a
creation overlap in pairs; one lost answer, so that a second request can exist. What
people do is not bounded.

**Bounds of `InterviewScreens`.** `MaxCalls` = 3 calls in flight, and at most `MaxActions` = 4
actions that send or edit something (the others, like selecting a slot, are free): `moves`
of a scene is three, two where two people or the audit log keep many answers in flight, and
four where links are issued on a page that is left. A scene fixes
the controls in use, because all of them together are too many states and most do not
interact: each hazard named in `PROJECT.json` has a scene with the controls and the people
it needs. The fourth action matters: issuing, leaving, coming back and issuing again lets
the backend take the two issues in the other order, and the card then shows links that the
older issue has replaced. With three actions `FreshLinksWork` holds without its exception
for that case; the attempt to prove it found the exception, and the scene with four shows it.
The theorems of section 4 hold for any scenes and any number of moves. `MaxRows` is 3 where the form has ten rows: the guard is met and the rows are
alike. The clocks are moved by one hour and are one or two hours off UTC; times typed are
from 1 to 6 with the change at 5 UTC, so that every relation of a window to the change
occurs.

**Bounds of `Session`.** Four calls: the context's, a page's data twice or an invitation's,
and the refresh. Three actions (a sign-in, a page load, an answer) after any of the pages
with any of the accounts signed in. Two accounts, of which one's sign-in has a further
call (the calendar status of panelists and administrators).

Deadlock is not checked in these runs: people may stop.

**Symmetry** permutes calls in the runs that check invariants and action properties;
`request_progress` and `invitations_progress`, which check liveness, use none.

**Fairness.** `WF_vars(Step(c))` for every call: the event loop runs every coroutine
whose await is over, and every await here ends (Redis, Postgres and HTTP calls have
timeouts; the poll is bounded). No fairness for a client's call (`Arrive`), for `Crash`, for
any fault, or for `Expire`: nothing forces them, and no call needs a key to expire, because
a taken key is an answer (409, an error, or the bounded poll). That the key of a dead holder
goes is Redis's promise and not this code's; it is not a property here.
In `Invitations`, `WF_vars(Step(c))` likewise:
an UPDATE waits for a row's lock only as long as the other transaction lasts, and Postgres
ends one of two that wait for each other.
In the browser, weak fairness for the backend's answer to each call (or its failure) and for
the handler that takes it up: a browser answers or fails every fetch. In `Session` also
for the end of a page load. None for anything people do.
`request_progress` leaves `crash` and `commit` out, because `ReschedulingPasses` is
false with them: a worker that dies, or a commit that fails, between RESCHEDULING and
READY leaves the request in RESCHEDULING, and no code picks it up.

**Faults left out on purpose.** Each is a limit of the property, not of the model:

- `CalendarAgrees` excludes `timeout` (an event whose id nobody received), `ack` (a
  commit taken for a failure is compensated while the row stands), `task` (the record
  of the orphan is itself lost) and `commit`, `crash` (Google's event is deleted, the
  row stays CONFIRMED). DB_DESIGN.md:426 calls a failed compensation "the one case"
  in which the two disagree; these are the others.
- `ImplementsContract` excludes `ack`: the caller is told of a failure that was not.
- `BooksRecommended` and `KeepsCurrentRun` exclude `redis` and `ttl`, and the calls
  that write the status without the booking lock or after it (submit, and the
  re-trigger of decline and reschedule).
- `OneRequestEach` allows one more request for each success the administrator was not told
  of: the button is live again and the POST carries nothing that would tell the two apart.
- `LiveLinkWasSent` says that a link which works was given to its participant, not that a
  link which was given works: a resend that is rolled back has mailed links that never do.
- `OneCallEach` speaks of the controls that a flag of their own switches off: the lifecycle
  card, the invitations, the reminder, the engine, the booking, the form. The outcome panel
  has one flag for three buttons, and the button pressed last has it (OutcomePanel.tsx:34,
  60, 82, 99): after *Save outcome* and *Archive* on a COMPLETED request, *Save outcome* is
  live with its first call still out, and the flag is down when the first of the two
  ends. The audit log is asked for without a flag. The model does all of this; what holds of
  the panel is that its flag comes down (`EveryWaitEnds`).
- `OnlyLoadsForget` allows a load answered late to take a provisioned account off the
  screen (it stays selected, and is sent): the lists replace each other as they come.
- `ReadYourWrites` allows for a load that failed or came in after a later one
  (`stale`), `FreshLinksWork` for an issue of links whose answer was lost, or that was still
  under way when its page was left (`missed`).
- `ShownIsTokenOwner` allows for a profile lost after its tokens were stored, and for a
  refresh that comes back after the next sign-in (`slips`): without either exception TLC
  finds the user shown and the owner of the tokens apart.

### Disagreements found

1. *decline reopens a cancelled or completed request* (lifecycle.py:173-175 has no
   status guard), although API_DESIGN.md:307 makes CANCELLED terminal
   (`cancelled_then_declined`).
2. *a resend can reset an answer to PENDING* (invitations/service.py:104): its UPDATE
   writes PENDING when it read EXPIRED, whatever was committed meanwhile, although
   service.py:93-94 says a resend "must never erase a real response" (`answer_reopened`).
3. *times typed on the day the clocks change are an hour off* (lib/utils.ts:116): the
   offset is the zone's at the wall time read as UTC. In Los Angeles on the day of the
   change that is every time from the change to mid-morning, although utils.ts:113-114
   expects it only of "a time that falls inside a spring-forward/fall-back transition
   hour" (`clock_change`). What does hold, a deviation of no more than the change and
   windows in the right order, is checked by `interview_screens`.

Three more follow from the models, and can be reproduced with `InterviewRequest` by
stating them as properties; no run repeats them:

- *generate overwrites a cancel* (scheduling/service.py:301, 325): the two take different
  locks, and the status is not read again before the commit. `CancelledIsFinal` fails
  with the operations generate and cancel alone.
- *without Redis a booking overwrites a cancel* (booking/service.py:180), although
  locks.py:4-6 and DB_DESIGN.md:9 rest correctness on the unique index alone.
  `BooksRecommended` fails with the fault `redis`. What the index does guarantee, one
  CONFIRMED event, is proved below without the locks.
- *a slot of a superseded run can be booked* (booking/service.py:88): DB_DESIGN.md:412
  puts the latest-run check under the lock; the code makes it before. A decline and a
  generation between the two are enough (three calls).

## 4. Proofs

For any set of calls, any operations, starts and faults (assumptions on the
constants: `CallsAssumption`, the names are distinct, and `ScenarioAssumption`, the
scenario constants are subsets of the known ones). A theorem that needs more says so
in its statement:

| theorem | statement | module |
|---|---|---|
| `TypeCorrect` | `Spec => []TypeOK` | `InterviewRequestProofs` |
| `BookedIsConfirmed` | `Spec => []BookedHasEvent` | |
| `NoDoubleBooking` | `Spec => []OneConfirmed` | |
| `OnlyTheHolderFrees` | `Spec => OnlyOwnLock` | |
| `BookedWhileRecommended` | `Locked => (Spec => BooksRecommended)` | `LockedRequestProofs` |
| `CurrentRunKept` | `Locked => (Spec => KeepsCurrentRun)` | |
| `ContractKept` | `"ack" \notin Faults => (Spec => ImplementsContract)` | `ContractProofs` |
| `CalendarKept` | `Settled => (Spec => []CalendarAgrees)` | |

`Locked`: no fault `redis` or `ttl`, and only generate, book, cancel and outcome are
called. `Settled`: none of `timeout`, `ack`, `task`, `commit`, `crash`. Section 3 says
why each is needed.

- `TypeOK` alone is not inductive: a commit adds `target[c]` to `tasks`, so the
  invariant also says that a handler about to record an event has one (`TargetInHand`).
- `BookedHasEvent` needs to know why a commit that cancels the event always changes
  the status too, although the UPDATE is omitted when the session already holds the
  value: `Deciding` says what each handler remembers on its way to the commit
  (reschedule remembers BOOKED, cancel nothing terminal, decline BOOKED whenever it
  has an event in hand). It is an invariant of each call alone, so no other handler
  can disturb it; that is why the property survives lost locks.
- `OneConfirmed` rests on `IndexAdmits` only.
- `OnlyOwnLock` needs the types only: taking a key needs a free one, releasing it looks at
  the holder, and a call that leaves its section moves on as it does so. Keys may expire and
  Redis may fail at any moment.
- `BooksRecommended`, `KeepsCurrentRun`: the inductive invariant `LockInv` adds that
  whoever is inside a section holds its key (`Mutex`), and that what a handler checked
  on entry still holds at its commit (`Checked`): RECOMMENDED for a booking, READY or
  CANCELLED for a generation, a status with an event, or CANCELLED, for an outcome. The
  two sections do not exclude each other: a cancel may run during a generation, so
  READY or CANCELLED is the most that can be said there, and record outcome, which takes
  no lock, is kept apart from a generation by its own status check alone.
- `ImplementsContract`: `ContractInv` says that a booking's answer agrees with its row
  (`Honest`) and that what is cancelled had been booked (`TargetStood`). Then `Persist`
  is `Confirm`, `CommitLeave` is `CallOff`, an answer to book (`Book` refused at once,
  `BookingBusy`, `LeaveBooking`) is `TellSuccess` or `TellFailure`, and every other
  step, `Crash` and `Expire` included, stutters. No lock is used.
- `CalendarAgrees`: `CalendarInv` names, for each way the two may differ, the handler
  that is about to settle it or the task that records it, and that a cancellation past
  its delete has nothing left in the calendar to forget.

The creation wizard, for any people, any accounts there may be at the start and any number
of requests in flight and of lost answers (`WizardAssumption`, the names are distinct and
the bounds are numbers):

| theorem | statement | module |
|---|---|---|
| `WizardTyped` | `Spec => []TypeOK` | `NewInterviewProofs` |
| `OneRequest` | `Spec => []OneRequestEach` | |
| `NotRefused` | `Spec => []NeverRefused` | |
| `ShownIsSent` | `Spec => OnlyLoadsForget` | |

- `OneRequestEach` needs to know where a request may come from: one creation is in flight
  at most and the button is off meanwhile (`OneCreate`), and one not yet served, or a
  wizard in which none has succeeded, leaves room for one more (`Counted`). The bound of
  `made` in `TypeOK` is the same fact.
- `NeverRefused`: `RightInv` says it of everything people pass through on their way into a
  creation: the lists, those read by a load still in flight, the account of a form that
  was closed or left, the selection. It is preserved because no step takes a role from an
  account (`RolesStay`).
- `OnlyLoadsForget` needs no more than the types: every step but the answer of a load
  keeps everybody selected on a list (`Covered`).

The session, for any accounts, any of them staff, and any number of calls in flight and of
actions (`AccountsAssumption`, `InviteeAssumption`):

| theorem | statement | module |
|---|---|---|
| `SessionTyped` | `Spec => []TypeOK` | `SessionProofs` |
| `OneRefreshForAll` | `Spec => []OneRefresh` | |
| `TokensAreTheUsers` | `Spec => []ShownIsTokenOwner` | |
| `ShownIsRecorded` | `Spec => []ShownAnswerIsRecorded` | |

- One invariant, `Inv`, carries the first three. `WellFormed` says which calls may be told
  that a token has expired, and so may wait: not the profile after a sign-in, whose token
  was just issued, and not the refresh itself. `OneFlow`: one call of the context, exactly
  while its flag is up. `RefreshInv`: one refresh, exactly while `refreshing`, and nobody
  waits otherwise.
- `ShownIsTokenOwner` is about the access token, yet an access token may be replaced at
  any time by a refresh begun earlier; `OwnerInv` therefore ties the user shown, and each
  profile on its way, to the *refresh* token, and the two tokens to each other unless a
  refresh crossed a sign-in.
- `ShownAnswerIsRecorded`: `AnswerInv` says it of the invitation every answer in flight
  carries as well. The backend keeps an answer once given (`BackendKeeps`), and no step of
  the page makes a call look answered that was not (`CallsKept`).

The invitations, for any calls, any panelists, any operations and both faults
(`NamesAssumption`, the tokens and the participants are distinct, and
`ScenarioAssumption`):

| theorem | statement | module |
|---|---|---|
| `InvitationsTyped` | `Spec => []TypeOK` | `InvitationsProofs` |
| `AnswersMirrored` | `Spec => []Mirrored` | |
| `LinksWereSent` | `Spec => []LiveLinkWasSent` | |
| `AnswersSurvive` | `Spec => ResponsesSurvive` | |

- One invariant, `Inv`, carries all four. `Locks`: one uncommitted write a row. So what a
  call knows of a row it has written stays true until it commits, whoever else commits
  meanwhile (`CallStays`), and each step is proved for its own call only.
- `LiveLinkWasSent` needs the same of the drafts: the link of an uncommitted row was handed
  out, but for the one a resend is about to send (`DraftSent`). A resend commits with none
  left to send.
- `ResponsesSurvive`: `Rotates` says what a resend writes over. Its draft has the status of
  the committed row, which is the answer if one came after it read the row; or it has
  PENDING, and then there was no row, or one that was read as EXPIRED, which takes a link
  that ran out (`RowLapsed`).
- `Mirrored`: the two writes of an answer are one transaction, and a resend never writes
  another status over an answer. A decline leaves its trace in `op` and `who`.

The pages of one interview, for any scenes (who is there, on which pages, at what status,
using which controls, with how many moves), any number of calls in flight, any clocks, any
times and any number of rows (`ScenesAssumption`: a scene is a set of people, those of them
on a page of slots, none a panelist, one of the statuses, and a number of moves, and there
is a place in the net for everybody's first call; `FormAssumption`: times are whole numbers,
and the form opens with windows that fit in it):

| theorem | statement | module |
|---|---|---|
| `TypeCorrect` | `Spec => []TypeOK` | `InterviewScreensProofs` |
| `YourWritesAreRead` | `Spec => []ReadYourWrites` | |
| `CallsAreSingle` | `Spec => []OneCallEach` | |
| `OfferedIsBooked` | `Spec => []SelectionIsOffered` | |
| `BookedIsConfirmed` | `Spec => []BookedWasConfirmed` | |
| `LinksAreFresh` | `Spec => []FreshLinksWork` | |
| `SentInOrder` | `Spec => []WindowsInOrder` | |
| `OffByAtMostTheGap` | `Spec => []OffByTheGapAtMost` | |

- One invariant, `Inv`, carries all eight (`ScreensInvariant`). Its parts: `Typed`; `Sound`,
  the backend's request (the events are of runs there have been, one to a run, and a run is
  on offer only without an event of its own); `CallsOK`, what a call in flight may carry,
  with its answer or without; `PagesOK`, what a page shows against the backend; `OneOut`,
  `Writes` and `LinksKnown`.
- `OneCallEach` (of the controls with a flag of their own, see section 3) is not inductive: nothing in it says why a button is off while its call is
  out. `OneOut` says that the controls which share a flag have one call out at most, and
  only while the flag is up. The call of a page that is gone belongs to no control, so that
  leaving and coming back starts with none.
- `ReadYourWrites` needs `Writes`, which holds also while calls are out: the view of a page
  has what its own last action left on record, or a load is out that will have it (it is
  not answered yet, or was answered late enough), or `stale` is set.
- `FreshLinksWork` needs `LinksKnown`: unless `missed` is set, no issue of an earlier opening
  of the page is still to be served, an answer on its way to the page has the links last
  issued, and so have the links on the screen while none is on its way.
- `BookedWasConfirmed`: the backend only grows (`Grown`: no event ever confirmed, no run and
  no entry in the log is taken back), so what a page once read stays true. Each reaction
  of the backend to each call is shown to keep `Sound` and to be `Grown`.
- The proof of a step goes by its shape rather than by its page: a look, a press, an answer
  taken, an answer that leads to the next call, an answer that reloads the page, a page
  opened (`LookStep`, `PressStep`, `TakeStep`, `FollowStep`, `ReloadStep`, `NewPage`). Every
  handler is then shown to be one of these.
- `WindowsInOrder` and `OffByTheGapAtMost` are arithmetic (`OffByGap`): the conversion asks
  for the offset of one instant, and there are only two offsets to be had.

The engine, for any windows, panels, busy times, zones, durations and buffers, any hours,
weights, step and `TopN` (`HoursAssumption`: the hours lie in the day, the weights sum to a
hundred; `RequestsAssumption`: what the API lets in, and busy times that end after they
start):

| theorem | statement | module |
|---|---|---|
| `TypeCorrect` | `Spec => []TypeOK` | `EngineProofs` |
| `WindowsStayValid` | `Spec => []NeverRejected` | |
| `TotalsInRange` | `Spec => []TotalInRange` | |
| `SlotsFit` | `PlainZones => (Spec => []FitsEverybody)` | |
| `NoRoomMissed` | `PlainZones => (Spec => []FailsOnlyWithoutRoom)` | |
| `BestOffered` | `PlainZones => (Spec => []OffersTheBest)` | |

- `PlainZones` is needed: the engine takes a local working day from the instant of its first
  to the instant of its last hour, and where one of the two is skipped or occurs twice the
  instants between them are not those at which the clock shows a working hour. Zones change
  their clocks at night and the service's day is from 7 to 22 o'clock
  (scheduling/service.py:54-59), so the hypothesis costs little. The first three theorems
  hold whatever the clocks do.
- The invariant (`EngineInv`) is short: what was asked is a request the API lets in, and what
  was answered is what the operators make of it. The work is in the operators, and all of it
  is said of the instants that a list of intervals covers (`In`): merging keeps them
  (`MergeCovers`), cutting takes out those of the cuts (`SubtractIn`), intersecting keeps the
  common ones (`IntersectIn`), clipping those in bounds (`ClipIn`), the service's preparation
  those that lie ahead (`PreparedIn`), and the working hours of a span cover its instants at
  work (`WorkingIn`). Together: the time on offer is when everybody is free (`CommonFreeIn`,
  `FreeIs`).
- Data of any length: every fold is unrolled once into a function on the numbers up to the
  length (`MergeRuns`, `FlattenRuns`, `SubtractRuns`, `IntersectRuns`, `CommonRuns`), and what
  a round preserves holds after all of them because a set of numbers has a least
  (`Least`, `UpTo`).
- `IntersectIn` is the argument for the two pointers: what is out, and what the intervals not
  yet passed have in common, is what the two lists have in common (`SweepInv`). Each round
  moves one pointer, so that one of them is at its end after the last (`SweepMoves`).
- Sorting and ranking are one fact: in a finite strict total order the number of those ahead
  names everybody, and each number once (`Ranks`). It makes `ByStart` a permutation that goes
  up (`Sorted`). It makes `Recommended` the beginning of the ranking (`RecommendedIs`): two
  slots that start together are the same slot, because what `Intersect` puts out lies apart
  (`Apart`, `RawRanked`), so `Better` leaves no ties.
- `NoRoomMissed` and `BestOffered` then need that a run of free instants lies in one interval
  (`OneStretch`), and that a free stretch is one from end to end (`StretchIs`): adjacent
  intervals have been merged, which is what the mutant `AbsorbApart` gets wrong.

Only model-checked: liveness (`EveryCallEnds`, `ReschedulingPasses`, `EveryWaitEnds`,
`EverythingSettles`), which is beyond the prover. Every invariant and every
action property that a passing run checks is stated by a theorem.

## 5. Not modelled

- *Backend*: calendar connections with their refresh, revocation and free/busy cache; the
  reminder script and the notification log; the rate limiter; registration, Google sign-in
  and archiving as handlers of their own (the pages see them as single steps); two
  requests that share a panelist (the clash check may answer either way).
- *Frontend*: the demo mode of the API client, which answers from memory instead of the
  API; the caches of one's own profile and of the directory, which only save requests; the mapping
  between the API's bodies and the pages' types; several tabs over one localStorage; the
  browser's own validation of required fields, which is assumed; the rules for passwords;
  dashboards, lists, settings and the calendar panel, which load once and show what they
  got.
- *Neither*: signatures, password hashing and encryption; texts; audit rows beyond their
  number; migrations, seed and demo scripts; configuration. They keep no state that an
  order of steps could corrupt, or they are another program's business.
