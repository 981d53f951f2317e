------------------------------- MODULE ApiClient -------------------------------
(***************************************************************************)
(* One browser tab: the tokens in localStorage, the fetch wrapper that     *)
(* refreshes an access token for all calls that need it and sends each     *)
(* again once, and the context that signs people in and out.               *)
(* A token stands for the account it was issued to; the backend may take   *)
(* an access token for expired whenever it is presented.                   *)
(***************************************************************************)
EXTENDS Naturals, FiniteSets

CONSTANTS
  None,
  Accounts,
  Staff,         \* the panelists and administrators, whose calendar status is asked for
  MaxCalls,      \* bound: calls in flight
  MaxActions     \* bound: things done in the browser

ASSUME AccountsAssumption ==
  None \notin Accounts /\ Staff \subseteq Accounts /\ MaxCalls \in Nat /\ MaxCalls > 1 /\ MaxActions \in Nat

CallIds == 1..MaxCalls
Guarded == {"app"}                                  \* behind RoleGuard
Public  == {"login", "register", "setup", "invite"}

VARIABLES
  store,   \* localStorage: whose access token, whose refresh token
  tab,     \* the page: where it is, the user the context has, its loading flag, isRefreshing,
           \* whether a page load is on its way
  calls,   \* the calls in flight
  left,    \* the actions still to be taken
  slips    \* what has gone wrong on the way: a profile that was lost after its tokens were
           \* stored, an access token refreshed for an account no longer signed in

Idle         == [op |-> "none"]
Call(op, as) == [op |-> op, as |-> as, retry |-> TRUE, state |-> "sent", answer |-> "none", read |-> None]
Busy(c)      == calls[c].op # "none"
In(ops)      == {c \in CallIds : calls[c].op \in ops}
Answered(c)  == Busy(c) /\ calls[c].state = "answered"
Waiting      == {c \in CallIds : Busy(c) /\ calls[c].state = "waiting"}

\* The calls of the context, one after another, under its loading flag.
Flow  == {"init", "register", "auth", "claim", "me", "calendar"}

Free      == {c \in CallIds : ~Busy(c)}
FirstFree == {c \in Free : \A d \in Free : c <= d}
Put(cs, c, call) == [cs EXCEPT ![c] = call]
Act       == left > 0 /\ left' = left - 1

-----------------------------------------------------------------------------
(* Page loads: what was in flight and in memory is gone, the tokens stay. *)

Loaded(s, place) ==
  [place |-> place, user |-> None, loading |-> s.access # None, refreshing |-> FALSE, leaving |-> FALSE]

\* initAuth: whose profile it is depends on the token alone.
OnMount(s) == [c \in CallIds |-> IF c = 1 /\ s.access # None THEN Call("init", s.access) ELSE Idle]

Load(place) == tab' = Loaded(store, place) /\ calls' = OnMount(store) /\ slips' = slips \ {"profile"}

\* window.location: until the page is gone, it goes on.
Unload == tab.leaving /\ Load("login") /\ UNCHANGED <<store, left>>

Cleared == [access |-> None, refresh |-> None]

-----------------------------------------------------------------------------
(* The backend, and the network. *)

\* Calls that carry a token the backend may find expired; the profile after a sign-in has one
\* just issued.
MayExpire == {"init", "calendar", "data"}

Answers(op) == {"ok", "refused", "failed"} \cup IF op \in MayExpire THEN {"401"} ELSE {}

-----------------------------------------------------------------------------
(* What the callers do with the end of their calls. *)

\* Of the calls that fail at once, at most one is the context's.  A profile that is not to be
\* had at the start signs the account out; after a sign-in it does not.
AfterFailure(t, ops) ==
  [t EXCEPT !.loading = IF ops \cap Flow # {} THEN FALSE ELSE @,
            !.user    = IF "init" \in ops THEN None ELSE @]

StoreAfterFailure(s, ops) == IF "init" \in ops THEN Cleared ELSE s
SlipsAfterFailure(ops)    == CASE "me" \in ops   -> slips \cup {"profile"}
                               [] "init" \in ops -> slips \ {"crossed"}
                               [] OTHER          -> slips

Fails(c) ==
  /\ tab' = AfterFailure(tab, {calls[c].op})
  /\ store' = StoreAfterFailure(store, {calls[c].op})
  /\ slips' = SlipsAfterFailure({calls[c].op})
  /\ calls' = Put(calls, c, Idle)

\* Mutant: only what has no access token yet is stored.
StoreFirstTokens(who) == [access |-> IF store.access = None THEN who ELSE store.access, refresh |-> who]

StoreTokens(who) == [access |-> who, refresh |-> who]

\* What a sign-in is for is kept in "as": nobody's token, the account it asks for.
Succeeds(c) ==
  LET call == calls[c] IN
    CASE call.op = "register" ->
           calls' = Put(calls, c, Call("auth", call.as)) /\ UNCHANGED <<store, tab, slips>>
      [] call.op \in {"auth", "claim"} ->
           /\ store' = StoreTokens(call.as) /\ slips' = slips \ {"crossed"}
           /\ calls' = Put(calls, c, Call("me", store'.access)) /\ UNCHANGED tab
      [] call.op \in {"init", "me"} ->
           /\ tab' = [tab EXCEPT !.user = call.as, !.loading = call.as \in Staff]
           /\ calls' = Put(calls, c, IF call.as \in Staff THEN Call("calendar", store.access) ELSE Idle)
           /\ slips' = slips \ {"profile"} /\ UNCHANGED store
      [] call.op = "calendar" ->
           tab' = [tab EXCEPT !.loading = FALSE] /\ calls' = Put(calls, c, Idle) /\ UNCHANGED <<store, slips>>
      [] OTHER -> calls' = Put(calls, c, Idle) /\ UNCHANGED <<store, tab, slips>>

-----------------------------------------------------------------------------
(* request: a 401 waits for the refresh that is under way, or starts it; the second one ends. *)

Expired(c) == calls[c].answer = "401" /\ calls[c].retry

Wait(c) == Put(calls, c, [calls[c] EXCEPT !.state = "waiting"])

\* The refresh failed, or there is no token to refresh with: the tokens go, and the page too
\* unless it is the login page.
SessionOver(cs, gone) ==
  LET ops == {calls[c].op : c \in gone} IN
    /\ store' = Cleared
    /\ tab' = [AfterFailure(tab, ops) EXCEPT !.refreshing = FALSE, !.leaving = @ \/ tab.place # "login"]
    /\ slips' = SlipsAfterFailure(ops) \ {"crossed"}
    /\ calls' = [c \in CallIds |-> IF c \in gone THEN Idle ELSE cs[c]]

\* Mutant: every call that is refused refreshes for itself.
RefreshOwn(c) ==
  \E d \in FirstFree :
    /\ calls' = Put(Wait(c), d, Call("refresh", store.refresh))
    /\ tab' = [tab EXCEPT !.refreshing = TRUE] /\ UNCHANGED <<store, slips>>

Refresh(c) ==
  IF tab.refreshing THEN calls' = Wait(c) /\ UNCHANGED <<store, tab, slips>>
  ELSE \E d \in FirstFree :
         /\ calls' = Put(Wait(c), d, Call("refresh", store.refresh))
         /\ tab' = [tab EXCEPT !.refreshing = TRUE] /\ UNCHANGED <<store, slips>>

Arrives(c) ==
  /\ Answered(c) /\ calls[c].op # "refresh"
  /\ CASE calls[c].answer = "ok"                                        -> Succeeds(c)
       [] Expired(c) /\ ~tab.refreshing /\ store.refresh = None         -> SessionOver(calls, {c})
       [] Expired(c) /\ (tab.refreshing \/ store.refresh # None)        -> Refresh(c)
       [] OTHER                                                         -> Fails(c)
  /\ UNCHANGED left

Again(call, as) == [call EXCEPT !.as = as, !.retry = FALSE, !.state = "sent", !.answer = "none", !.read = None]

\* Mutant: the call that asked for the refresh goes on, the others are forgotten.
ResendFirst(cs, who) ==
  [c \in CallIds |-> IF c \in Waiting /\ \A d \in Waiting : c <= d THEN Again(cs[c], who) ELSE cs[c]]

Resend(cs, who) == [c \in CallIds |-> IF c \in Waiting THEN Again(cs[c], who) ELSE cs[c]]

\* Only the access token is replaced, whoever the refresh token belongs to by now.
RefreshSucceeds(c) ==
  LET who == calls[c].as IN
    /\ store' = [store EXCEPT !.access = who]
    /\ tab' = [tab EXCEPT !.refreshing = FALSE]
    /\ slips' = IF who = store.refresh THEN slips ELSE slips \cup {"crossed"}
    /\ calls' = Resend(Put(calls, c, Idle), who)

RefreshArrives(c) ==
  /\ Answered(c) /\ calls[c].op = "refresh"
  /\ IF calls[c].answer = "ok" THEN RefreshSucceeds(c)
     ELSE SessionOver(Put(calls, c, Idle), Waiting)
  /\ UNCHANGED left

-----------------------------------------------------------------------------
(* Signing in and out. *)

\* Mutant: the button of the form stays live.
EnterAgain(op, who) ==
  /\ tab' = [tab EXCEPT !.loading = TRUE]
  /\ \E c \in FirstFree : calls' = Put(calls, c, Call(op, who))
  /\ UNCHANGED <<store, slips>>

\* Under the loading flag, which disables the button of every form that does it.
Enter(op, who) ==
  /\ ~tab.loading
  /\ tab' = [tab EXCEPT !.loading = TRUE]
  /\ \E c \in FirstFree : calls' = Put(calls, c, Call(op, who))
  /\ UNCHANGED <<store, slips>>

Login(who)          == tab.place = "login" /\ Act /\ Enter("auth", who)
Register(who)       == tab.place = "register" /\ who \notin Staff /\ Act /\ Enter("register", who)
BootstrapAdmin(who) == tab.place = "setup" /\ who \in Staff /\ Act /\ Enter("auth", who)

\* clearStoredTokens and the user first, then the login page from nothing.
Logout ==
  /\ tab.place = "app" /\ tab.user # None /\ Act
  /\ store' = Cleared /\ slips' = slips \ {"crossed"}
  /\ tab' = [tab EXCEPT !.user = None, !.leaving = TRUE]
  /\ UNCHANGED calls

\* A page of the workspace asks for what it shows.
Fetch ==
  /\ tab.place = "app" /\ ~tab.loading /\ tab.user # None /\ Act
  /\ \E c \in FirstFree : calls' = Put(calls, c, Call("data", store.access))
  /\ UNCHANGED <<store, tab, slips>>

\* RoleGuard lets nobody but a user in; the login page lets no user stay; the pages that make
\* an account go on to its workspace, as a user there may also do by their link to the login page.
Redirected ==
  CASE tab.place = "app" /\ ~tab.loading /\ tab.user = None -> "login"
    [] tab.place = "login" /\ tab.user # None -> "app"
    [] tab.place \in {"register", "setup"} /\ ~tab.loading /\ tab.user # None -> "app"
    [] OTHER -> tab.place

Redirect ==
  /\ Redirected # tab.place
  /\ tab' = [tab EXCEPT !.place = Redirected]
  /\ UNCHANGED <<store, calls, left, slips>>

\* By address or by a link in a mail, from nothing; or back in the history, with all that is in
\* memory and in flight.
Visit(place) == Act /\ Load(place) /\ UNCHANGED store

Back(place) ==
  /\ tab.place = "app" /\ Act
  /\ tab' = [tab EXCEPT !.place = place]
  /\ UNCHANGED <<store, calls, slips>>
===============================================================================
