------------------------------ MODULE SessionProofs ------------------------------
(***************************************************************************)
(* Theorems about Session, for any accounts, any of them staff, and any    *)
(* number of calls in flight and of actions.                               *)
(***************************************************************************)
EXTENDS Session, FiniteSetTheorems, TLAPS

Anyone == Accounts \cup {None}

IsCall(x) ==
  x = [op |-> x.op, as |-> x.as, retry |-> x.retry, state |-> x.state, answer |-> x.answer, read |-> x.read]

\* A call of the context, or a refresh, is for an account or for nobody; only a call that
\* carries a token of any age is told that it has expired, and waits for a refresh.
WellFormed(x) ==
  \/ x = Idle
  \/ /\ IsCall(x) /\ x.op # "none"
     /\ x.op \in Flow \cup {"refresh"} => x.as \in Anyone
     /\ x.answer = "401" \/ x.state = "waiting" => x.op \in MayExpire

StoreType == store \in [access : Anyone, refresh : Anyone]
TabType ==
  tab \in [place : Guarded \cup Public, user : Anyone, loading : BOOLEAN, refreshing : BOOLEAN, leaving : BOOLEAN]
CallsType == calls = [c \in CallIds |-> calls[c]] /\ \A c \in CallIds : WellFormed(calls[c])
LeftType  == left \in 0..MaxActions

Shape == StoreType /\ TabType /\ CallsType /\ LeftType

\* The context makes one call at a time, under its flag.
OneFlow ==
  /\ \A c, d \in CallIds : calls[c].op \in Flow /\ calls[d].op \in Flow => c = d
  /\ tab.loading = TRUE <=> \E c \in CallIds : calls[c].op \in Flow

\* One refresh, and whoever waits waits for it.
RefreshInv ==
  /\ \A c, d \in CallIds : calls[c].op = "refresh" /\ calls[d].op = "refresh" => c = d
  /\ tab.refreshing = TRUE <=> \E c \in CallIds : calls[c].op = "refresh"
  /\ \A c \in CallIds : calls[c].op # "none" /\ calls[c].state = "waiting" => tab.refreshing = TRUE

\* The two tokens are the same account's unless a refresh crossed a sign-in; the profile on its
\* way, or else the user shown, is the refresh token's.
OwnerInv ==
  /\ "crossed" \notin slips => store.access = store.refresh
  /\ \A c \in CallIds : calls[c].op = "me" => store.refresh \in {None, calls[c].as}
  /\ \A c \in CallIds : calls[c].op = "init" /\ "crossed" \notin slips => store.refresh \in {None, calls[c].as}
  /\ slips = {} /\ tab.user # None /\ (\A c \in CallIds : calls[c].op \notin {"me", "init"})
       => store.refresh \in {None, tab.user}

Inv == Shape /\ OneFlow /\ RefreshInv /\ OwnerInv

-----------------------------------------------------------------------------
(* One entry of the calls. *)

\* A call that is made has its fields.
LEMMA NewCall ==
  ASSUME NEW op, NEW as
  PROVE  /\ Call(op, as).op = op /\ Call(op, as).as = as
         /\ Call(op, as).state = "sent" /\ Call(op, as).answer = "none"
         /\ op # "none" /\ (op \in Flow \cup {"refresh"} => as \in Anyone) => WellFormed(Call(op, as))
  BY DEF Call, WellFormed, IsCall

\* A call that is answered, waits, or is sent again keeps its other fields.
LEMMA Answering ==
  ASSUME NEW x, IsCall(x), NEW a, NEW r
  PROVE  [x EXCEPT !.state = "answered", !.answer = a, !.read = r]
           = [op |-> x.op, as |-> x.as, retry |-> x.retry, state |-> "answered", answer |-> a, read |-> r]
<1>1. PICK o, as, b, st, an, re : x = [op |-> o, as |-> as, retry |-> b, state |-> st, answer |-> an, read |-> re]
  BY DEF IsCall
<1>2. PICK y : y = [x EXCEPT !.state = "answered", !.answer = a, !.read = r]
  OBVIOUS
<1>3. y = [op |-> o, as |-> as, retry |-> b, state |-> "answered", answer |-> a, read |-> r]
  BY <1>1, <1>2
<1>4. o = x.op /\ as = x.as /\ b = x.retry /\ st = x.state /\ an = x.answer /\ re = x.read
  BY <1>1
<1> QED
  BY <1>2, <1>3, <1>4

\* The same of a call that waits for the refresh.
LEMMA Waits ==
  ASSUME NEW x, IsCall(x)
  PROVE  [x EXCEPT !.state = "waiting"]
           = [op |-> x.op, as |-> x.as, retry |-> x.retry, state |-> "waiting", answer |-> x.answer, read |-> x.read]
<1>1. PICK o, as, b, st, an, re : x = [op |-> o, as |-> as, retry |-> b, state |-> st, answer |-> an, read |-> re]
  BY DEF IsCall
<1>2. PICK y : y = [x EXCEPT !.state = "waiting"]
  OBVIOUS
<1>3. y = [op |-> o, as |-> as, retry |-> b, state |-> "waiting", answer |-> an, read |-> re]
  BY <1>1, <1>2
<1>4. o = x.op /\ as = x.as /\ b = x.retry /\ st = x.state /\ an = x.answer /\ re = x.read
  BY <1>1
<1> QED
  BY <1>2, <1>3, <1>4

\* And of one that is sent again with the new token.
LEMMA SentAgain ==
  ASSUME NEW x, IsCall(x), NEW who
  PROVE  Again(x, who)
           = [op |-> x.op, as |-> who, retry |-> FALSE, state |-> "sent", answer |-> "none", read |-> None]
<1>1. PICK o, as, b, st, an, re : x = [op |-> o, as |-> as, retry |-> b, state |-> st, answer |-> an, read |-> re]
  BY DEF IsCall
<1>2. PICK y : y = Again(x, who)
  OBVIOUS
<1>3. y = [op |-> o, as |-> who, retry |-> FALSE, state |-> "sent", answer |-> "none", read |-> None]
  BY <1>1, <1>2 DEF Again
<1>4. o = x.op /\ as = x.as /\ b = x.retry /\ st = x.state /\ an = x.answer /\ re = x.read
  BY <1>1
<1> QED
  BY <1>2, <1>3, <1>4

\* A call that is put in changes one entry.
LEMMA OneChange ==
  ASSUME CallsType, NEW c \in CallIds, NEW x, calls' = Put(calls, c, x)
  PROVE  /\ calls'[c] = x
         /\ \A d \in CallIds : d # c => calls'[d] = calls[d]
         /\ WellFormed(x) => CallsType'
<1>1. calls'[c] = x /\ \A d \in CallIds : d # c => calls'[d] = calls[d]
  BY DEF CallsType, Put
<1>2. calls' = [d \in CallIds |-> calls'[d]]
  BY DEF CallsType, Put
<1>3. ASSUME WellFormed(x) PROVE \A d \in CallIds : WellFormed(calls'[d])
  BY <1>1, <1>3 DEF CallsType
<1> QED
  BY <1>1, <1>2, <1>3 DEF CallsType, WellFormed, IsCall

\* An entry without a call.
LEMMA NoCall == Idle.op = "none" /\ WellFormed(Idle)
  BY DEF Idle, WellFormed

\* A call that is made, and the others as they were.
LEMMA Made ==
  ASSUME CallsType, NEW c \in CallIds, NEW op, NEW as, calls' = Put(calls, c, Call(op, as)),
         op # "none", op \in Flow \cup {"refresh"} => as \in Anyone
  PROVE  /\ calls'[c].op = op /\ calls'[c].as = as /\ calls'[c].state = "sent"
         /\ \A d \in CallIds : d # c => calls'[d] = calls[d]
         /\ CallsType'
<1>1. WellFormed(Call(op, as))
  BY NewCall
<1>2. calls'[c] = Call(op, as) /\ (\A d \in CallIds : d # c => calls'[d] = calls[d]) /\ CallsType'
  BY <1>1, OneChange
<1>3. Call(op, as).op = op /\ Call(op, as).as = as /\ Call(op, as).state = "sent"
  BY DEF Call
<1> QED
  BY <1>2, <1>3

\* A call that is over, and the others as they were.
LEMMA Ended ==
  ASSUME CallsType, NEW c \in CallIds, calls' = Put(calls, c, Idle)
  PROVE  /\ calls'[c].op = "none"
         /\ \A d \in CallIds : d # c => calls'[d] = calls[d]
         /\ CallsType'
<1>1. calls'[c] = Idle /\ (\A d \in CallIds : d # c => calls'[d] = calls[d]) /\ CallsType'
  BY NoCall, OneChange
<1> QED
  BY <1>1, NoCall

\* What the operations are, of the context, of the refresh, and of neither.
LEMMA Kinds ==
  /\ "none" \notin Flow /\ "refresh" \notin Flow
  /\ "me" \in Flow /\ "init" \in Flow /\ "me" \notin MayExpire /\ "refresh" \notin MayExpire
  /\ "data" \notin Flow /\ "respond" \notin Flow /\ "invitation" \notin Flow
  /\ "auth" \in Flow /\ "claim" \in Flow /\ "register" \in Flow /\ "calendar" \in Flow
  BY DEF Flow, MayExpire

-----------------------------------------------------------------------------
(* What a step may leave alone of each part of the invariant. *)

\* The calls of the context are as many, and its flag as it was.
LEMMA FlowKept ==
  ASSUME OneFlow, tab'.loading = tab.loading,
         \A c \in CallIds : calls'[c].op \in Flow <=> calls[c].op \in Flow
  PROVE  OneFlow'
  BY DEF OneFlow

\* The context starts on its calls, under its flag.
LEMMA FlowStarts ==
  ASSUME OneFlow, tab.loading # TRUE, tab'.loading = TRUE, NEW c \in CallIds, calls'[c].op \in Flow,
         \A d \in CallIds : d # c => calls'[d] = calls[d]
  PROVE  OneFlow'
  BY DEF OneFlow

\* The context's one call is over, and its flag down.
LEMMA FlowEnds ==
  ASSUME OneFlow, tab'.loading = FALSE,
         NEW c \in CallIds, calls[c].op \in Flow, calls'[c].op \notin Flow,
         \A d \in CallIds : calls'[d].op \in Flow => calls[d].op \in Flow
  PROVE  OneFlow'
  BY DEF OneFlow

\* The refresh, and who waits for it, are as they were.
LEMMA RefreshKept ==
  ASSUME RefreshInv, tab'.refreshing = tab.refreshing,
         \A c \in CallIds : calls'[c].op = "refresh" <=> calls[c].op = "refresh",
         \A c \in CallIds : calls'[c].op # "none" /\ calls'[c].state = "waiting" =>
            tab.refreshing = TRUE \/ (calls[c].op # "none" /\ calls[c].state = "waiting")
  PROVE  RefreshInv'
  BY DEF RefreshInv

\* The calls for a profile.
ForProfile(x) == x.op \in {"me", "init"}

\* The tokens, the user and the calls for a profile are as they were.
LEMMA OwnerKept ==
  ASSUME OwnerInv, UNCHANGED <<store, slips>>, tab'.user = tab.user,
         \A c \in CallIds : ForProfile(calls'[c]) => calls'[c].op = calls[c].op /\ calls'[c].as = calls[c].as,
         \A c \in CallIds : ForProfile(calls[c]) => calls'[c].op = calls[c].op
  PROVE  OwnerInv'
  BY DEF OwnerInv, ForProfile

\* Without tokens there is nothing to be somebody else's.
LEMMA NobodysOwner ==
  ASSUME store' = Cleared
  PROVE  OwnerInv'
  BY DEF OwnerInv, Cleared

-----------------------------------------------------------------------------
(* The kinds of steps. *)

\* The same calls are in flight, and the store and the context are the same.
LEMMA SameCalls ==
  ASSUME Inv, Shape', UNCHANGED <<store, slips>>,
         tab'.user = tab.user, tab'.loading = tab.loading, tab'.refreshing = tab.refreshing,
         \A c \in CallIds : calls'[c].op = calls[c].op,
         \A c \in CallIds : calls[c].op # "none" => calls'[c].as = calls[c].as /\ calls'[c].state \in {calls[c].state, "answered"}
  PROVE  Inv'
<1>1. OneFlow'
  BY FlowKept DEF Inv
<1>2. RefreshInv'
  BY RefreshKept DEF Inv
<1>3. OwnerInv'
  <2>1. \A c \in CallIds : ForProfile(calls[c]) => calls'[c].as = calls[c].as
    BY DEF ForProfile
  <2>2. \A c \in CallIds : ForProfile(calls'[c]) => ForProfile(calls[c])
    BY DEF ForProfile
  <2> QED
    BY <2>1, <2>2, OwnerKept DEF Inv
<1> QED
  BY <1>1, <1>2, <1>3 DEF Inv

\* A call of a page that has nothing to do with accounts.
LEMMA PageCall ==
  ASSUME Inv, UNCHANGED <<store, slips, tab>>, LeftType',
         NEW c \in CallIds, calls[c].op = "none", NEW op \in {"data", "respond"}, NEW as,
         calls' = Put(calls, c, Call(op, as))
  PROVE  Inv'
<1>0. op # "none" /\ op \notin Flow /\ op # "refresh" /\ "none" \notin Flow
  BY Kinds
<1>1. /\ calls'[c].op = op /\ calls'[c].as = as /\ calls'[c].state = "sent"
      /\ \A d \in CallIds : d # c => calls'[d] = calls[d]
      /\ CallsType'
  BY <1>0, Made DEF Inv, Shape
<1>3. Shape'
  BY <1>1 DEF Inv, Shape, StoreType, TabType
<1>4. OneFlow'
  <2>1. \A d \in CallIds : calls'[d].op \in Flow <=> calls[d].op \in Flow
    BY <1>0, <1>1
  <2> QED
    BY <2>1, FlowKept DEF Inv
<1>5. RefreshInv'
  <2>1. \A d \in CallIds : calls'[d].op = "refresh" <=> calls[d].op = "refresh"
    BY <1>0, <1>1
  <2>2. \A d \in CallIds : calls'[d].op # "none" /\ calls'[d].state = "waiting" => calls[d].op # "none" /\ calls[d].state = "waiting"
    BY <1>1
  <2> QED
    BY <2>1, <2>2, RefreshKept DEF Inv
<1>6. OwnerInv'
  <2>1. ~ForProfile(calls[c]) /\ ~ForProfile(calls'[c])
    BY <1>1 DEF ForProfile
  <2> QED
    BY <1>1, <2>1, OwnerKept DEF Inv
<1> QED
  BY <1>3, <1>4, <1>5, <1>6 DEF Inv

\* A sign-in under the loading flag.
LEMMA EnterStep ==
  ASSUME Inv, NEW op \in {"auth", "register", "claim"}, NEW who \in Accounts, Enter(op, who), LeftType'
  PROVE  Inv'
<1>0. op # "none" /\ op \in Flow /\ op # "refresh" /\ "none" \notin Flow
  BY Kinds
<1>c. PICK c \in CallIds : calls[c].op = "none" /\ calls' = Put(calls, c, Call(op, who))
  BY DEF Enter, FirstFree, Free, Busy
<1>1. /\ calls'[c].op = op /\ calls'[c].as = who /\ calls'[c].state = "sent"
      /\ \A d \in CallIds : d # c => calls'[d] = calls[d]
      /\ CallsType'
  BY <1>0, <1>c, Made DEF Inv, Shape, Anyone
<1>2. UNCHANGED <<store, slips>> /\ tab.loading # TRUE /\ tab' = [tab EXCEPT !.loading = TRUE]
  BY DEF Enter
<1>t. TabType' /\ tab'.user = tab.user /\ tab'.loading = TRUE /\ tab'.refreshing = tab.refreshing
  BY <1>2 DEF Inv, Shape, TabType
<1>3. Shape'
  BY <1>1, <1>2, <1>t DEF Inv, Shape, StoreType
<1>4. OneFlow'
  BY <1>0, <1>1, <1>2, <1>t, FlowStarts DEF Inv
<1>5. RefreshInv'
  <2>1. \A d \in CallIds : calls'[d].op = "refresh" <=> calls[d].op = "refresh"
    BY <1>0, <1>1, <1>c
  <2>2. \A d \in CallIds : calls'[d].op # "none" /\ calls'[d].state = "waiting" => calls[d].op # "none" /\ calls[d].state = "waiting"
    BY <1>1
  <2> QED
    BY <1>t, <2>1, <2>2, RefreshKept DEF Inv
<1>6. OwnerInv'
  <2>1. ~ForProfile(calls[c]) /\ ~ForProfile(calls'[c])
    BY <1>1, <1>c DEF ForProfile
  <2> QED
    BY <1>1, <1>2, <1>t, <2>1, OwnerKept DEF Inv
<1> QED
  BY <1>3, <1>4, <1>5, <1>6 DEF Inv

-----------------------------------------------------------------------------
(* Pages that open from nothing. *)

Opens ==
  /\ StoreType /\ LeftType
  /\ "crossed" \notin slips => store.access = store.refresh
  /\ \E place \in Guarded \cup Public : tab = Loaded(store, place)
  /\ calls = OnMount(store) \/ calls = Put(OnMount(store), MaxCalls, Call("invitation", None))

\* All that is in flight is the profile of whoever the access token belongs to, and the
\* invitation of its page.
LEMMA OpensCalls ==
  ASSUME Opens
  PROVE  /\ CallsType
         /\ 1 \in CallIds
         /\ store.access # None => calls[1].op = "init" /\ calls[1].as = store.access /\ calls[1].state = "sent"
         /\ store.access = None => calls[1].op = "none"
         /\ \A c \in CallIds : c # 1 => calls[c].op = "none" \/ (calls[c].op = "invitation" /\ calls[c].state = "sent")
<1> DEFINE First == IF store.access # None THEN Call("init", store.access) ELSE Idle
<1>1. 1 \in CallIds /\ MaxCalls \in CallIds /\ MaxCalls # 1
  BY AccountsAssumption DEF CallIds
<1>2. \A c \in CallIds : OnMount(store)[c] = IF c = 1 THEN First ELSE Idle
  BY DEF OnMount
<1>3. /\ calls = [c \in CallIds |-> calls[c]]
      /\ calls[1] = First
      /\ \A c \in CallIds : c # 1 => calls[c] = Idle \/ calls[c] = Call("invitation", None)
  <2>1. CASE calls = OnMount(store)
    BY <1>1, <1>2, <2>1 DEF OnMount
  <2>2. CASE calls = Put(OnMount(store), MaxCalls, Call("invitation", None))
    <3>1. calls = [c \in CallIds |-> IF c = MaxCalls THEN Call("invitation", None) ELSE OnMount(store)[c]]
      BY <2>2 DEF Put, OnMount
    <3> QED
      BY <1>1, <1>2, <3>1
  <2> QED
    BY <2>1, <2>2 DEF Opens
<1>4. WellFormed(Call("invitation", None))
  BY NewCall, Kinds
<1>5. WellFormed(First)
  <2>1. store.access \in Anyone
    BY DEF Opens, StoreType
  <2>2. WellFormed(Call("init", store.access))
    BY <2>1, NewCall, Kinds
  <2> QED
    BY <2>2, NoCall
<1>6. CallsType
  BY <1>1, <1>3, <1>4, <1>5, NoCall DEF CallsType
<1>7. Call("invitation", None).op = "invitation" /\ Call("invitation", None).state = "sent"
  BY NewCall
<1>8. /\ store.access # None => First.op = "init" /\ First.as = store.access /\ First.state = "sent"
      /\ store.access = None => First.op = "none"
  BY NoCall, NewCall
<1> QED
  BY <1>1, <1>3, <1>6, <1>7, <1>8, NoCall

\* The invariant holds on a page that opens.
LEMMA OpensInv == Opens => Inv
<1> SUFFICES ASSUME Opens PROVE Inv
  OBVIOUS
<1>1. /\ CallsType
      /\ 1 \in CallIds
      /\ store.access # None => calls[1].op = "init" /\ calls[1].as = store.access /\ calls[1].state = "sent"
      /\ store.access = None => calls[1].op = "none"
      /\ \A c \in CallIds : c # 1 => calls[c].op = "none" \/ (calls[c].op = "invitation" /\ calls[c].state = "sent")
  BY OpensCalls
<1>2. /\ TabType /\ tab.user = None /\ tab.refreshing = FALSE
      /\ tab.loading = TRUE <=> store.access # None
  <2>1. PICK place \in Guarded \cup Public : tab = Loaded(store, place)
    BY DEF Opens
  <2>2. (store.access # None) \in BOOLEAN
    OBVIOUS
  <2>3. TabType /\ tab.user = None /\ tab.refreshing = FALSE /\ tab.loading = (store.access # None)
    BY <2>1, <2>2 DEF Loaded, TabType, Anyone
  <2> QED
    BY <2>3
<1>3. Shape
  BY <1>1, <1>2 DEF Shape, Opens
<1>4. OneFlow
  <2>1. /\ \A c \in CallIds : calls[c].op \in Flow => c = 1
        /\ calls[1].op \in Flow <=> store.access # None
    BY <1>1, Kinds
  <2> QED
    BY <1>1, <1>2, <2>1 DEF OneFlow
<1>5. RefreshInv
  <2>1. \A c \in CallIds : calls[c].op # "refresh" /\ (calls[c].op # "none" => calls[c].state = "sent")
    BY <1>1
  <2> QED
    BY <1>2, <2>1 DEF RefreshInv
<1>6. OwnerInv
  <2>1. /\ \A c \in CallIds : calls[c].op # "me"
        /\ \A c \in CallIds : calls[c].op = "init" => calls[c].as = store.access
    BY <1>1
  <2> QED
    BY <1>2, <2>1 DEF OwnerInv, Opens
<1> QED
  BY <1>3, <1>4, <1>5, <1>6 DEF Inv

\* The invariant at the start, which is a page load.
LEMMA InitInv == Init => Inv
<1>1. Init => Opens
  <2> SUFFICES ASSUME Init PROVE Opens
    OBVIOUS
  <2>1. PICK who \in Anyone : store = [access |-> who, refresh |-> who]
    BY DEF Init, Anyone
  <2>2. StoreType /\ store.access = store.refresh
    BY <2>1 DEF StoreType
  <2>3. LeftType
    BY AccountsAssumption DEF Init, LeftType
  <2>4. calls = OnMount(store) \/ calls = Put(OnMount(store), MaxCalls, Call("invitation", None))
    BY DEF Init
  <2> QED
    BY <2>2, <2>3, <2>4 DEF Opens, Init
<1> QED
  BY <1>1, OpensInv

\* A page load, with or without the call of a page of its own.
LEMMA LoadStep ==
  ASSUME Inv, UNCHANGED store, slips' = slips \ {"profile"}, LeftType',
         NEW place \in Guarded \cup Public, tab' = Loaded(store, place),
         \/ calls' = OnMount(store)
         \/ calls' = Put(OnMount(store), MaxCalls, Call("invitation", None))
  PROVE  Inv'
<1>1. StoreType' /\ ("crossed" \notin slips' => store'.access = store'.refresh)
  BY DEF Inv, Shape, StoreType, OwnerInv
<1>2. (\E p \in Guarded \cup Public : tab = Loaded(store, p))'
  BY DEF Loaded
<1>3. (calls = OnMount(store) \/ calls = Put(OnMount(store), MaxCalls, Call("invitation", None)))'
  BY DEF OnMount
<1>4. Opens'
  BY <1>1, <1>2, <1>3 DEF Opens
<1> QED
  BY <1>4, OpensInv, PTL

\* The tokens and the user are forgotten, with all that is in flight.
LEMMA LogoutStep ==
  ASSUME Inv, Logout
  PROVE  Inv'
<1>1. store' = Cleared /\ UNCHANGED calls /\ tab' = [tab EXCEPT !.user = None, !.leaving = TRUE]
  BY DEF Logout
<1>2. TabType' /\ UNCHANGED <<tab.loading, tab.refreshing>>
  BY <1>1 DEF Inv, Shape, TabType, Anyone
<1>3. LeftType'
  BY AccountsAssumption DEF Inv, Shape, LeftType, Logout, Act
<1>4. Shape'
  BY <1>1, <1>2, <1>3 DEF Inv, Shape, StoreType, Cleared, Anyone, CallsType, WellFormed, IsCall
<1>5. OneFlow'
  BY <1>1, <1>2, FlowKept DEF Inv
<1>6. RefreshInv'
  BY <1>1, <1>2, RefreshKept DEF Inv
<1>7. OwnerInv'
  BY <1>1, NobodysOwner
<1> QED
  BY <1>4, <1>5, <1>6, <1>7 DEF Inv

\* The page goes to another place with all that is in memory and in flight.
LEMMA MoveStep ==
  ASSUME Inv, UNCHANGED <<store, calls, slips>>, LeftType',
         NEW place \in Guarded \cup Public, tab' \in {tab, [tab EXCEPT !.place = place]}
  PROVE  Inv'
<1>1. TabType' /\ UNCHANGED <<tab.user, tab.loading, tab.refreshing>>
  BY DEF Inv, Shape, TabType
<1>2. Shape'
  BY <1>1 DEF Inv, Shape, StoreType, CallsType, WellFormed, IsCall
<1> QED
  BY <1>1, <1>2, SameCalls

\* The backend answers one call, or the network fails it.
LEMMA BackendStep ==
  ASSUME Inv, NEW c \in CallIds, Backend(c)
  PROVE  Inv'
<1>1. /\ calls[c].op # "none" /\ calls[c].state = "sent"
      /\ UNCHANGED <<store, tab, left, slips>>
  BY DEF Backend, Busy
<1>2. PICK h \in Handled(calls[c].op, calls[c].as) \cup {[invite |-> invite, answer |-> "failed"]}, lost \in BOOLEAN :
        calls' = Put(calls, c, [calls[c] EXCEPT !.state = "answered",
                                                !.answer = IF lost THEN "failed" ELSE h.answer,
                                                !.read = h.invite])
  BY DEF Backend
<1>a. PICK a : a = IF lost THEN "failed" ELSE h.answer
  OBVIOUS
<1>x. PICK x : x = [calls[c] EXCEPT !.state = "answered", !.answer = a, !.read = h.invite]
  OBVIOUS
<1>3. /\ WellFormed(calls[c]) /\ calls[c] # Idle
  BY <1>1, NoCall DEF Inv, Shape, CallsType
<1>4. IsCall(x) /\ x.op = calls[c].op /\ x.as = calls[c].as /\ x.state = "answered" /\ x.answer = a
  <2>1. IsCall(calls[c])
    BY <1>3 DEF WellFormed
  <2>2. x = [op |-> calls[c].op, as |-> calls[c].as, retry |-> calls[c].retry, state |-> "answered", answer |-> a,
             read |-> h.invite]
    BY <1>x, <2>1, Answering
  <2> QED
    BY <2>2 DEF IsCall
<1>5. a = "401" => calls[c].op \in MayExpire
  <2>1. h.answer = "401" => calls[c].op \in MayExpire
    BY DEF Handled, Respond, ClaimAccount, Answers
  <2> QED
    BY <1>a, <2>1
<1>6. WellFormed(x)
  BY <1>1, <1>3, <1>4, <1>5 DEF WellFormed
<1>7. CallsType' /\ calls'[c] = x /\ \A d \in CallIds : d # c => calls'[d] = calls[d]
  BY <1>2, <1>a, <1>x, <1>6, OneChange DEF Inv, Shape
<1>8. Shape'
  BY <1>1, <1>7 DEF Inv, Shape, StoreType, TabType, LeftType
<1>9. /\ \A d \in CallIds : calls'[d].op = calls[d].op
      /\ \A d \in CallIds : calls[d].op # "none" => calls'[d].as = calls[d].as /\ calls'[d].state \in {calls[d].state, "answered"}
  BY <1>4, <1>7
<1> QED
  BY <1>1, <1>8, <1>9, SameCalls

-----------------------------------------------------------------------------
(* Answers. *)

\* A call of the page, or one of the context that ends its flow, fails.
LEMMA FailsStep ==
  ASSUME Inv, NEW c \in CallIds, calls[c].op \notin {"none", "refresh"}, calls[c].state # "waiting", Fails(c), UNCHANGED left
  PROVE  Inv'
<1> DEFINE op == calls[c].op
<1>1. /\ calls'[c].op = "none"
      /\ \A d \in CallIds : d # c => calls'[d] = calls[d]
      /\ CallsType'
  BY Ended DEF Fails, Inv, Shape
<1>2. /\ TabType' /\ tab'.refreshing = tab.refreshing
      /\ tab'.loading = (IF op \in Flow THEN FALSE ELSE tab.loading)
      /\ tab'.user = (IF op = "init" THEN None ELSE tab.user)
  <2>1. tab' = [tab EXCEPT !.loading = IF op \in Flow THEN FALSE ELSE tab.loading,
                           !.user = IF op = "init" THEN None ELSE tab.user]
    BY DEF Fails, AfterFailure, Inv, Shape, TabType
  <2> QED
    BY <2>1 DEF Inv, Shape, TabType, Anyone
<1>3. /\ store' = (IF op = "init" THEN Cleared ELSE store)
      /\ op \notin {"me", "init"} => slips' = slips
      /\ op = "me" => slips' = slips \cup {"profile"}
  BY DEF Fails, StoreAfterFailure, SlipsAfterFailure
<1>4. Shape'
  BY <1>1, <1>2, <1>3 DEF Inv, Shape, StoreType, Cleared, Anyone, LeftType
<1>5. OneFlow'
  <2>1. "none" \notin Flow
    BY Kinds
  <2>2. CASE op \in Flow
    BY <1>1, <1>2, <2>1, <2>2, FlowEnds DEF Inv
  <2>3. CASE op \notin Flow
    BY <1>1, <1>2, <2>1, <2>3, FlowKept DEF Inv
  <2> QED
    BY <2>2, <2>3
<1>6. RefreshInv'
  BY <1>1, <1>2, RefreshKept DEF Inv
<1>7. OwnerInv'
  <2>1. CASE op = "init"
    BY <1>3, <2>1, NobodysOwner
  <2>2. CASE op = "me"
    BY <1>1, <1>2, <1>3, <2>2 DEF Inv, OwnerInv
  <2>3. CASE op \notin {"me", "init"}
    BY <1>1, <1>2, <1>3, <2>3, OwnerKept DEF Inv, ForProfile
  <2> QED
    BY <2>1, <2>2, <2>3
<1> QED
  BY <1>4, <1>5, <1>6, <1>7 DEF Inv

\* The next call of the context takes the place of the one that ended.
LEMMA NextCall ==
  ASSUME Inv, NEW c \in CallIds, calls[c].op \in Flow, NEW op \in Flow, NEW as \in Anyone,
         calls' = Put(calls, c, Call(op, as)), tab'.loading = tab.loading, tab'.refreshing = tab.refreshing
  PROVE  /\ calls'[c].op = op /\ calls'[c].as = as
         /\ \A d \in CallIds : d # c => calls'[d] = calls[d]
         /\ CallsType' /\ OneFlow' /\ RefreshInv'
<1>0. "none" \notin Flow /\ "refresh" \notin Flow
  BY Kinds
<1>1. /\ calls'[c].op = op /\ calls'[c].as = as /\ calls'[c].state = "sent"
      /\ \A d \in CallIds : d # c => calls'[d] = calls[d]
      /\ CallsType'
  BY <1>0, Made DEF Inv, Shape
<1>2. OneFlow'
  BY <1>1, FlowKept DEF Inv
<1>3. RefreshInv'
  <2>1. \A d \in CallIds : calls'[d].op = "refresh" <=> calls[d].op = "refresh"
    BY <1>0, <1>1
  <2>2. \A d \in CallIds : calls'[d].op # "none" /\ calls'[d].state = "waiting" => calls[d].op # "none" /\ calls[d].state = "waiting"
    BY <1>1
  <2> QED
    BY <2>1, <2>2, RefreshKept DEF Inv
<1> QED
  BY <1>1, <1>2, <1>3

\* The last call of the context ends its flow.
LEMMA LastCall ==
  ASSUME Inv, NEW c \in CallIds, calls[c].op \in Flow,
         calls' = Put(calls, c, Idle), tab'.loading = FALSE, tab'.refreshing = tab.refreshing
  PROVE  /\ calls'[c].op = "none"
         /\ \A d \in CallIds : d # c => calls'[d] = calls[d]
         /\ CallsType' /\ OneFlow' /\ RefreshInv'
<1>0. "none" \notin Flow /\ "refresh" \notin Flow
  BY Kinds
<1>1. /\ calls'[c].op = "none"
      /\ \A d \in CallIds : d # c => calls'[d] = calls[d]
      /\ CallsType'
  BY Ended DEF Inv, Shape
<1>2. OneFlow'
  BY <1>0, <1>1, FlowEnds DEF Inv
<1>3. RefreshInv'
  <2>1. \A d \in CallIds : calls'[d].op = "refresh" <=> calls[d].op = "refresh"
    BY <1>0, <1>1
  <2>2. \A d \in CallIds : calls'[d].op # "none" /\ calls'[d].state = "waiting" => calls[d].op # "none" /\ calls[d].state = "waiting"
    BY <1>1
  <2> QED
    BY <2>1, <2>2, RefreshKept DEF Inv
<1> QED
  BY <1>1, <1>2, <1>3

\* The account a call of the context is for.
LEMMA FlowIsFor ==
  ASSUME CallsType, NEW c \in CallIds, calls[c].op \in Flow \cup {"refresh"}
  PROVE  calls[c].as \in Anyone
  BY NoCall, Kinds DEF CallsType, WellFormed

\* A sign-in goes on to the profile, a profile to the calendar; a page's call ends.
LEMMA SucceedsStep ==
  ASSUME Inv, NEW c \in CallIds, calls[c].op \notin {"none", "refresh"}, calls[c].state # "waiting", Succeeds(c), UNCHANGED left
  PROVE  Inv'
<1> USE DEF Succeeds
<1>1. CASE calls[c].op = "register"
  <2>1. calls' = Put(calls, c, Call("auth", calls[c].as)) /\ UNCHANGED <<store, tab, slips>>
    BY <1>1
  <2>2. calls[c].op \in Flow /\ "auth" \in Flow /\ calls[c].as \in Anyone
    BY <1>1, Kinds, FlowIsFor DEF Inv, Shape
  <2>3. /\ calls'[c].op = "auth" /\ \A d \in CallIds : d # c => calls'[d] = calls[d]
        /\ CallsType' /\ OneFlow' /\ RefreshInv'
    BY <2>1, <2>2, NextCall
  <2>4. Shape'
    BY <2>1, <2>3 DEF Inv, Shape, StoreType, TabType, LeftType
  <2>5. OwnerInv'
    BY <1>1, <2>1, <2>3, OwnerKept DEF Inv, ForProfile
  <2> QED
    BY <2>3, <2>4, <2>5 DEF Inv
<1>2. CASE calls[c].op \in {"auth", "claim"}
  <2> DEFINE who == calls[c].as
  <2>1. /\ store' = [access |-> who, refresh |-> who] /\ slips' = slips \ {"crossed"}
        /\ calls' = Put(calls, c, Call("me", who)) /\ UNCHANGED tab
    BY <1>2 DEF StoreTokens
  <2>2. calls[c].op \in Flow /\ "me" \in Flow /\ who \in Anyone
    BY <1>2, Kinds, FlowIsFor DEF Inv, Shape
  <2>3. /\ calls'[c].op = "me" /\ calls'[c].as = who
        /\ \A d \in CallIds : d # c => calls'[d] = calls[d]
        /\ CallsType' /\ OneFlow' /\ RefreshInv'
    BY <2>1, <2>2, NextCall
  <2>4. Shape'
    BY <2>1, <2>2, <2>3 DEF Inv, Shape, StoreType, TabType, LeftType
  <2>5. \A d \in CallIds : calls'[d].op \in Flow => d = c
    BY <2>2, <2>3 DEF Inv, OneFlow
  <2>6. OwnerInv'
    BY <2>1, <2>3, <2>5, Kinds DEF OwnerInv
  <2> QED
    BY <2>3, <2>4, <2>6 DEF Inv
<1>3. CASE calls[c].op \in {"init", "me"}
  <2> DEFINE who == calls[c].as
  <2>1. /\ tab' = [tab EXCEPT !.user = who, !.loading = who \in Staff]
        /\ calls' = Put(calls, c, IF who \in Staff THEN Call("calendar", store.access) ELSE Idle)
        /\ slips' = slips \ {"profile"} /\ UNCHANGED store
    BY <1>3
  <2>2. calls[c].op \in Flow /\ "calendar" \in Flow /\ who \in Anyone /\ store.access \in Anyone
    BY <1>3, Kinds, FlowIsFor DEF Inv, Shape, StoreType
  <2>3. TabType' /\ tab'.user = who /\ tab'.loading = (who \in Staff) /\ tab'.refreshing = tab.refreshing
    <3>1. (who \in Staff) \in BOOLEAN
      OBVIOUS
    <3> QED
      BY <2>1, <2>2, <3>1 DEF Inv, Shape, TabType
  <2>4. tab.loading = TRUE
    BY <2>2 DEF Inv, OneFlow
  <2>5. /\ calls'[c].op \in {"calendar", "none"} /\ \A d \in CallIds : d # c => calls'[d] = calls[d]
        /\ CallsType' /\ OneFlow' /\ RefreshInv'
    <3>1. CASE who \in Staff
      <4>1. tab'.loading = tab.loading /\ calls' = Put(calls, c, Call("calendar", store.access))
        BY <2>1, <2>3, <2>4, <3>1
      <4> QED
        BY <2>2, <2>3, <4>1, NextCall
    <3>2. CASE who \notin Staff
      <4>1. calls' = Put(calls, c, Idle)
        BY <2>1, <3>2
      <4>2. (who \in Staff) = FALSE
        BY <3>2
      <4>3. tab'.loading = FALSE
        BY <2>3, <4>2
      <4> QED
        BY <2>2, <2>3, <4>1, <4>3, LastCall
    <3> QED
      BY <3>1, <3>2
  <2>6. Shape'
    BY <2>1, <2>3, <2>5 DEF Inv, Shape, StoreType, LeftType
  <2>7. \A d \in CallIds : calls'[d].op \notin {"me", "init"}
    <3>1. \A d \in CallIds : calls[d].op \in Flow => d = c
      BY <2>2 DEF Inv, OneFlow
    <3> QED
      BY <2>5, <3>1, Kinds
  <2>8. "crossed" \notin slips' => store'.access = store'.refresh /\ store'.refresh \in {None, who}
    BY <1>3, <2>1 DEF Inv, OwnerInv
  <2>9. OwnerInv'
    BY <2>3, <2>7, <2>8 DEF OwnerInv
  <2> QED
    BY <2>5, <2>6, <2>9 DEF Inv
<1>4. CASE calls[c].op = "calendar"
  <2>1. tab' = [tab EXCEPT !.loading = FALSE] /\ calls' = Put(calls, c, Idle) /\ UNCHANGED <<store, slips>>
    BY <1>4
  <2>2. calls[c].op \in Flow
    BY <1>4, Kinds
  <2>3. TabType' /\ tab'.loading = FALSE /\ UNCHANGED <<tab.user, tab.refreshing>>
    BY <2>1 DEF Inv, Shape, TabType
  <2>4. /\ calls'[c].op = "none" /\ \A d \in CallIds : d # c => calls'[d] = calls[d]
        /\ CallsType' /\ OneFlow' /\ RefreshInv'
    BY <2>1, <2>2, <2>3, LastCall
  <2>5. Shape'
    BY <2>1, <2>3, <2>4 DEF Inv, Shape, StoreType, LeftType
  <2>6. OwnerInv'
    BY <1>4, <2>1, <2>3, <2>4, OwnerKept DEF Inv, ForProfile
  <2> QED
    BY <2>4, <2>5, <2>6 DEF Inv
<1>5. CASE calls[c].op \notin Flow
  <2>0. calls[c].op \notin {"register", "auth", "claim", "init", "me", "calendar"}
    BY <1>5, Kinds
  <2>1. calls' = Put(calls, c, Idle) /\ UNCHANGED <<store, tab, slips>>
    BY <2>0
  <2>2. /\ calls'[c].op = "none" /\ \A d \in CallIds : d # c => calls'[d] = calls[d]
        /\ CallsType'
    BY <2>1, Ended DEF Inv, Shape
  <2>3. Shape'
    BY <2>1, <2>2 DEF Inv, Shape, StoreType, TabType, LeftType
  <2>4. OneFlow'
    BY <1>5, <2>1, <2>2, Kinds, FlowKept DEF Inv
  <2>5. RefreshInv'
    BY <2>1, <2>2, RefreshKept DEF Inv
  <2>6. OwnerInv'
    BY <2>0, <2>1, <2>2, OwnerKept DEF Inv, ForProfile
  <2> QED
    BY <2>3, <2>4, <2>5, <2>6 DEF Inv
<1> QED
  BY <1>1, <1>2, <1>3, <1>4, <1>5 DEF Flow

\* The session is over: of the calls that are left nobody waits, and none is a refresh.
LEMMA SessionOverStep ==
  ASSUME Inv, NEW gone \in SUBSET CallIds, NEW cs, SessionOver(cs, gone), UNCHANGED left,
         \A d \in CallIds : cs[d] \in {calls[d], Idle},
         \A d \in CallIds \ gone : calls[d].op \in Flow => cs[d] = calls[d],
         \A d \in CallIds \ gone : cs[d].op # "none" => cs[d].op # "refresh" /\ cs[d].state # "waiting"
  PROVE  Inv'
<1> DEFINE ops == {calls[c].op : c \in gone}
<1>0. "none" \notin Flow /\ Idle.op = "none"
  BY Kinds, NoCall
<1>1. /\ calls' = [c \in CallIds |-> IF c \in gone THEN Idle ELSE cs[c]]
      /\ store' = Cleared
      /\ tab' = [AfterFailure(tab, ops) EXCEPT !.refreshing = FALSE, !.leaving = tab.leaving \/ tab.place # "login"]
  <2>1. AfterFailure(tab, ops).leaving = tab.leaving
    BY DEF Inv, Shape, TabType, AfterFailure
  <2> QED
    BY <2>1 DEF SessionOver
<1>2. \A d \in CallIds : IF d \in gone THEN calls'[d] = Idle ELSE calls'[d] = cs[d]
  BY <1>1
<1>3. CallsType'
  <2>1. \A d \in CallIds : WellFormed(calls'[d])
    BY <1>2, NoCall DEF Inv, Shape, CallsType
  <2>2. calls' = [d \in CallIds |-> calls'[d]]
    BY <1>1
  <2> QED
    BY <2>1, <2>2 DEF CallsType, WellFormed, IsCall
<1>4. /\ TabType' /\ tab'.refreshing = FALSE
      /\ tab'.loading = IF ops \cap Flow # {} THEN FALSE ELSE tab.loading
  <2>1. AfterFailure(tab, ops) \in [place : Guarded \cup Public, user : Anyone, loading : BOOLEAN, refreshing : BOOLEAN, leaving : BOOLEAN]
    BY DEF Inv, Shape, TabType, AfterFailure, Anyone
  <2>2. AfterFailure(tab, ops).loading = IF ops \cap Flow # {} THEN FALSE ELSE tab.loading
    BY DEF Inv, Shape, TabType, AfterFailure
  <2>3. (tab.leaving \/ tab.place # "login") \in BOOLEAN
    OBVIOUS
  <2> HIDE DEF ops
  <2> QED
    BY <1>1, <2>1, <2>2, <2>3 DEF TabType
<1>5. Shape'
  BY <1>1, <1>3, <1>4 DEF Inv, Shape, StoreType, Cleared, Anyone, LeftType
<1>6. OneFlow'
  <2>1. \A d \in CallIds : calls'[d].op \in Flow => calls[d].op \in Flow
    BY <1>0, <1>2
  <2>2. CASE \E c \in gone : calls[c].op \in Flow
    <3>1. PICK c \in gone : calls[c].op \in Flow
      BY <2>2
    <3>2. tab'.loading = FALSE /\ calls'[c].op \notin Flow /\ c \in CallIds
      BY <1>0, <1>2, <1>4, <3>1
    <3> QED
      BY <2>1, <3>1, <3>2, FlowEnds DEF Inv
  <2>3. CASE ~\E c \in gone : calls[c].op \in Flow
    <3>1. tab'.loading = tab.loading
      BY <1>4, <2>3
    <3>2. \A d \in CallIds : calls'[d].op \in Flow <=> calls[d].op \in Flow
      BY <1>2, <2>1, <2>3
    <3> QED
      BY <3>1, <3>2, FlowKept DEF Inv
  <2> QED
    BY <2>2, <2>3
<1>7. RefreshInv'
  <2>1. \A d \in CallIds : calls'[d].op # "none" => calls'[d].op # "refresh" /\ calls'[d].state # "waiting"
    BY <1>0, <1>2
  <2> QED
    BY <1>4, <2>1 DEF RefreshInv
<1>8. OwnerInv'
  BY <1>1, NobodysOwner
<1> QED
  BY <1>5, <1>6, <1>7, <1>8 DEF Inv

\* A call that was refused waits for the refresh under way, or for the one it starts.
LEMMA RefreshStep ==
  ASSUME Inv, NEW c \in CallIds, calls[c].op \in MayExpire, calls[c].state # "waiting", Refresh(c), UNCHANGED left
  PROVE  Inv'
<1> DEFINE x == [calls[c] EXCEPT !.state = "waiting"]
<1>0. /\ "none" \notin Flow /\ "refresh" \notin Flow
      /\ calls[c].op # "none" /\ calls[c].op # "refresh"
  BY Kinds DEF MayExpire
<1>1. IsCall(calls[c]) /\ WellFormed(calls[c])
  BY <1>0, NoCall DEF Inv, Shape, CallsType, WellFormed
<1>2. x = [op |-> calls[c].op, as |-> calls[c].as, retry |-> calls[c].retry, state |-> "waiting",
           answer |-> calls[c].answer, read |-> calls[c].read]
  BY <1>1, Waits
<1> HIDE DEF x
<1>3. IsCall(x) /\ x.op = calls[c].op /\ x.as = calls[c].as /\ x.state = "waiting"
  BY <1>2 DEF IsCall
<1>4. WellFormed(x)
  BY <1>0, <1>1, <1>3, NoCall DEF WellFormed
<1>5. CASE tab.refreshing = TRUE
  <2>1. calls' = Put(calls, c, x) /\ UNCHANGED <<store, tab, slips>>
    BY <1>5 DEF Refresh, Wait, x
  <2>2. CallsType' /\ calls'[c] = x /\ \A d \in CallIds : d # c => calls'[d] = calls[d]
    BY <1>4, <2>1, OneChange DEF Inv, Shape
  <2>3. Shape'
    BY <2>1, <2>2 DEF Inv, Shape, StoreType, TabType, LeftType
  <2>4. \A d \in CallIds : calls'[d].op = calls[d].op /\ calls'[d].as = calls[d].as
    BY <1>3, <2>2
  <2>5. OneFlow'
    BY <2>1, <2>4, FlowKept DEF Inv
  <2>6. RefreshInv'
    BY <1>5, <2>1, <2>4, RefreshKept DEF Inv
  <2>7. OwnerInv'
    BY <2>1, <2>4, OwnerKept DEF Inv, ForProfile
  <2> QED
    BY <2>3, <2>5, <2>6, <2>7 DEF Inv
<1>6. CASE tab.refreshing # TRUE
  <2>1. PICK d \in CallIds : /\ calls[d].op = "none"
                             /\ calls' = Put(Wait(c), d, Call("refresh", store.refresh))
                             /\ tab' = [tab EXCEPT !.refreshing = TRUE] /\ UNCHANGED <<store, slips>>
    BY <1>6 DEF Refresh, FirstFree, Free, Busy
  <2>2. c # d
    BY <1>0, <2>1
  <2>3. /\ calls' = [e \in CallIds |-> calls'[e]]
        /\ calls'[c] = x /\ calls'[d] = Call("refresh", store.refresh)
        /\ \A e \in CallIds : e \notin {c, d} => calls'[e] = calls[e]
    BY <2>1, <2>2 DEF Put, Wait, x, Inv, Shape, CallsType
  <2>4. /\ calls'[d].op = "refresh" /\ calls'[d].state = "sent"
        /\ WellFormed(Call("refresh", store.refresh))
    <3>1. store.refresh \in Anyone
      BY DEF Inv, Shape, StoreType
    <3>2. WellFormed(Call("refresh", store.refresh))
      BY <3>1, NewCall
    <3>3. Call("refresh", store.refresh).op = "refresh" /\ Call("refresh", store.refresh).state = "sent"
      BY NewCall
    <3> QED
      BY <2>3, <3>2, <3>3
  <2>5. CallsType'
    <3>1. \A e \in CallIds : WellFormed(calls'[e])
      BY <1>4, <2>3, <2>4 DEF Inv, Shape, CallsType
    <3> QED
      BY <2>3, <3>1 DEF CallsType, WellFormed, IsCall
  <2>6. TabType' /\ UNCHANGED <<tab.user, tab.loading>> /\ tab'.refreshing = TRUE
    BY <2>1 DEF Inv, Shape, TabType
  <2>7. Shape'
    BY <2>1, <2>5, <2>6 DEF Inv, Shape, StoreType, LeftType
  <2>8. \A e \in CallIds : e # d => calls'[e].op = calls[e].op /\ calls'[e].as = calls[e].as
    BY <1>3, <2>3
  <2>9. OneFlow'
    BY <1>0, <2>1, <2>4, <2>6, <2>8, FlowKept DEF Inv
  <2>10. RefreshInv'
    <3>1. \A e \in CallIds : calls[e].op # "refresh"
      BY <1>6 DEF Inv, RefreshInv
    <3>2. \A e \in CallIds : calls'[e].op = "refresh" => e = d
      BY <2>8, <3>1
    <3> QED
      BY <2>4, <2>6, <3>2 DEF RefreshInv
  <2>11. OwnerInv'
    <3>1. ~ForProfile(calls[d]) /\ ~ForProfile(calls'[d])
      BY <2>1, <2>4 DEF ForProfile
    <3> QED
      BY <2>1, <2>6, <2>8, <3>1, OwnerKept DEF Inv
  <2> QED
    BY <2>7, <2>9, <2>10, <2>11 DEF Inv
<1> QED
  BY <1>5, <1>6

\* Whoever waited is sent again with the new token, which is the refresh token's account's unless
\* a sign-in came between.
LEMMA RefreshSucceedsStep ==
  ASSUME Inv, NEW c \in CallIds, calls[c].op = "refresh", calls[c].state # "waiting", RefreshSucceeds(c), UNCHANGED left
  PROVE  Inv'
<1> DEFINE who == calls[c].as
           cs  == Put(calls, c, Idle)
<1>0. /\ "none" \notin Flow /\ "refresh" \notin Flow /\ Idle.op = "none" /\ WellFormed(Idle)
      /\ "me" \notin MayExpire /\ "refresh" \notin MayExpire
  BY Kinds, NoCall
<1>1. /\ store' = [store EXCEPT !.access = who]
      /\ tab' = [tab EXCEPT !.refreshing = FALSE]
      /\ slips' = IF who = store.refresh THEN slips ELSE slips \cup {"crossed"}
      /\ calls' = [e \in CallIds |-> IF e \in Waiting THEN Again(cs[e], who) ELSE cs[e]]
  BY DEF RefreshSucceeds, Resend
<1>2. /\ cs[c] = Idle /\ \A e \in CallIds : e # c => cs[e] = calls[e]
      /\ c \notin Waiting
  BY DEF Inv, Shape, CallsType, Put, Waiting
<1> HIDE DEF cs
<1>3. who \in Anyone
  BY FlowIsFor DEF Inv, Shape
<1>4. \A e \in CallIds : e \in Waiting =>
         /\ calls'[e].op = calls[e].op /\ calls'[e].as = who /\ calls'[e].state = "sent"
         /\ calls[e].op \in MayExpire /\ WellFormed(calls'[e])
  <2> SUFFICES ASSUME NEW e \in CallIds, e \in Waiting
               PROVE  /\ calls'[e].op = calls[e].op /\ calls'[e].as = who /\ calls'[e].state = "sent"
                      /\ calls[e].op \in MayExpire /\ WellFormed(calls'[e])
    OBVIOUS
  <2>1. calls[e].op # "none" /\ calls[e].state = "waiting" /\ WellFormed(calls[e])
    BY DEF Waiting, Busy, Inv, Shape, CallsType
  <2>2. IsCall(calls[e]) /\ calls[e].op \in MayExpire
    BY <1>0, <2>1 DEF WellFormed
  <2>3. calls'[e] = Again(calls[e], who)
    BY <1>1, <1>2
  <2>4. calls'[e] = [op |-> calls[e].op, as |-> who, retry |-> FALSE, state |-> "sent", answer |-> "none", read |-> None]
    BY <2>2, <2>3, SentAgain
  <2>5. /\ calls'[e].op = calls[e].op /\ calls'[e].as = who /\ calls'[e].state = "sent" /\ calls'[e].answer = "none"
        /\ IsCall(calls'[e])
    BY <2>4 DEF IsCall
  <2> QED
    BY <1>3, <2>1, <2>2, <2>5 DEF WellFormed
<1>5. \A e \in CallIds : e \notin Waiting => calls'[e] = IF e = c THEN Idle ELSE calls[e]
  BY <1>1, <1>2
<1>6. CallsType'
  <2>1. \A e \in CallIds : WellFormed(calls'[e])
    BY <1>0, <1>4, <1>5 DEF Inv, Shape, CallsType
  <2>2. calls' = [e \in CallIds |-> calls'[e]]
    BY <1>1
  <2> QED
    BY <2>1, <2>2 DEF CallsType, WellFormed, IsCall
<1>7. /\ TabType' /\ UNCHANGED <<tab.user, tab.loading>> /\ tab'.refreshing = FALSE
      /\ StoreType' /\ store'.access = who /\ store'.refresh = store.refresh
  BY <1>1, <1>3 DEF Inv, Shape, TabType, StoreType
<1>8. Shape'
  BY <1>6, <1>7 DEF Inv, Shape, LeftType
<1>9. \A e \in CallIds : e # c => calls'[e].op = calls[e].op
  BY <1>4, <1>5
<1>10. calls'[c].op = "none"
  BY <1>0, <1>2, <1>5
<1>11. OneFlow'
  BY <1>0, <1>7, <1>9, <1>10, FlowKept DEF Inv
<1>12. RefreshInv'
  <2>1. \A e \in CallIds : calls[e].op = "refresh" => e = c
    BY DEF Inv, RefreshInv
  <2>2. \A e \in CallIds : calls'[e].op # "refresh"
    BY <1>9, <1>10, <2>1
  <2>3. \A e \in CallIds : calls'[e].op # "none" => calls'[e].state # "waiting"
    <3>1. \A e \in CallIds : e \notin Waiting /\ calls[e].op # "none" => calls[e].state # "waiting"
      BY DEF Waiting, Busy
    <3> QED
      BY <1>0, <1>4, <1>5, <3>1
  <2> QED
    BY <1>7, <2>2, <2>3 DEF RefreshInv
<1>13. OwnerInv'
  <2>1. "crossed" \notin slips' => "crossed" \notin slips /\ who = store.refresh
    BY <1>1
  <2>2. slips' = {} => slips = {} /\ who = store.refresh
    BY <1>1
  <2>3. \A e \in CallIds : calls'[e].op = "me" => calls[e].op = "me" /\ calls'[e].as = calls[e].as
    BY <1>0, <1>4, <1>5
  <2>4. \A e \in CallIds : calls'[e].op = "init" => calls[e].op = "init" /\ calls'[e].as \in {who, calls[e].as}
    BY <1>0, <1>4, <1>5
  <2>5. \A e \in CallIds : ForProfile(calls[e]) => ForProfile(calls'[e])
    BY <1>9 DEF ForProfile
  <2>6. ("crossed" \notin slips => store.access = store.refresh)'
    BY <1>7, <2>1
  <2>7. (\A e \in CallIds : calls[e].op = "me" => store.refresh \in {None, calls[e].as})'
    BY <1>7, <2>3 DEF Inv, OwnerInv
  <2>8. (\A e \in CallIds : calls[e].op = "init" /\ "crossed" \notin slips => store.refresh \in {None, calls[e].as})'
    BY <1>7, <2>1, <2>4 DEF Inv, OwnerInv
  <2>9. (slips = {} /\ tab.user # None /\ (\A e \in CallIds : calls[e].op \notin {"me", "init"})
           => store.refresh \in {None, tab.user})'
    <3>1. (\A e \in CallIds : calls'[e].op \notin {"me", "init"}) => \A e \in CallIds : calls[e].op \notin {"me", "init"}
      BY <2>5 DEF ForProfile
    <3> QED
      BY <1>7, <2>2, <3>1 DEF Inv, OwnerInv
  <2> QED
    BY <2>6, <2>7, <2>8, <2>9 DEF OwnerInv
<1> QED
  BY <1>8, <1>11, <1>12, <1>13 DEF Inv

\* The answer of any call but the refresh.
LEMMA ArrivesStep ==
  ASSUME Inv, NEW c \in CallIds, Arrives(c)
  PROVE  Inv'
<1>1. /\ calls[c].op \notin {"none", "refresh"} /\ calls[c].state # "waiting"
      /\ UNCHANGED left
  BY DEF Arrives, Answered, Busy
<1>2. CASE Succeeds(c)
  BY <1>1, <1>2, SucceedsStep
<1>3. CASE Fails(c)
  BY <1>1, <1>3, FailsStep
<1>4. CASE Expired(c) /\ Refresh(c)
  <2>1. calls[c].op \in MayExpire
    BY <1>1, <1>4, NoCall DEF Expired, Inv, Shape, CallsType, WellFormed
  <2> QED
    BY <1>1, <1>4, <2>1, RefreshStep
<1>5. CASE ~tab.refreshing /\ SessionOver(calls, {c})
  <2>1. \A d \in CallIds : calls[d].op # "none" => calls[d].op # "refresh" /\ calls[d].state # "waiting"
    BY <1>5 DEF Inv, RefreshInv
  <2> QED
    BY <1>1, <1>5, <2>1, SessionOverStep
<1> QED
  BY <1>2, <1>3, <1>4, <1>5 DEF Arrives

\* The answer of the refresh.
LEMMA RefreshArrivesStep ==
  ASSUME Inv, NEW c \in CallIds, RefreshArrives(c)
  PROVE  Inv'
<1>1. /\ calls[c].op = "refresh" /\ calls[c].state # "waiting" /\ UNCHANGED left
      /\ RefreshSucceeds(c) \/ SessionOver(Put(calls, c, Idle), Waiting)
  BY DEF RefreshArrives, Answered, Busy
<1>2. CASE SessionOver(Put(calls, c, Idle), Waiting)
  <2> DEFINE cs == Put(calls, c, Idle)
  <2>1. cs[c] = Idle /\ \A d \in CallIds : d # c => cs[d] = calls[d]
    BY DEF Put, Inv, Shape, CallsType
  <2> HIDE DEF cs
  <2>2. \A d \in CallIds : calls[d].op = "refresh" => d = c
    BY <1>1 DEF Inv, RefreshInv
  <2>3. \A d \in CallIds \ Waiting : calls[d].op # "none" => calls[d].state # "waiting"
    BY DEF Waiting, Busy
  <2>4. Waiting \in SUBSET CallIds
    BY DEF Waiting
  <2>5. \A d \in CallIds : cs[d] \in {calls[d], Idle}
    BY <2>1
  <2>6. \A d \in CallIds \ Waiting : calls[d].op \in Flow => cs[d] = calls[d]
    BY <1>1, <2>1, Kinds
  <2>7. \A d \in CallIds \ Waiting : cs[d].op # "none" => cs[d].op # "refresh" /\ cs[d].state # "waiting"
    BY <2>1, <2>2, <2>3, NoCall
  <2>8. SessionOver(cs, Waiting)
    BY <1>2 DEF cs
  <2> QED
    BY <1>1, <2>4, <2>5, <2>6, <2>7, <2>8, SessionOverStep
<1> QED
  BY <1>1, <1>2, RefreshSucceedsStep

\* Every step keeps the invariant.
LEMMA StepInv == Inv /\ [Next]_vars => Inv'
<1> SUFFICES ASSUME Inv, [Next]_vars PROVE Inv'
  OBVIOUS
<1>a. ASSUME Act PROVE LeftType'
  BY <1>a, AccountsAssumption DEF Act, LeftType, Inv, Shape
<1>u. ASSUME UNCHANGED left PROVE LeftType'
  BY <1>u DEF LeftType, Inv, Shape
<1>1. CASE Logout
  BY <1>1, LogoutStep
<1>2. CASE Fetch
  <2>1. PICK c \in CallIds : calls[c].op = "none" /\ calls' = Put(calls, c, Call("data", store.access))
    BY <1>2 DEF Fetch, FirstFree, Free, Busy
  <2> QED
    BY <1>2, <1>a, <2>1, PageCall DEF Fetch
<1>3. CASE Redirect
  <2>1. tab' = [tab EXCEPT !.place = Redirected] /\ Redirected \in Guarded \cup Public
    BY <1>3 DEF Redirect, Redirected, Guarded, Public, Inv, Shape, TabType
  <2> QED
    BY <1>3, <1>u, <2>1, MoveStep DEF Redirect
<1>4. ASSUME NEW who \in Accounts, Login(who) \/ Register(who) \/ BootstrapAdmin(who) PROVE Inv'
  BY <1>4, <1>a, EnterStep DEF Login, Register, BootstrapAdmin
<1>5. ASSUME NEW place \in {"register", "setup"}, Back(place) PROVE Inv'
  BY <1>5, <1>a, MoveStep DEF Back, Public
<1>6. ASSUME NEW place \in {"app", "login", "register", "setup"}, Load(place), LeftType', UNCHANGED store PROVE Inv'
  BY <1>6, LoadStep DEF Load, Guarded, Public
<1>7. CASE FromNothing(Unload)
  BY <1>7, <1>6, <1>u DEF FromNothing, Unload
<1>8. ASSUME NEW place \in {"app", "login", "register", "setup"}, FromNothing(Visit(place)) PROVE Inv'
  BY <1>8, <1>6, <1>a DEF FromNothing, Visit
<1>9. CASE OpenLink
  BY <1>9, <1>a, LoadStep DEF OpenLink, Public
<1>10. CASE HandleClaim
  BY <1>10, <1>a, InviteeAssumption, EnterStep DEF HandleClaim
<1>11. CASE GoOn
  <2>1. PICK place \in {"app", "login"} : tab' = [tab EXCEPT !.place = place]
    BY <1>11 DEF GoOn
  <2> QED
    BY <1>11, <1>a, <2>1, MoveStep DEF GoOn, Guarded, Public
<1>12. ASSUME NEW r \in Responses, HandleRespond(r) PROVE Inv'
  <2>1. PICK c \in CallIds : calls[c].op = "none" /\ calls' = Put(calls, c, Call("respond", r))
    BY <1>12 DEF HandleRespond, FirstFree, Free, Busy
  <2> QED
    BY <1>12, <1>a, <2>1, PageCall DEF HandleRespond
<1>13. ASSUME NEW status \in {"ACCEPTED", "EXPIRED"}, Elsewhere(status) PROVE Inv'
  BY <1>13, <1>a, MoveStep DEF Elsewhere, Public
<1>14. ASSUME NEW c \in CallIds, Backend(c) \/ PageArrives(c) \/ Refreshed(c) PROVE Inv'
  BY <1>14, BackendStep, ArrivesStep, RefreshArrivesStep DEF PageArrives, Refreshed
<1>15. CASE UNCHANGED vars
  BY <1>15, <1>u, MoveStep DEF vars, Public
<1> QED
  BY <1>1, <1>2, <1>3, <1>4, <1>5, <1>7, <1>8, <1>9, <1>10, <1>11, <1>12, <1>13, <1>14, <1>15
     DEF Next, InPlace, Invited

\* The invariant in every reachable state.
LEMMA InvHolds == Spec => []Inv
  BY InitInv, StepInv, PTL DEF Spec

-----------------------------------------------------------------------------
\* A set of calls no two of which differ.
LEMMA AtMostOne ==
  ASSUME NEW S \in SUBSET CallIds, \A c, d \in S : c = d
  PROVE  Cardinality(S) <= 1
<1>1. CASE S = {}
  BY <1>1, FS_EmptySet
<1>2. CASE S # {}
  <2>1. PICK c : c \in S
    BY <1>2
  <2>2. S = {c}
    BY <2>1
  <2> QED
    BY <2>2, FS_Singleton
<1> QED
  BY <1>1, <1>2

\* The context makes one call at a time, under its loading flag, which disables the buttons of
\* the forms (login, register, bootstrapAdmin, claim of auth-context.tsx).
THEOREM SessionTyped == Spec => []TypeOK
<1>1. Inv => TypeOK
  <2> SUFFICES ASSUME Inv PROVE TypeOK
    OBVIOUS
  <2>1. In(Flow) \in SUBSET CallIds /\ \A c, d \in In(Flow) : c = d
    BY DEF In, Inv, OneFlow
  <2>2. tab.loading <=> In(Flow) # {}
    <3>1. tab.loading \in BOOLEAN
      BY DEF Inv, Shape, TabType
    <3>2. tab.loading = TRUE <=> In(Flow) # {}
      BY DEF In, Inv, OneFlow
    <3> QED
      BY <3>1, <3>2
  <2>3. /\ store.access \in Accounts \cup {None} /\ store.refresh \in Accounts \cup {None}
        /\ tab.place \in Guarded \cup Public /\ tab.user \in Accounts \cup {None}
        /\ left \in 0..MaxActions
    BY DEF Inv, Shape, StoreType, TabType, LeftType, Anyone
  <2> QED
    BY <2>1, <2>2, <2>3, AtMostOne DEF TypeOK
<1> QED
  BY <1>1, InvHolds, PTL

\* However many calls find their token expired, one refresh is made for all of them, and nobody
\* waits for one that is not under way (refreshPromise of api-client.ts).
THEOREM OneRefreshForAll == Spec => []OneRefresh
<1>1. Inv => OneRefresh
  <2> SUFFICES ASSUME Inv PROVE OneRefresh
    OBVIOUS
  <2>1. In({"refresh"}) \in SUBSET CallIds /\ \A c, d \in In({"refresh"}) : c = d
    BY DEF In, Inv, RefreshInv
  <2>2. tab.refreshing \in BOOLEAN
    BY DEF Inv, Shape, TabType
  <2>3. tab.refreshing = TRUE <=> In({"refresh"}) # {}
    BY DEF In, Inv, RefreshInv
  <2>4. Waiting # {} => tab.refreshing = TRUE
    BY DEF Waiting, Busy, Inv, RefreshInv
  <2> QED
    BY <2>1, <2>2, <2>3, <2>4, AtMostOne DEF OneRefresh
<1> QED
  BY <1>1, InvHolds, PTL

\* Nothing is fetched with the tokens of another account than the one shown, unless a profile was
\* lost after its tokens were stored or a refresh came back after the next sign-in.
THEOREM TokensAreTheUsers == Spec => []ShownIsTokenOwner
<1>1. Inv => ShownIsTokenOwner
  <2> SUFFICES ASSUME Inv, Quiet, slips = {}, tab.user # None PROVE store.access \in {None, tab.user}
    BY DEF ShownIsTokenOwner
  <2>1. tab.loading # TRUE
    BY DEF Quiet
  <2>2. \A c \in CallIds : calls[c].op \notin {"me", "init"}
    BY <2>1, Kinds DEF Inv, OneFlow
  <2> QED
    BY <2>2 DEF Inv, OwnerInv
<1> QED
  BY <1>1, InvHolds, PTL

-----------------------------------------------------------------------------
(* The answer to the invitation. *)

\* The invitation, what was read of it, and what the page shows of it; the answer of the backend
\* carries the invitation, and a claim is made of one that is shown.
InviteType ==
  /\ invite \in Invites
  /\ view \in [shown : Invites \cup {None}, responding : Given \cup {None}, claiming : BOOLEAN, claimed : BOOLEAN]
  /\ view.claiming = TRUE => view.shown \in Invites
  /\ \A c \in CallIds : calls[c].op # "none" /\ calls[c].state = "answered" => calls[c].read \in Invites
  /\ \A c \in CallIds : calls[c].op = "respond" => calls[c].as \in Given

\* An answer stays as it is once it is given.
Recorded(x) == x # None /\ x.status \in Given => invite.status = x.status

AnswerInv ==
  /\ InviteType
  /\ Recorded(view.shown)
  /\ \A c \in CallIds : calls[c].op # "none" /\ calls[c].state = "answered" => Recorded(calls[c].read)

\* Of what the backend has answered a step of the page adds nothing; an answer it sends is one.
CallsKept ==
  \A c \in CallIds :
    /\ calls'[c].op # "none" /\ calls'[c].state = "answered" => calls'[c] = calls[c]
    /\ calls'[c].op = "respond" => calls'[c].as \in Given \/ calls'[c] = calls[c]

\* What a step of the page has to keep.
LEMMA AnswerKept ==
  ASSUME AnswerInv, CallsKept, UNCHANGED invite,
         view' \in [shown : Invites \cup {None}, responding : Given \cup {None}, claiming : BOOLEAN, claimed : BOOLEAN],
         view'.claiming = TRUE => view'.shown \in Invites,
         Recorded(view'.shown)
  PROVE  AnswerInv'
<1>1. InviteType'
  BY DEF AnswerInv, InviteType, CallsKept
<1>2. Recorded(view.shown)'
  BY DEF Recorded
<1>3. (\A c \in CallIds : calls[c].op # "none" /\ calls[c].state = "answered" => Recorded(calls[c].read))'
  BY DEF AnswerInv, Recorded, CallsKept
<1> QED
  BY <1>1, <1>2, <1>3 DEF AnswerInv

\* A step that shows nothing new.
LEMMA SameView ==
  ASSUME AnswerInv, CallsKept, UNCHANGED <<invite, view>>
  PROVE  AnswerInv'
  BY AnswerKept DEF AnswerInv, InviteType

\* A page that opens shows nothing yet.
LEMMA OpenedView ==
  ASSUME AnswerInv, CallsKept, UNCHANGED invite, view' = Opened
  PROVE  AnswerInv'
<1>1. /\ view' \in [shown : Invites \cup {None}, responding : Given \cup {None}, claiming : BOOLEAN, claimed : BOOLEAN]
      /\ view'.claiming = FALSE /\ view'.shown = None
  BY DEF Opened
<1>2. Recorded(view'.shown)
  BY <1>1 DEF Recorded
<1> QED
  BY <1>1, <1>2, AnswerKept

\* One call that is made, waits or is over.
LEMMA PutKept ==
  ASSUME CallsType, NEW c \in CallIds, NEW x, calls' = Put(calls, c, x),
         x.op = "none" \/ (x.state # "answered" /\ (x.op = "respond" => x.as \in Given))
  PROVE  CallsKept
<1>1. calls'[c] = x /\ \A d \in CallIds : d # c => calls'[d] = calls[d]
  BY OneChange
<1> QED
  BY <1>1 DEF CallsKept

\* One call that is made.
LEMMA MadeKept ==
  ASSUME CallsType, NEW c \in CallIds, NEW op, NEW as, calls' = Put(calls, c, Call(op, as)),
         op = "respond" => as \in Given
  PROVE  CallsKept
<1>1. Call(op, as).op = op /\ Call(op, as).as = as /\ Call(op, as).state = "sent"
  BY DEF Call
<1> QED
  BY <1>1, PutKept

\* One call that is over.
LEMMA EndedKept ==
  ASSUME CallsType, NEW c \in CallIds, calls' = Put(calls, c, Idle)
  PROVE  CallsKept
  BY PutKept, NoCall

\* A page load: the calls in flight are new.
LEMMA OpensKept == Opens' => CallsKept
<1>1. Opens => \A c \in CallIds : calls[c].op # "none" => calls[c].op # "respond" /\ calls[c].state = "sent"
  BY OpensCalls
<1>2. Opens' => (\A c \in CallIds : calls[c].op # "none" => calls[c].op # "respond" /\ calls[c].state = "sent")'
  BY <1>1, PTL
<1> QED
  BY <1>2 DEF CallsKept

\* The end of a session: calls are over, none is new.
LEMMA SessionOverKept ==
  ASSUME NEW gone, NEW cs, SessionOver(cs, gone), \A d \in CallIds : cs[d] \in {calls[d], Idle}
  PROVE  CallsKept
<1>1. \A d \in CallIds : calls'[d] \in {calls[d], Idle}
  BY DEF SessionOver
<1> QED
  BY <1>1, NoCall DEF CallsKept

\* The answer of any call but the refresh.
LEMMA ArrivesKept ==
  ASSUME Inv, NEW c \in CallIds, Arrives(c)
  PROVE  CallsKept
<1>0. CallsType /\ calls[c].op # "none" /\ calls[c].op # "refresh" /\ calls[c].state = "answered"
  BY DEF Inv, Shape, Arrives, Answered, Busy
<1>1. CASE Succeeds(c)
  <2>1. CASE calls' = Put(calls, c, Idle)
    BY <1>0, <2>1, EndedKept
  <2>2. CASE \E op \in {"auth", "me", "calendar"}, as \in {calls[c].as, store'.access, store.access} : calls' = Put(calls, c, Call(op, as))
    BY <1>0, <2>2, MadeKept
  <2> QED
    BY <1>1, <2>1, <2>2 DEF Succeeds
<1>2. CASE Fails(c)
  BY <1>0, <1>2, EndedKept DEF Fails
<1>3. CASE Expired(c) /\ Refresh(c)
  <2> DEFINE x == [calls[c] EXCEPT !.state = "waiting"]
  <2>1. IsCall(calls[c]) /\ calls[c].op \in MayExpire
    BY <1>0, <1>3, NoCall DEF Expired, CallsType, WellFormed
  <2>2. x = [op |-> calls[c].op, as |-> calls[c].as, retry |-> calls[c].retry, state |-> "waiting",
             answer |-> calls[c].answer, read |-> calls[c].read]
    BY <2>1, Waits
  <2>3. x.op = calls[c].op /\ x.state = "waiting"
    BY <2>2
  <2>4. x.op # "respond"
    BY <2>1, <2>3 DEF MayExpire
  <2>5. Wait(c) = Put(calls, c, x)
    BY DEF Wait
  <2> HIDE DEF x
  <2>6. CASE calls' = Wait(c)
    BY <1>0, <2>3, <2>4, <2>5, <2>6, PutKept
  <2>7. CASE \E d \in FirstFree : calls' = Put(Wait(c), d, Call("refresh", store.refresh))
    <3>1. PICK d \in CallIds : calls' = Put(Put(calls, c, x), d, Call("refresh", store.refresh))
      BY <2>5, <2>7 DEF FirstFree, Free
    <3>2. \A e \in CallIds : calls'[e] \in {calls[e], x, Call("refresh", store.refresh)}
      BY <3>1 DEF Put, Inv, Shape, CallsType
    <3>3. Call("refresh", store.refresh).op = "refresh" /\ Call("refresh", store.refresh).state = "sent"
      BY NewCall
    <3> QED
      BY <2>3, <2>4, <3>2, <3>3 DEF CallsKept
  <2> QED
    BY <1>3, <2>6, <2>7 DEF Refresh
<1>4. CASE SessionOver(calls, {c})
  BY <1>4, SessionOverKept
<1> QED
  BY <1>1, <1>2, <1>3, <1>4 DEF Arrives

\* The answer of the refresh: whoever waited is no answer to an invitation.
LEMMA RefreshKeptCalls ==
  ASSUME Inv, NEW c \in CallIds, RefreshArrives(c)
  PROVE  CallsKept
<1> DEFINE cs == Put(calls, c, Idle)
<1>1. \A d \in CallIds : cs[d] \in {calls[d], Idle}
  BY DEF Put, Inv, Shape, CallsType
<1>2. CASE SessionOver(cs, Waiting)
  BY <1>1, <1>2, SessionOverKept
<1>3. CASE RefreshSucceeds(c)
  <2>0. calls[c].op = "refresh" /\ calls[c].state = "answered"
    BY DEF RefreshArrives, Answered
  <2>1. calls' = [e \in CallIds |-> IF e \in Waiting THEN Again(cs[e], calls[c].as) ELSE cs[e]]
    BY <1>3 DEF RefreshSucceeds, Resend
  <2>2. cs[c] = Idle /\ \A e \in CallIds : e # c => cs[e] = calls[e]
    BY DEF Put, Inv, Shape, CallsType
  <2> HIDE DEF cs
  <2>3. ASSUME NEW e \in CallIds, e \in Waiting PROVE calls'[e].op # "respond" /\ calls'[e].state = "sent"
    <3>1. e # c /\ calls[e].op # "none" /\ calls[e].state = "waiting" /\ WellFormed(calls[e])
      BY <2>0, <2>3 DEF Waiting, Busy, Inv, Shape, CallsType
    <3>2. IsCall(calls[e]) /\ calls[e].op \in MayExpire
      BY <3>1, NoCall DEF WellFormed
    <3>3. calls'[e] = Again(calls[e], calls[c].as)
      BY <2>1, <2>2, <2>3, <3>1
    <3>4. calls'[e] = [op |-> calls[e].op, as |-> calls[c].as, retry |-> FALSE, state |-> "sent", answer |-> "none", read |-> None]
      BY <3>2, <3>3, SentAgain
    <3>5. calls'[e].op = calls[e].op /\ calls'[e].state = "sent"
      BY <3>4
    <3> QED
      BY <3>2, <3>5 DEF MayExpire
  <2>4. \A e \in CallIds : e \notin Waiting => calls'[e] \in {calls[e], Idle}
    BY <1>1, <2>1, <2>2
  <2> QED
    BY <2>3, <2>4, NoCall DEF CallsKept
<1> QED
  BY <1>2, <1>3 DEF RefreshArrives

\* The claim ends for the page, in whatever way: it keeps the answer it shows.
LEMMA ClaimKeeps ==
  ASSUME AnswerInv, CallsKept, UNCHANGED invite, ClaimGoesOn
  PROVE  AnswerInv'
<1>1. CASE UNCHANGED view
  BY <1>1, SameView
<1>2. CASE view.claiming /\ view' = [view EXCEPT !.claiming = FALSE, !.claimed = TRUE, !.shown.password = TRUE]
  <2>1. view.shown \in Invites
    BY <1>2 DEF AnswerInv, InviteType
  <2>2. PICK shown : shown = [view.shown EXCEPT !.password = TRUE]
    OBVIOUS
  <2>3. shown \in Invites /\ shown.status = view.shown.status
    BY <2>1, <2>2 DEF Invites
  <2>4. view' = [view EXCEPT !.claiming = FALSE, !.claimed = TRUE, !.shown = shown]
    BY <1>2, <2>2 DEF AnswerInv, InviteType
  <2>5. /\ view' \in [shown : Invites \cup {None}, responding : Given \cup {None}, claiming : BOOLEAN, claimed : BOOLEAN]
        /\ view'.claiming = FALSE /\ view'.shown = shown
    BY <2>3, <2>4 DEF AnswerInv, InviteType
  <2>6. Recorded(view'.shown)
    <3>1. shown.status \in Given => view.shown # None
      BY <2>1, InviteeAssumption
    <3> QED
      BY <2>3, <2>5, <3>1 DEF AnswerInv, Recorded
  <2> QED
    BY <2>5, <2>6, AnswerKept
<1>3. CASE view' = [view EXCEPT !.claiming = FALSE]
  <2>1. /\ view' \in [shown : Invites \cup {None}, responding : Given \cup {None}, claiming : BOOLEAN, claimed : BOOLEAN]
        /\ view'.claiming = FALSE /\ view'.shown = view.shown
    BY <1>3 DEF AnswerInv, InviteType
  <2>2. Recorded(view'.shown)
    BY <2>1 DEF AnswerInv
  <2> QED
    BY <2>1, <2>2, AnswerKept
<1>4. CASE ~view.claiming \/ tab'.loading
  BY <1>1, <1>4 DEF ClaimGoesOn
<1>5. CASE ~(~view.claiming \/ tab'.loading) /\ Profiled
  BY <1>2, <1>5 DEF ClaimGoesOn
<1>6. CASE ~(~view.claiming \/ tab'.loading) /\ ~Profiled
  BY <1>3, <1>6 DEF ClaimGoesOn
<1> QED
  BY <1>4, <1>5, <1>6

\* The page takes over what was read with the answer, and nothing from an answer that failed.
LEMMA AnswerTaken ==
  ASSUME AnswerInv, CallsKept, UNCHANGED invite, NEW c \in CallIds, Answered(c),
         InvitationLoads(c) \/ AnswerArrives(c)
  PROVE  AnswerInv'
<1>1. calls[c].read \in Invites /\ Recorded(calls[c].read)
  BY DEF AnswerInv, InviteType, Answered, Busy
<1>2. PICK shown \in {view.shown, calls[c].read}, responding \in {view.responding, None} :
        view' = [view EXCEPT !.shown = shown, !.responding = responding]
  <2>1. view = [view EXCEPT !.shown = view.shown, !.responding = view.responding]
    BY DEF AnswerInv, InviteType
  <2>2. CASE InvitationLoads(c)
    <3>1. PICK shown \in {view.shown, calls[c].read} : view' = [view EXCEPT !.shown = shown]
      BY <2>2 DEF InvitationLoads
    <3>2. view' = [view EXCEPT !.shown = shown, !.responding = view.responding]
      BY <3>1 DEF AnswerInv, InviteType
    <3> QED
      BY <3>2
  <2>3. CASE AnswerArrives(c)
    <3>1. CASE view' = [view EXCEPT !.shown = calls[c].read, !.responding = None]
      BY <3>1
    <3>2. CASE view' = [view EXCEPT !.responding = None]
      <4>1. view' = [view EXCEPT !.shown = view.shown, !.responding = None]
        BY <3>2 DEF AnswerInv, InviteType
      <4> QED
        BY <4>1
    <3> QED
      BY <2>3, <3>1, <3>2 DEF AnswerArrives, AnswerRefused
  <2> QED
    BY <2>2, <2>3
<1>3. /\ view' \in [shown : Invites \cup {None}, responding : Given \cup {None}, claiming : BOOLEAN, claimed : BOOLEAN]
      /\ view'.claiming = view.claiming /\ view'.shown = shown
  BY <1>1, <1>2 DEF AnswerInv, InviteType
<1>4. view'.claiming = TRUE => view'.shown \in Invites
  BY <1>1, <1>2, <1>3 DEF AnswerInv, InviteType
<1>5. Recorded(view'.shown)
  BY <1>1, <1>2, <1>3 DEF AnswerInv
<1> QED
  BY <1>3, <1>4, <1>5, AnswerKept

\* The backend never takes an answer back: respond and expire_stale want a PENDING invitation.
LEMMA BackendKeeps ==
  ASSUME Inv, AnswerInv, NEW c \in CallIds, Backend(c)
  PROVE  AnswerInv'
<1>0. calls[c].op # "none" /\ UNCHANGED view
  BY DEF Backend, Busy
<1>1. PICK h \in Handled(calls[c].op, calls[c].as) \cup {[invite |-> invite, answer |-> "failed"]}, lost \in BOOLEAN :
        /\ invite' = h.invite
        /\ calls' = Put(calls, c, [calls[c] EXCEPT !.state = "answered",
                                                   !.answer = IF lost THEN "failed" ELSE h.answer,
                                                   !.read = h.invite])
  BY DEF Backend
<1>2. invite' \in Invites /\ (invite.status \in Given => invite'.status = invite.status)
  <2>1. CASE calls[c].op = "respond"
    <3>1. calls[c].as \in Given
      BY <2>1 DEF AnswerInv, InviteType
    <3>2. \/ invite' = invite
          \/ invite.status = "PENDING" /\ invite' = [invite EXCEPT !.status = calls[c].as]
      BY <1>1, <2>1 DEF Handled, Respond
    <3> QED
      BY <3>1, <3>2 DEF AnswerInv, InviteType, Invites, Given
  <2>2. CASE calls[c].op # "respond"
    <3>1. invite' = invite \/ invite' = [invite EXCEPT !.password = TRUE]
      <4>1. CASE calls[c].op = "claim"
        <5>1. Handled(calls[c].op, calls[c].as) = ClaimAccount
          BY <4>1 DEF Handled
        <5>2. PICK i : i = [invite EXCEPT !.password = TRUE]
          OBVIOUS
        <5>3. ClaimAccount \subseteq {[invite |-> i, answer |-> "ok"], [invite |-> invite, answer |-> "refused"]}
          BY <5>2 DEF ClaimAccount
        <5>4. h.invite \in {i, invite}
          BY <5>1, <5>3
        <5> QED
          BY <1>1, <5>2, <5>4
      <4>2. CASE calls[c].op # "claim"
        <5>1. Handled(calls[c].op, calls[c].as) = {[invite |-> invite, answer |-> b] : b \in Answers(calls[c].op)}
          BY <2>2, <4>2 DEF Handled
        <5> QED
          BY <1>1, <5>1
      <4> QED
        BY <4>1, <4>2
    <3> QED
      BY <3>1 DEF AnswerInv, InviteType, Invites
  <2> QED
    BY <2>1, <2>2
<1>3. PICK a : a = IF lost THEN "failed" ELSE h.answer
  OBVIOUS
<1>4. PICK x : x = [calls[c] EXCEPT !.state = "answered", !.answer = a, !.read = h.invite]
  OBVIOUS
<1>5. IsCall(calls[c])
  BY <1>0, NoCall DEF Inv, Shape, CallsType, WellFormed
<1>6. x = [op |-> calls[c].op, as |-> calls[c].as, retry |-> calls[c].retry, state |-> "answered", answer |-> a, read |-> h.invite]
  BY <1>4, <1>5, Answering
<1>7. x.op = calls[c].op /\ x.as = calls[c].as /\ x.read = invite'
  BY <1>1, <1>6
<1>8. calls'[c] = x /\ \A d \in CallIds : d # c => calls'[d] = calls[d]
  BY <1>1, <1>3, <1>4, OneChange DEF Inv, Shape
<1>9. \A y : Recorded(y) => Recorded(y)'
  <2>1. \A y : Recorded(y) => (y # None /\ y.status \in Given => invite'.status = y.status)
    BY <1>2 DEF Recorded
  <2> QED
    BY <2>1 DEF Recorded
<1>10. (Recorded(view.shown))'
  BY <1>0, <1>9 DEF AnswerInv, Recorded
<1>11. (\A d \in CallIds : calls[d].op # "none" /\ calls[d].state = "answered" => Recorded(calls[d].read))'
  BY <1>2, <1>7, <1>8 DEF AnswerInv, Recorded
<1>12. InviteType'
  BY <1>0, <1>2, <1>7, <1>8 DEF AnswerInv, InviteType
<1> QED
  BY <1>10, <1>11, <1>12 DEF AnswerInv

\* Nothing is shown at the start.
LEMMA InitAnswer == Init => AnswerInv
<1> SUFFICES ASSUME Init PROVE AnswerInv
  OBVIOUS
<1>1. Opens
  <2>1. PICK who \in Anyone : store = [access |-> who, refresh |-> who]
    BY DEF Init, Anyone
  <2>2. StoreType /\ store.access = store.refresh
    BY <2>1 DEF StoreType
  <2>3. LeftType
    BY AccountsAssumption DEF Init, LeftType
  <2> QED
    BY <2>2, <2>3 DEF Opens, Init
<1>2. \A c \in CallIds : calls[c].op # "none" => calls[c].op # "respond" /\ calls[c].state = "sent"
  BY <1>1, OpensCalls
<1>3. invite \in Invites
  BY DEF Init, Invites
<1>4. /\ view \in [shown : Invites \cup {None}, responding : Given \cup {None}, claiming : BOOLEAN, claimed : BOOLEAN]
      /\ view.claiming = FALSE /\ view.shown = None
  BY DEF Init, Opened
<1> QED
  BY <1>2, <1>3, <1>4 DEF AnswerInv, InviteType, Recorded

\* Every step keeps what is shown in agreement with what is recorded.
LEMMA StepAnswer == Inv /\ AnswerInv /\ [Next]_vars => AnswerInv'
<1> SUFFICES ASSUME Inv, AnswerInv, [Next]_vars PROVE AnswerInv'
  OBVIOUS
<1>c. CallsType
  BY DEF Inv, Shape
<1>k. ASSUME UNCHANGED calls PROVE CallsKept
  BY <1>k DEF CallsKept
<1>m. ASSUME NEW op, NEW as, \E c \in FirstFree : calls' = Put(calls, c, Call(op, as)), op = "respond" => as \in Given
      PROVE  CallsKept
  BY <1>c, <1>m, MadeKept DEF FirstFree, Free
<1>1. ASSUME InPlace, UNCHANGED <<invite, view>> PROVE AnswerInv'
  <2>1. ASSUME NEW op \in {"auth", "register"}, NEW who \in Accounts, Enter(op, who) PROVE CallsKept
    BY <1>m, <2>1 DEF Enter
  <2>2. ASSUME Fetch PROVE CallsKept
    <3>1. PICK c \in CallIds : calls' = Put(calls, c, Call("data", store.access))
      BY <2>2 DEF Fetch, FirstFree, Free
    <3> QED
      BY <1>c, <3>1, MadeKept
  <2>3. ASSUME Logout \/ Redirect \/ \E place \in {"register", "setup"} : Back(place) PROVE CallsKept
    BY <1>k, <2>3 DEF Logout, Redirect, Back
  <2>4. ASSUME \E who \in Accounts : Login(who) \/ Register(who) \/ BootstrapAdmin(who) PROVE CallsKept
    BY <2>1, <2>4 DEF Login, Register, BootstrapAdmin
  <2>5. CallsKept
    BY <1>1, <2>2, <2>3, <2>4 DEF InPlace
  <2> QED
    BY <1>1, <2>5, SameView
<1>2. ASSUME UNCHANGED <<store, invite>>, view' = Opened,
             calls' = OnMount(store) \/ calls' = Put(OnMount(store), MaxCalls, Call("invitation", None)),
             \E place \in Guarded \cup Public : tab' = Loaded(store, place)
      PROVE  AnswerInv'
  <2>1. CallsKept
    <3>1. Call("invitation", None).op = "invitation" /\ Call("invitation", None).state = "sent"
      BY NewCall
    <3>2. Call("init", store.access).op = "init" /\ Call("init", store.access).state = "sent"
      BY NewCall
    <3>3. \A c \in CallIds : calls'[c] \in {Idle, Call("invitation", None), Call("init", store.access)}
      BY <1>2 DEF OnMount, Put
    <3> QED
      BY <3>1, <3>2, <3>3, NoCall DEF CallsKept
  <2> QED
    BY <1>2, <2>1, OpenedView
<1>3. CASE FromNothing(Unload)
  BY <1>2, <1>3 DEF FromNothing, Unload, Load, Public
<1>4. ASSUME NEW place \in {"app", "login", "register", "setup"}, FromNothing(Visit(place)) PROVE AnswerInv'
  BY <1>2, <1>4 DEF FromNothing, Visit, Load, Guarded, Public
<1>5. CASE OpenLink
  BY <1>2, <1>5 DEF OpenLink, Public
<1>6. CASE HandleClaim
  <2>1. CallsKept
    BY <1>6, <1>m DEF HandleClaim, Enter
  <2>2. /\ UNCHANGED invite /\ view.shown # None /\ view' = [view EXCEPT !.claiming = TRUE]
    BY <1>6 DEF HandleClaim, CanClaim, Here
  <2>3. /\ view' \in [shown : Invites \cup {None}, responding : Given \cup {None}, claiming : BOOLEAN, claimed : BOOLEAN]
        /\ view'.shown = view.shown /\ view'.shown \in Invites
    BY <2>2 DEF AnswerInv, InviteType
  <2>4. Recorded(view'.shown)
    BY <2>3 DEF AnswerInv
  <2> QED
    BY <2>1, <2>2, <2>3, <2>4, AnswerKept
<1>7. CASE GoOn
  BY <1>7, <1>k, OpenedView DEF GoOn
<1>8. ASSUME NEW r \in Responses, HandleRespond(r) PROVE AnswerInv'
  <2>0. r \in Given
    BY DEF Responses
  <2>1. CallsKept
    BY <1>8, <1>m, <2>0 DEF HandleRespond
  <2>2. UNCHANGED invite /\ view' = [view EXCEPT !.responding = r]
    BY <1>8 DEF HandleRespond
  <2>3. /\ view' \in [shown : Invites \cup {None}, responding : Given \cup {None}, claiming : BOOLEAN, claimed : BOOLEAN]
        /\ view'.shown = view.shown /\ view'.claiming = view.claiming
    BY <2>0, <2>2 DEF AnswerInv, InviteType
  <2>4. Recorded(view'.shown)
    BY <2>3 DEF AnswerInv
  <2> QED
    BY <2>1, <2>2, <2>3, <2>4, AnswerKept DEF AnswerInv, InviteType
<1>9. ASSUME NEW st \in {"ACCEPTED", "EXPIRED"}, Elsewhere(st) PROVE AnswerInv'
  <2>1. invite.status = "PENDING" /\ invite' = [invite EXCEPT !.status = st] /\ UNCHANGED <<calls, view>>
    BY <1>9 DEF Elsewhere
  <2>2. invite' \in Invites /\ invite.status \notin Given
    BY <2>1 DEF AnswerInv, InviteType, Invites, Given
  <2>3. InviteType'
    BY <2>1, <2>2 DEF AnswerInv, InviteType
  <2>4. (Recorded(view.shown))'
    BY <2>1, <2>2 DEF AnswerInv, Recorded
  <2>5. (\A c \in CallIds : calls[c].op # "none" /\ calls[c].state = "answered" => Recorded(calls[c].read))'
    BY <2>1, <2>2 DEF AnswerInv, Recorded
  <2> QED
    BY <2>3, <2>4, <2>5 DEF AnswerInv
<1>10. ASSUME NEW c \in CallIds, Backend(c) PROVE AnswerInv'
  BY <1>10, BackendKeeps
<1>11. ASSUME NEW c \in CallIds, PageArrives(c) PROVE AnswerInv'
  <2>1. CallsKept /\ Answered(c) /\ UNCHANGED invite
    BY <1>11, ArrivesKept DEF PageArrives, Arrives
  <2>2. UNCHANGED view \/ InvitationLoads(c) \/ AnswerArrives(c) \/ ClaimGoesOn
    BY <1>11 DEF PageArrives
  <2> QED
    BY <2>1, <2>2, SameView, AnswerTaken, ClaimKeeps
<1>12. ASSUME NEW c \in CallIds, Refreshed(c) PROVE AnswerInv'
  BY <1>12, RefreshKeptCalls, ClaimKeeps DEF Refreshed
<1>13. CASE UNCHANGED vars
  BY <1>13, <1>k, SameView DEF vars
<1> QED
  BY <1>1, <1>3, <1>4, <1>5, <1>6, <1>7, <1>8, <1>9, <1>10, <1>11, <1>12, <1>13 DEF Next, Invited

\* An invitation that the page shows as answered has that answer at the backend, whatever was
\* lost on the way and whoever answered elsewhere (respond of invitations/service.py,
\* handleRespond of the page).
THEOREM ShownIsRecorded == Spec => []ShownAnswerIsRecorded
<1>1. AnswerInv => ShownAnswerIsRecorded
  BY DEF AnswerInv, Recorded, ShownAnswerIsRecorded
<1>2. Spec => []AnswerInv
  BY InitAnswer, StepAnswer, InvHolds, PTL DEF Spec
<1> QED
  BY <1>1, <1>2, PTL
===============================================================================
