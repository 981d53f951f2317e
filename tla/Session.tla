-------------------------------- MODULE Session --------------------------------
(***************************************************************************)
(* A browser tab from page to page: signing in and out, claiming an        *)
(* account, sessions that expire under the calls of a page.                *)
(***************************************************************************)
EXTENDS InvitePage

vars == <<store, tab, calls, left, slips, invite, view>>

Init ==
  /\ \E who \in Accounts \cup {None} : store = [access |-> who, refresh |-> who]
  /\ \E place \in Guarded \cup Public : tab = Loaded(store, place)
  /\ \E password \in BOOLEAN : invite = [status |-> "PENDING", password |-> password]
  /\ calls = IF tab.place = "invite" THEN Put(OnMount(store), MaxCalls, Call("invitation", None))
             ELSE OnMount(store)
  /\ left = MaxActions /\ slips = {} /\ view = Opened

-----------------------------------------------------------------------------
\* With what the page of the invitation has in memory, or without it.
InPlace ==
  \/ Logout \/ Fetch \/ Redirect
  \/ \E who \in Accounts : Login(who) \/ Register(who) \/ BootstrapAdmin(who)
  \/ \E place \in {"register", "setup"} : Back(place)

FromNothing(load) == load /\ view' = Opened /\ UNCHANGED invite

Invited ==
  \/ OpenLink \/ HandleClaim \/ GoOn
  \/ \E r \in Responses : HandleRespond(r)
  \/ \E status \in {"ACCEPTED", "EXPIRED"} : Elsewhere(status)

Refreshed(c) == RefreshArrives(c) /\ ClaimGoesOn /\ UNCHANGED invite

Next ==
  \/ InPlace /\ UNCHANGED <<invite, view>>
  \/ FromNothing(Unload)
  \/ \E place \in {"app", "login", "register", "setup"} : FromNothing(Visit(place))
  \/ Invited
  \/ \E c \in CallIds : Backend(c) \/ PageArrives(c) \/ Refreshed(c)

Spec == Init /\ [][Next]_vars

\* The browser answers or fails every fetch, runs every handler, and finishes a page load.
FairSpec ==
  /\ Spec /\ WF_vars(FromNothing(Unload))
  /\ \A c \in CallIds : WF_vars(Backend(c)) /\ WF_vars(PageArrives(c)) /\ WF_vars(Refreshed(c))

-----------------------------------------------------------------------------
\* The context's loading flag is up exactly while one of its calls is on its way, and it makes
\* one at a time.
TypeOK ==
  /\ store.access \in Accounts \cup {None} /\ store.refresh \in Accounts \cup {None}
  /\ tab.place \in Guarded \cup Public /\ tab.user \in Accounts \cup {None}
  /\ tab.loading <=> In(Flow) # {}
  /\ Cardinality(In(Flow)) <= 1
  /\ left \in 0..MaxActions

\* However many calls of a page come back with an expired token, before or after one another,
\* there is one refresh for all of them, and nobody waits for one that is not under way.
OneRefresh ==
  /\ Cardinality(In({"refresh"})) <= 1
  /\ tab.refreshing <=> In({"refresh"}) # {}
  /\ Waiting # {} => tab.refreshing

Quiet == ~tab.loading /\ ~tab.leaving

\* What is shown as somebody's is fetched with their token or with none.  It is not so when the
\* profile of an account is lost after its tokens were stored over those of the user shown, or
\* when a refresh for the account that was left comes back after the next one's tokens.
ShownIsTokenOwner ==
  Quiet /\ slips = {} /\ tab.user # None => store.access \in {None, tab.user}

\* An invitation the page shows as answered has that answer, whatever was lost on the way and
\* whoever answered elsewhere.
ShownAnswerIsRecorded ==
  tab.place = "invite" /\ view.shown # None /\ view.shown.status \in Given => invite.status = view.shown.status

Working ==
  \/ tab.loading \/ tab.leaving \/ tab.refreshing \/ Waiting # {}
  \/ view.responding # None \/ view.claiming

\* Everything comes to an end: no sign-in, claim or answer leaves its flag up, no call waits for
\* ever for a refresh.
EverythingSettles == Working ~> ~Working
===============================================================================
