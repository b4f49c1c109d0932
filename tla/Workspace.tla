----------------------------- MODULE Workspace -----------------------------
(***************************************************************************)
(* One browser tab of the application: who is signed in (frontend/src/lib/ *)
(* demoIdentity.ts), which side of the product the router lets it show     *)
(* (ProtectedRoute.tsx, App.tsx), the demo workspace loaded and cleared    *)
(* behind it, and what the two sides then do to the cases they see.        *)
(*                                                                         *)
(* Session, cases and demo flag are in localStorage and outlive the tab;   *)
(* a load of the demo workspace is a suspended script and does not. The    *)
(* operations on cases are taken as finished at once here: how two of them *)
(* overlap is the subject of CaseStore.                                    *)
(***************************************************************************)
EXTENDS CitizenPages, OfficerPages

CONSTANTS
  Ids,        \* Suchna IDs, the five seeded ones among them
  MaxNow,     \* the clock stops there
  MaxWrites   \* operations on cases before the store is left alone

ASSUME IdsAssumption == SeedIds \subseteq Ids
ASSUME BoundsAssumption == MaxNow \in Nat /\ MaxWrites \in Nat

VARIABLES
  session,  \* who is signed in, and whether through a demo entry
  demo,     \* the demo-workspace flag
  screen,   \* "closed", "public", "login" or the pages of a role
  gate,     \* the step of the login page
  pending,  \* loads of the demo workspace that wait for their hash chains
  writes    \* operations on cases so far

vars == <<cases, now, session, demo, screen, gate, pending, writes>>
tab  == <<session, demo, screen, gate, pending>>

Role      == {"CITIZEN", "GOVERNMENT_OFFICIAL"}
NoSession == [role |-> "NONE", demo |-> FALSE]
-----------------------------------------------------------------------------
(* Sessions and doors.                                                     *)

\* Mutant of ProtectedRoute: any session opens any door.
ProtectedRouteAnyRole(role, s) == IF s.role = "NONE" THEN "login" ELSE role

\* What a tab that asks for the pages of a role gets to see: those, its own
\* home if the role is wrong, the login page without a session.
ProtectedRoute(role, s) ==
  IF s.role = "NONE" THEN "login" ELSE IF s.role # role THEN s.role ELSE role

Navigate(role) == screen' = ProtectedRoute(role, session')
StartSession(role, isDemo) == session' = [role |-> role, demo |-> isDemo]

\* Who started the load, where it goes on to when done ("STAY": nowhere),
\* and whether it found no demo workspace when it began.
StartLoad(by, to) == pending' = pending \cup {[by |-> by, to |-> to, build |-> ~demo]}

\* Mutant of OpenApp: a demo session is not given its cases back.
OpenAppEmptyHanded ==
  /\ screen = "closed"
  /\ \/ screen' \in {"public", "login"}
     \/ \E role \in Role : screen' = ProtectedRoute(role, session)
  /\ gate' = "choose"
  /\ UNCHANGED <<cases, now, session, demo, pending, writes>>

\* Loading the application at any of its addresses. A demo session finds
\* its workspace loaded again.
OpenApp ==
  /\ screen = "closed"
  /\ \/ screen' \in {"public", "login"}
     \/ \E role \in Role : screen' = ProtectedRoute(role, session)
  /\ IF session.demo THEN StartLoad("boot", "STAY") ELSE UNCHANGED pending
  /\ gate' = "choose"
  /\ UNCHANGED <<cases, now, session, demo, writes>>

CloseApp ==
  /\ screen # "closed"
  /\ screen' = "closed"
  /\ pending' = {}
  /\ gate' = "choose"
  /\ UNCHANGED <<cases, now, session, demo, writes>>

\* The links of the public pages and the brand link of both shells.
FollowLink ==
  /\ screen # "closed"
  /\ \/ /\ screen' = "public" /\ screen # "public"
     \/ /\ screen = "public" /\ screen' = IF session = NoSession THEN "login" ELSE session.role
  /\ gate' = "choose"
  /\ UNCHANGED <<cases, now, session, demo, pending, writes>>

\* The steps of the login page, forwards and back.
GateTurns == [ choose |-> {"phone", "gov"}, phone |-> {"otp", "choose"},
               otp |-> {"phone"}, gov |-> {"choose"} ]
TurnGate ==
  /\ screen = "login"
  /\ gate' \in GateTurns[gate]
  /\ UNCHANGED <<cases, now, session, demo, screen, pending, writes>>

SignIn(role) ==
  /\ screen = "login"
  /\ gate = IF role = "CITIZEN" THEN "otp" ELSE "gov"
  /\ StartSession(role, FALSE)
  /\ Navigate(role)
  /\ UNCHANGED <<cases, now, demo, gate, pending, writes>>

\* The demo buttons are disabled while one of them is loading; the other
\* ways to sign in are not.
EnterDemo(role) ==
  /\ screen = "login" /\ gate = "choose"
  /\ \A load \in pending : load.by # "login"
  /\ StartSession(role, TRUE)
  /\ StartLoad("login", role)
  /\ UNCHANGED <<cases, now, demo, screen, gate, writes>>

\* "Load demo workspace" in the citizen's settings, offered without one.
LoadInSettings ==
  /\ screen = "CITIZEN" /\ ~demo
  /\ StartLoad("settings", "CITIZEN")
  /\ UNCHANGED <<cases, now, session, demo, screen, gate, writes>>

\* loadDemoWorkspace inserts the five cases over any of the same ids, marks
\* the flag and returns to whoever waits for it.
FinishLoad(load) ==
  /\ load \in pending
  /\ pending' = pending \ {load}
  /\ IF load.build
     THEN cases' = [c \in DOMAIN cases \cup SeedIds |->
                      IF c \in SeedIds THEN Seeds(now)[c] ELSE cases[c]]
     ELSE UNCHANGED cases
  /\ demo' = (demo \/ load.build)
  /\ UNCHANGED <<now, session, gate, writes>>
  /\ IF load.to = "STAY" THEN UNCHANGED screen ELSE Navigate(load.to)

LogOut ==
  /\ screen \in Role
  /\ session' = NoSession
  /\ screen' = "public"
  /\ UNCHANGED <<cases, now, demo, gate, pending, writes>>

\* "Exit & clear demo data" on the badge of a demo session, and "Clear all
\* workspace data" in the citizen's settings.
ClearWorkspaceAndLeave ==
  /\ screen = "CITIZEN" \/ (screen \in Role /\ session.demo)
  /\ cases' = <<>>
  /\ demo' = FALSE
  /\ session' = NoSession
  /\ screen' = "login" /\ gate' = "choose"
  /\ UNCHANGED <<now, pending, writes>>
-----------------------------------------------------------------------------
(* What the two sides do to the cases.                                     *)

Recorded(r, types) ==
  [r EXCEPT !.events = @ \o [i \in DOMAIN types |-> Ev(types[i], now)],
            !.trailVersion = @ + Len(types), !.updated = now]

Write(c, r) ==
  /\ writes < MaxWrites
  /\ writes' = writes + 1
  /\ cases' = [d \in DOMAIN cases \cup {c} |-> IF d = c THEN r ELSE cases[d]]
  /\ UNCHANGED <<now, tab>>

\* What createCase and submitCase leave in the store.
NewCase(authority) ==
  [ authority |-> authority, status |-> "SUBMITTED", govStage |-> "RECEIVED",
    due |-> now + Days(30), submitted |-> now, created |-> now, updated |-> now,
    events |-> <<Ev("REQUEST_CREATED", now), Ev("REQUEST_SUBMITTED", now)>>,
    docs |-> <<>>, audit |-> <<>>, checked |-> BaseChecklist, versions |-> 1,
    trailVersion |-> 2 ]

CreateRequest(c) ==
  /\ screen = "CITIZEN" /\ c \notin DOMAIN cases \cup SeedIds
  /\ Write(c, NewCase("MHUA"))

\* Filing and then submitting the appeal; the status is the first's.
FileFirstAppeal(c) ==
  /\ screen = "CITIZEN" /\ CaseLegalTab(c).canAppeal
  /\ Write(c, Recorded([cases[c] EXCEPT !.status = "FIRST_APPEAL"],
                       <<"APPEAL_PREPARED", "APPEAL_SUBMITTED">>))

\* Mutant of Advanced: a release does not answer a case under appeal.
AdvancedUnlessAppealed(r, next) ==
  IF next = "RESPONSE_RELEASED"
  THEN Recorded([r EXCEPT !.govStage = next,
                          !.status = IF IsAppeal(r) THEN @ ELSE "RESPONSE_RELEASED"],
                <<"GOV_STAGE_CHANGED", "RESPONSE_RECEIVED">>)
  ELSE Recorded([r EXCEPT !.govStage = next], <<"GOV_STAGE_CHANGED">>)

\* The next stage; the last releases the response, whatever the status was,
\* and records its receipt. The audit entry of the step is lost to its own
\* save (see CaseStore).
Advanced(r, next) ==
  IF next = "RESPONSE_RELEASED"
  THEN Recorded([r EXCEPT !.govStage = next, !.status = "RESPONSE_RELEASED"],
                <<"GOV_STAGE_CHANGED", "RESPONSE_RECEIVED">>)
  ELSE Recorded([r EXCEPT !.govStage = next], <<"GOV_STAGE_CHANGED">>)

AdvanceStage(c) ==
  /\ screen = "GOVERNMENT_OFFICIAL"
  /\ \E next \in GovResponseTab(c).next : Write(c, Advanced(cases[c], next))

\* Attaching a response document: it joins the trail, then the audit log.
AttachDocument(c) ==
  /\ screen = "GOVERNMENT_OFFICIAL"
  /\ Write(c, [Recorded(cases[c], <<"DOCUMENT_ADDED">>) EXCEPT
                 !.docs = Append(@, Doc("RESPONSE_DOCUMENT", now)),
                 !.audit = Append(@, now)])

\* Opening a case is audited and changes nothing else.
OpenGovCase(c) ==
  /\ screen = "GOVERNMENT_OFFICIAL"
  /\ Write(c, [cases[c] EXCEPT !.audit = Append(@, now)])

Tick ==
  /\ now < MaxNow
  /\ now' = now + 1
  /\ UNCHANGED <<cases, tab, writes>>
-----------------------------------------------------------------------------
Init ==
  /\ cases = <<>> /\ now = 0 /\ writes = 0
  /\ session = NoSession /\ demo = FALSE
  /\ screen = "closed" /\ gate = "choose" /\ pending = {}

Visit ==
  \/ OpenApp \/ CloseApp \/ FollowLink \/ TurnGate
  \/ \E role \in Role : SignIn(role) \/ EnterDemo(role)
  \/ LoadInSettings \/ LogOut \/ ClearWorkspaceAndLeave

Work ==
  \/ \E c \in Ids : CreateRequest(c)
  \/ \E c \in DOMAIN cases :
       FileFirstAppeal(c) \/ AdvanceStage(c) \/ AttachDocument(c) \/ OpenGovCase(c)

Loads == \E load \in pending : FinishLoad(load)

Next == Visit \/ Work \/ Loads \/ Tick

Spec == Init /\ [][Next]_vars
=============================================================================
