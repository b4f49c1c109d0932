-------------------------- MODULE WorkspaceProofs --------------------------
(***************************************************************************)
(* Proofs about the browser tab, the demo workspace and the screens of     *)
(* both desks, for any Suchna IDs and any bounds.                          *)
(***************************************************************************)
EXTENDS WorkspaceProperties, FiniteSetTheorems, SequenceTheorems, TLAPS

\* The statuses a case has here: nothing gives it another.
Statuses == {"SUBMITTED", "UNDER_REVIEW", "OVERDUE", "FIRST_APPEAL", "RESPONSE_RELEASED"}
EventTypes ==
  { "REQUEST_CREATED", "REQUEST_REVISED", "REQUEST_SUBMITTED", "REQUEST_ACKNOWLEDGED",
    "REQUEST_FORWARDED", "RESPONSE_RECEIVED", "RESPONSE_VERIFIED", "DEADLINE_MISSED",
    "APPEAL_PREPARED", "APPEAL_SUBMITTED", "GOV_STAGE_CHANGED", "DOCUMENT_ADDED" }
DocKinds ==
  { "RECEIPT", "FORWARDING_NOTICE", "RESPONSE_DOCUMENT", "ACKNOWLEDGEMENT", "APPEAL_DOCUMENT" }
EventRecord == [type : EventTypes, at : Int]
DocRecord   == [kind : DocKinds, at : Int]
CaseType ==
  [ authority : {"MHUA", "MCD", "DDA", "DoE", "CPWD"}, status : Statuses, govStage : GovStage,
    due : Int, submitted : Int, created : Int, updated : Int, events : Seq(EventRecord),
    docs : Seq(DocRecord), audit : Seq(Int),
    checked : SUBSET (ChecklistItems \cup {"requestUnderstood", "recordsIdentified"}),
    versions : Nat, trailVersion : Nat ]

\* The statuses a case of this id can have: a seeded one goes on from where
\* the demo workspace starts it.
CanBe(c) ==
  CASE c \in {"A", "D"} -> {"RESPONSE_RELEASED"}
    [] c = "B" -> {"OVERDUE", "FIRST_APPEAL", "RESPONSE_RELEASED"}
    [] c = "E" -> {"FIRST_APPEAL", "RESPONSE_RELEASED"}
    [] OTHER -> Statuses

ReceivedIn(events) == \E i \in 1..Len(events) : events[i].type = "RESPONSE_RECEIVED"

\* Stage, status and trail agree on the response, and an overdue case is
\* past its due date, by more than rounding hides.
CaseOK(c, r) ==
  /\ r \in CaseType /\ r.status \in CanBe(c)
  /\ r.govStage = "RESPONSE_RELEASED" <=> r.status = "RESPONSE_RELEASED"
  /\ ReceivedIn(r.events) <=> r.status = "RESPONSE_RELEASED"
  /\ r.status = "OVERDUE" => r.due + 1 < now

LoadType == [by : {"boot", "login", "settings"}, to : Role \cup {"STAY"}, build : BOOLEAN]

\* A demo session in an open tab has its workspace or waits for it.
SeedsComing == demo \/ \E load \in pending : load.build

CasesOK ==
  /\ now \in Nat /\ IsFiniteSet(DOMAIN cases)
  /\ \A c \in DOMAIN cases : CaseOK(c, cases[c])

TabOK ==
  /\ session \in [role : Role \cup {"NONE"}, demo : BOOLEAN] /\ demo \in BOOLEAN
  /\ pending \in SUBSET LoadType
  /\ demo => SeedIds \subseteq DOMAIN cases
  /\ session.demo /\ screen # "closed" => SeedsComing
  /\ screen = "closed" => pending = {}

IInv == CasesOK /\ TabOK
-----------------------------------------------------------------------------
(* Doors.                                                                  *)

\* The router never shows the pages of a role to another.
LEMMA RouteIsRight ==
  ASSUME NEW role \in Role, NEW s, ProtectedRoute(role, s) \in Role
  PROVE  ProtectedRoute(role, s) = s.role
BY DEF ProtectedRoute, Role

\* Nor a closed tab.
LEMMA RouteIsOpen ==
  ASSUME NEW role \in Role, NEW s \in [role : Role \cup {"NONE"}, demo : BOOLEAN]
  PROVE  ProtectedRoute(role, s) # "closed"
BY DEF ProtectedRoute, Role

LEMMA RightDoorStep ==
  ASSUME TabOK, [Next]_vars, screen' # screen, screen' \in Role
  PROVE  screen' = session'.role
<1>1. CASE OpenApp
  <2>1. screen' \in {"public", "login"} \/ \E role \in Role : screen' = ProtectedRoute(role, session)
    BY <1>1 DEF OpenApp
  <2>2. "public" \notin Role /\ "login" \notin Role /\ session' = session
    BY <1>1 DEF OpenApp, Role
  <2> QED
    BY <2>1, <2>2, RouteIsRight
<1>2. CASE CloseApp \/ TurnGate \/ LogOut \/ ClearWorkspaceAndLeave \/ LoadInSettings \/ Tick
  BY <1>2 DEF CloseApp, TurnGate, LogOut, ClearWorkspaceAndLeave, LoadInSettings, Tick, tab, Role
<1>3. CASE FollowLink
  BY <1>3 DEF FollowLink, Role
<1>4. ASSUME NEW role \in Role, SignIn(role) \/ EnterDemo(role)
      PROVE  screen' = session'.role
  BY <1>4, RouteIsRight DEF SignIn, EnterDemo, Navigate
<1>5. CASE Work
  BY <1>5 DEF Work, CreateRequest, FileFirstAppeal, AdvanceStage, AttachDocument, OpenGovCase,
              Write, tab
<1>6. CASE Loads
  <2>1. PICK load \in pending : FinishLoad(load)
    BY <1>6 DEF Loads
  <2>2. load.to \in Role \cup {"STAY"}
    BY DEF TabOK, LoadType
  <2> QED
    BY <2>1, <2>2, RouteIsRight DEF FinishLoad, Navigate
<1>7. CASE UNCHANGED vars
  BY <1>7 DEF vars
<1> QED
  BY <1>1, <1>2, <1>3, <1>4, <1>5, <1>6, <1>7 DEF Next, Visit
-----------------------------------------------------------------------------
(* The demo workspace.                                                     *)

\* A load that was started is one of its type, and coming.
LEMMA LoadStarted ==
  ASSUME TabOK, NEW by \in {"boot", "login", "settings"}, NEW to \in Role \cup {"STAY"},
         StartLoad(by, to), UNCHANGED demo
  PROVE  pending' \in SUBSET LoadType /\ SeedsComing'
<1> DEFINE load == [by |-> by, to |-> to, build |-> ~demo]
<1>1. pending' = pending \cup {load} /\ pending \in SUBSET LoadType /\ demo \in BOOLEAN
  BY DEF StartLoad, TabOK
<1>2. CASE demo = TRUE
  <2>1. load = [by |-> by, to |-> to, build |-> FALSE]
    BY <1>2, Zenon
  <2> HIDE DEF load
  <2>2. load \in LoadType
    BY <2>1 DEF LoadType
  <2> QED
    BY <1>1, <1>2, <2>2 DEF SeedsComing
<1>3. CASE demo = FALSE
  <2>1. load = [by |-> by, to |-> to, build |-> TRUE]
    BY <1>3, Zenon
  <2> HIDE DEF load
  <2>2. load \in LoadType /\ load.build
    BY <2>1 DEF LoadType
  <2> QED
    BY <1>1, <2>2 DEF SeedsComing
<1> QED
  BY <1>1, <1>2, <1>3

LEMMA VisitTab == TabOK /\ Visit => TabOK'
<1> SUFFICES ASSUME TabOK, Visit PROVE TabOK'
  OBVIOUS
<1>0. NoSession \in [role : Role \cup {"NONE"}, demo : BOOLEAN] /\ NoSession.demo = FALSE
  BY DEF NoSession
<1>1. CASE OpenApp
  <2>1. UNCHANGED <<cases, session, demo>> /\ screen' # "closed"
    <3>1. session \in [role : Role \cup {"NONE"}, demo : BOOLEAN]
      BY DEF TabOK
    <3> QED
      BY <1>1, <3>1, RouteIsOpen DEF OpenApp
  <2>2. CASE session.demo /\ StartLoad("boot", "STAY")
    <3>1. pending' \in SUBSET LoadType /\ SeedsComing'
      BY <2>1, <2>2, LoadStarted
    <3> QED
      BY <2>1, <3>1 DEF TabOK
  <2>3. CASE ~session.demo /\ UNCHANGED pending
    BY <2>1, <2>3 DEF TabOK
  <2> QED
    BY <1>1, <2>2, <2>3 DEF OpenApp
<1>2. CASE CloseApp
  BY <1>2 DEF CloseApp, TabOK
<1>3. CASE FollowLink \/ TurnGate
  <2>1. UNCHANGED <<cases, session, demo, pending>> /\ (session.demo => SeedsComing \/ screen = "closed")
    BY <1>3 DEF FollowLink, TurnGate, TabOK
  <2>2. screen # "closed" /\ screen' # "closed"
    BY <1>3 DEF FollowLink, TurnGate, TabOK, Role
  <2> QED
    BY <2>1, <2>2 DEF TabOK, SeedsComing
<1>4. ASSUME NEW role \in Role, SignIn(role) PROVE TabOK'
  <2>1. session' = [role |-> role, demo |-> FALSE] /\ UNCHANGED <<cases, demo, pending>>
        /\ screen' = ProtectedRoute(role, session')
    BY <1>4 DEF SignIn, StartSession, Navigate
  <2>2. session' \in [role : Role \cup {"NONE"}, demo : BOOLEAN] /\ session'.demo = FALSE
        /\ screen' # "closed"
    BY <2>1, RouteIsOpen
  <2> QED
    BY <2>1, <2>2 DEF TabOK
<1>5. ASSUME NEW role \in Role, EnterDemo(role) PROVE TabOK'
  <2>1. session' = [role |-> role, demo |-> TRUE] /\ UNCHANGED <<cases, demo>> /\ StartLoad("login", role)
        /\ screen' = "login"
    BY <1>5 DEF EnterDemo, StartSession
  <2>2. session' \in [role : Role \cup {"NONE"}, demo : BOOLEAN]
    BY <2>1
  <2>3. pending' \in SUBSET LoadType /\ SeedsComing'
    BY <2>1, LoadStarted
  <2> QED
    BY <2>1, <2>2, <2>3 DEF TabOK
<1>6. CASE LoadInSettings
  <2>1. UNCHANGED <<cases, session, demo, screen>> /\ StartLoad("settings", "CITIZEN")
        /\ screen = "CITIZEN"
    BY <1>6 DEF LoadInSettings
  <2>2. pending' \in SUBSET LoadType /\ SeedsComing'
    BY <2>1, LoadStarted DEF Role
  <2> QED
    BY <2>1, <2>2 DEF TabOK
<1>7. CASE LogOut
  BY <1>0, <1>7 DEF LogOut, TabOK, Role
<1>8. CASE ClearWorkspaceAndLeave
  BY <1>0, <1>8 DEF ClearWorkspaceAndLeave, TabOK
<1> QED
  BY <1>1, <1>2, <1>3, <1>4, <1>5, <1>6, <1>7, <1>8 DEF Visit

LEMMA LoadsTab == TabOK /\ Loads => TabOK'
<1> SUFFICES ASSUME TabOK, NEW load \in pending, FinishLoad(load) PROVE TabOK'
  BY DEF Loads
<1>1. /\ pending' = pending \ {load} /\ session' = session /\ demo' = (demo \/ load.build)
      /\ screen # "closed"
  BY DEF FinishLoad, TabOK
<1>2. /\ load \in LoadType /\ load.build \in BOOLEAN /\ demo \in BOOLEAN
      /\ session \in [role : Role \cup {"NONE"}, demo : BOOLEAN]
  BY DEF TabOK, LoadType
<1>3. screen' # "closed"
  BY <1>1, <1>2, RouteIsOpen DEF FinishLoad, Navigate, LoadType
<1>4. CASE load.build = TRUE
  <2>1. DOMAIN cases' = DOMAIN cases \cup SeedIds
    BY <1>4 DEF FinishLoad
  <2>2. demo' = TRUE
    BY <1>1, <1>4
  <2> QED
    BY <1>1, <1>3, <2>1, <2>2 DEF TabOK, SeedsComing
<1>5. CASE load.build = FALSE
  <2>1. cases' = cases /\ demo' = demo
    BY <1>1, <1>2, <1>5 DEF FinishLoad
  <2> QED
    BY <1>1, <1>3, <1>5, <2>1 DEF TabOK, SeedsComing
<1> QED
  BY <1>2, <1>4, <1>5

LEMMA WorkTab ==
  ASSUME TabOK, UNCHANGED tab, DOMAIN cases \subseteq DOMAIN cases'
  PROVE  TabOK'
BY DEF TabOK, SeedsComing, tab
-----------------------------------------------------------------------------
(* One case.                                                               *)

LEMMA StagesAre ==
  /\ GovStage = { "RECEIVED", "UNDER_REVIEW", "INFO_LOCATED", "RESPONSE_DRAFTED",
                  "COMPLIANCE_REVIEW", "READY_TO_RELEASE", "RESPONSE_RELEASED" }
  /\ \A s \in GovStage : NextGovStage(s) \subseteq GovStage
  /\ NextGovStage("RESPONSE_RELEASED") = {}
<1>1. /\ GOV_STAGE_ORDER[1] = "RECEIVED" /\ GOV_STAGE_ORDER[2] = "UNDER_REVIEW"
      /\ GOV_STAGE_ORDER[3] = "INFO_LOCATED" /\ GOV_STAGE_ORDER[4] = "RESPONSE_DRAFTED"
      /\ GOV_STAGE_ORDER[5] = "COMPLIANCE_REVIEW" /\ GOV_STAGE_ORDER[6] = "READY_TO_RELEASE"
      /\ GOV_STAGE_ORDER[7] = "RESPONSE_RELEASED"
  BY DEF GOV_STAGE_ORDER
<1>2. \A i \in 1..7 : i = 1 \/ i = 2 \/ i = 3 \/ i = 4 \/ i = 5 \/ i = 6 \/ i = 7
  OBVIOUS
<1>3. GovStage = { "RECEIVED", "UNDER_REVIEW", "INFO_LOCATED", "RESPONSE_DRAFTED",
                   "COMPLIANCE_REVIEW", "READY_TO_RELEASE", "RESPONSE_RELEASED" }
  <2>1. 1 \in 1..7 /\ 2 \in 1..7 /\ 3 \in 1..7 /\ 4 \in 1..7 /\ 5 \in 1..7 /\ 6 \in 1..7 /\ 7 \in 1..7
    OBVIOUS
  <2>2. \A i \in 1..7 : GOV_STAGE_ORDER[i] \in { "RECEIVED", "UNDER_REVIEW", "INFO_LOCATED",
          "RESPONSE_DRAFTED", "COMPLIANCE_REVIEW", "READY_TO_RELEASE", "RESPONSE_RELEASED" }
    BY <1>1, <1>2
  <2>3. \A s \in { "RECEIVED", "UNDER_REVIEW", "INFO_LOCATED", "RESPONSE_DRAFTED",
                   "COMPLIANCE_REVIEW", "READY_TO_RELEASE", "RESPONSE_RELEASED" } :
          \E i \in 1..7 : GOV_STAGE_ORDER[i] = s
    BY <1>1, <2>1
  <2> QED
    BY <2>2, <2>3 DEF GovStage
<1>4. \A s \in GovStage : NextGovStage(s) \subseteq GovStage
  BY DEF NextGovStage, GovStage
<1>5. \A i \in 1..6 : GOV_STAGE_ORDER[i] # "RESPONSE_RELEASED"
  <2>1. \A i \in 1..6 : i = 1 \/ i = 2 \/ i = 3 \/ i = 4 \/ i = 5 \/ i = 6
    OBVIOUS
  <2> QED
    BY <1>1, <2>1
<1>6. NextGovStage("RESPONSE_RELEASED") = {}
  BY <1>5 DEF NextGovStage
<1> QED
  BY <1>3, <1>4, <1>6

\* Recording events changes the trail and the date of the case, no more.
LEMMA RecordedIs ==
  ASSUME CasesOK, NEW r \in CaseType, NEW types \in Seq(EventTypes)
  PROVE  LET q == Recorded(r, types)
         IN /\ q \in CaseType /\ q.status = r.status /\ q.govStage = r.govStage /\ q.due = r.due
            /\ ReceivedIn(q.events) <=>
                 ReceivedIn(r.events) \/ \E i \in 1..Len(types) : types[i] = "RESPONSE_RECEIVED"
<1> PICK old : old = r.events
  OBVIOUS
<1> PICK more : more = [i \in DOMAIN types |-> Ev(types[i], now)]
  OBVIOUS
<1> PICK all : all = old \o more
  OBVIOUS
<1> PICK k : k = Len(old)
  OBVIOUS
<1> PICK n : n = Len(types)
  OBVIOUS
<1>1. old \in Seq(EventRecord) /\ r.trailVersion \in Nat /\ now \in Int
  BY DEF CaseType, CasesOK
<1>2. DOMAIN types = 1..n /\ n \in Nat /\ \A i \in 1..n : types[i] \in EventTypes
  BY LenProperties, ElementOfSeq
<1>3. \A i \in 1..n : more[i] = [type |-> types[i], at |-> now] /\ more[i] \in EventRecord
  BY <1>1, <1>2 DEF Ev, EventRecord
<1>4. more \in [1..n -> EventRecord]
  BY <1>2, <1>3
<1>5. more \in Seq(EventRecord) /\ Len(more) = n
  <2>1. more \in Seq(EventRecord)
    BY <1>2, <1>4, SeqDef
  <2>2. DOMAIN more = 1..Len(more) /\ Len(more) \in Nat
    BY <2>1, LenProperties
  <2> QED
    BY <2>1, <2>2, <1>2, <1>4
<1>6. /\ all \in Seq(EventRecord) /\ Len(all) = k + n /\ k \in Nat
      /\ \A i \in 1..(k + n) : all[i] = IF i <= k THEN old[i] ELSE more[i - k]
  <2>1. k \in Nat
    BY <1>1, LenProperties
  <2>2. /\ old \o more \in Seq(EventRecord) /\ Len(old \o more) = Len(old) + Len(more)
        /\ \A i \in 1 .. Len(old) + Len(more) :
             (old \o more)[i] = IF i <= Len(old) THEN old[i] ELSE more[i - Len(old)]
    BY ONLY <1>1, <1>5, ConcatProperties
  <2> QED
    BY <2>1, <2>2, <1>5
<1>7. ReceivedIn(all) <=>
        ReceivedIn(old) \/ \E i \in 1..n : types[i] = "RESPONSE_RECEIVED"
  <2>1. ASSUME ReceivedIn(all)
        PROVE  ReceivedIn(old) \/ \E i \in 1..n : types[i] = "RESPONSE_RECEIVED"
    <3>1. PICK i \in 1..(k + n) : all[i].type = "RESPONSE_RECEIVED"
      BY <2>1, <1>6 DEF ReceivedIn
    <3>2. CASE i <= k
      <4>1. i \in 1..Len(old) /\ old[i].type = "RESPONSE_RECEIVED"
        BY <3>1, <3>2, <1>6
      <4> QED
        BY <4>1 DEF ReceivedIn
    <3>3. CASE ~(i <= k)
      <4> PICK j : j = i - k
        OBVIOUS
      <4>1. j \in 1..n /\ all[i] = more[j]
        BY <3>3, <1>2, <1>6
      <4>2. more[j] = [type |-> types[j], at |-> now]
        BY <4>1, <1>3
      <4> QED
        BY <3>1, <4>1, <4>2
    <3> QED
      BY <3>2, <3>3
  <2>2. ASSUME ReceivedIn(old) PROVE ReceivedIn(all)
    <3>1. PICK i \in 1..k : old[i].type = "RESPONSE_RECEIVED"
      BY <2>2 DEF ReceivedIn
    <3>2. i \in 1..(k + n) /\ i <= k
      BY <1>2, <1>6
    <3>3. all[i] = old[i]
      BY <3>2, <1>6
    <3> QED
      BY <3>1, <3>2, <3>3, <1>6 DEF ReceivedIn
  <2>3. ASSUME NEW j \in 1..n, types[j] = "RESPONSE_RECEIVED" PROVE ReceivedIn(all)
    <3> PICK i : i = j + k
      OBVIOUS
    <3>1. i \in 1..(k + n) /\ ~(i <= k) /\ i - k = j
      BY <1>2, <1>6
    <3>2. all[i] = more[j]
      BY <3>1, <1>6
    <3>3. more[j] = [type |-> types[j], at |-> now]
      BY <1>3
    <3>4. all[i].type = "RESPONSE_RECEIVED"
      BY <3>2, <3>3, <2>3
    <3> QED
      BY <3>1, <3>4, <1>6 DEF ReceivedIn
  <2> QED
    BY <2>1, <2>2, <2>3
<1> PICK version : version = r.trailVersion + n
  OBVIOUS
<1>8. version \in Nat
  BY <1>1, <1>2
<1> PICK q : q = Recorded(r, types)
  OBVIOUS
<1>9. q = [r EXCEPT !.events = all, !.trailVersion = version, !.updated = now]
  BY DEF Recorded
<1> PICK q1 : q1 = [r EXCEPT !.events = all]
  OBVIOUS
<1> PICK q2 : q2 = [q1 EXCEPT !.trailVersion = version]
  OBVIOUS
<1>10. q1 \in CaseType /\ q1.events = all /\ q1.status = r.status /\ q1.govStage = r.govStage /\ q1.due = r.due
  BY <1>6 DEF CaseType
<1>11. q2 \in CaseType /\ q2.events = all /\ q2.status = r.status /\ q2.govStage = r.govStage /\ q2.due = r.due
  BY <1>8, <1>10 DEF CaseType
<1> PICK at : at = now
  OBVIOUS
<1>12. q = [q2 EXCEPT !.updated = at] /\ at \in Int
  BY <1>1, <1>9
<1>13. q.events = all /\ q.status = r.status /\ q.govStage = r.govStage /\ q.due = r.due
  BY <1>11, <1>12 DEF CaseType
<1>14. q \in CaseType
  <2>1. \A f \in CaseType : \A d \in Int : [f EXCEPT !.updated = d] \in CaseType
    BY ONLY DEF CaseType
  <2> QED
    BY ONLY <2>1, <1>11, <1>12
<1> QED
  BY <1>7, <1>13, <1>14

\* What an operation leaves of a case is stored, and nothing else.
LEMMA WriteKeeps ==
  ASSUME CasesOK, NEW c, NEW r, CaseOK(c, r), Write(c, r)
  PROVE  CasesOK' /\ DOMAIN cases \subseteq DOMAIN cases'
<1>1. /\ DOMAIN cases' = DOMAIN cases \cup {c} /\ now' = now
      /\ \A d \in DOMAIN cases' : cases'[d] = IF d = c THEN r ELSE cases[d]
  BY DEF Write
<1>2. IsFiniteSet(DOMAIN cases')
  BY <1>1, FS_AddElement DEF CasesOK
<1>3. ASSUME NEW d \in DOMAIN cases' PROVE CaseOK(d, cases[d])'
  <2>1. CaseOK(d, cases'[d])
    BY <1>1 DEF CasesOK
  <2> QED
    BY <1>1, <2>1 DEF CaseOK
<1> QED
  BY <1>1, <1>2, <1>3 DEF CasesOK

LEMMA EventsAre ==
  ASSUME NEW type \in EventTypes, NEW at \in Int
  PROVE  Ev(type, at) \in EventRecord /\ Ev(type, at).type = type /\ Ev(type, at).at = at
BY DEF Ev, EventRecord

LEMMA NewCaseIsOK ==
  ASSUME CasesOK, NEW c, c \notin SeedIds
  PROVE  CaseOK(c, NewCase("MHUA"))
<1> PICK at : at = now
  OBVIOUS
<1> PICK a : a = Ev("REQUEST_CREATED", at)
  OBVIOUS
<1> PICK b : b = Ev("REQUEST_SUBMITTED", at)
  OBVIOUS
<1> PICK r : r = NewCase("MHUA")
  OBVIOUS
<1>1. at \in Int /\ Days(30) = 60
  BY DEF CasesOK, Days
<1>2. /\ a \in EventRecord /\ a.type = "REQUEST_CREATED"
      /\ b \in EventRecord /\ b.type = "REQUEST_SUBMITTED"
  BY <1>1, EventsAre DEF EventTypes
<1>3. <<a, b>> \in Seq(EventRecord) /\ ~ReceivedIn(<<a, b>>)
  BY <1>2 DEF ReceivedIn
<1>4. /\ <<>> \in Seq(DocRecord) /\ <<>> \in Seq(Int) /\ "RECEIVED" \in GovStage
      /\ {} \in SUBSET (ChecklistItems \cup {"requestUnderstood", "recordsIdentified"})
  BY StagesAre, EmptySeq
<1> PICK events : events = <<a, b>>
  OBVIOUS
<1> PICK none : none = <<>>
  OBVIOUS
<1>5. r = [ authority |-> "MHUA", status |-> "SUBMITTED", govStage |-> "RECEIVED",
    due |-> at + 60, submitted |-> at, created |-> at, updated |-> at,
    events |-> events, docs |-> none, audit |-> none, checked |-> {}, versions |-> 1,
    trailVersion |-> 2 ]
  BY <1>1 DEF NewCase, BaseChecklist
<1>6. r \in CaseType /\ r.status = "SUBMITTED" /\ r.govStage = "RECEIVED" /\ r.events = events
  <2>1. events \in Seq(EventRecord) /\ none \in Seq(DocRecord) /\ none \in Seq(Int) /\ at + 60 \in Int
    BY <1>1, <1>3, <1>4
  <2>2. r.status = "SUBMITTED" /\ r.govStage = "RECEIVED" /\ r.events = events
    BY ONLY <1>5
  <2>3. r \in CaseType
    BY ONLY <1>1, <1>4, <1>5, <2>1, SMTT(60) DEF CaseType, Statuses
  <2> QED
    BY <2>2, <2>3
<1>7. "SUBMITTED" \in CanBe(c)
  BY DEF CanBe, SeedIds, Statuses
<1> QED
  BY <1>3, <1>6, <1>7 DEF CaseOK

\* Recording events other than the receipt of a response.
LEMMA RecordedKeeps ==
  ASSUME CasesOK, NEW c, NEW r, CaseOK(c, r), NEW types \in Seq(EventTypes),
         \A i \in 1..Len(types) : types[i] # "RESPONSE_RECEIVED"
  PROVE  CaseOK(c, Recorded(r, types))
<1>1. r \in CaseType
  BY DEF CaseOK
<1> PICK q : q = Recorded(r, types)
  OBVIOUS
<1>2. /\ q \in CaseType /\ q.status = r.status /\ q.govStage = r.govStage /\ q.due = r.due
      /\ ReceivedIn(q.events) <=> ReceivedIn(r.events)
  BY <1>1, RecordedIs
<1> QED
  BY <1>2 DEF CaseOK

LEMMA AppealIsOK ==
  ASSUME CasesOK, NEW c \in DOMAIN cases, IsOverdue(cases[c])
  PROVE  CaseOK(c, Recorded([cases[c] EXCEPT !.status = "FIRST_APPEAL"],
                            <<"APPEAL_PREPARED", "APPEAL_SUBMITTED">>))
<1> PICK r : r = cases[c]
  OBVIOUS
<1> PICK q : q = [r EXCEPT !.status = "FIRST_APPEAL"]
  OBVIOUS
<1> PICK types : types = <<"APPEAL_PREPARED", "APPEAL_SUBMITTED">>
  OBVIOUS
<1>1. CaseOK(c, r) /\ r.status = "OVERDUE"
  BY DEF CasesOK, IsOverdue
<1>2. /\ q \in CaseType /\ q.status = "FIRST_APPEAL" /\ q.govStage = r.govStage
      /\ q.events = r.events
  BY <1>1 DEF CaseOK, CaseType, Statuses
<1>3. "FIRST_APPEAL" \in CanBe(c)
  BY <1>1 DEF CaseOK, CanBe, Statuses
<1>4. CaseOK(c, q)
  BY <1>1, <1>2, <1>3 DEF CaseOK
<1>5. types \in Seq(EventTypes) /\ \A i \in 1..Len(types) : types[i] # "RESPONSE_RECEIVED"
  BY DEF EventTypes
<1> QED
  BY <1>4, <1>5, RecordedKeeps

LEMMA AdvancedIsOK ==
  ASSUME CasesOK, NEW c \in DOMAIN cases, NEW next \in NextGovStage(cases[c].govStage)
  PROVE  CaseOK(c, Advanced(cases[c], next))
<1> PICK r : r = cases[c]
  OBVIOUS
<1>1. CaseOK(c, r) /\ r \in CaseType /\ next \in NextGovStage(r.govStage)
  BY DEF CasesOK, CaseOK
<1>2. r.govStage # "RESPONSE_RELEASED" /\ next \in GovStage
  BY <1>1, StagesAre DEF CaseType
<1>3. r.status # "RESPONSE_RELEASED" /\ ~ReceivedIn(r.events)
  BY <1>1, <1>2 DEF CaseOK
<1>4. CASE next = "RESPONSE_RELEASED"
  <2> PICK q1 : q1 = [r EXCEPT !.govStage = next]
    OBVIOUS
  <2> PICK q : q = [q1 EXCEPT !.status = "RESPONSE_RELEASED"]
    OBVIOUS
  <2> PICK types : types = <<"GOV_STAGE_CHANGED", "RESPONSE_RECEIVED">>
    OBVIOUS
  <2> PICK p : p = Recorded(q, types)
    OBVIOUS
  <2>1. q1 \in CaseType /\ q1.govStage = next
    BY <1>1, <1>2 DEF CaseType
  <2>2. q \in CaseType /\ q.status = "RESPONSE_RELEASED" /\ q.govStage = next
    BY <2>1 DEF CaseType, Statuses
  <2>3. /\ types \in Seq(EventTypes) /\ 2 \in 1..Len(types)
        /\ types[2] = "RESPONSE_RECEIVED"
    BY DEF EventTypes
  <2>4. /\ p \in CaseType /\ p.status = "RESPONSE_RELEASED" /\ p.govStage = next
        /\ ReceivedIn(p.events)
    <3>1. \E i \in 1..Len(types) : types[i] = "RESPONSE_RECEIVED"
      BY <2>3
    <3>0. CasesOK /\ q \in CaseType /\ types \in Seq(EventTypes) /\ p = Recorded(q, types)
      BY <2>2, <2>3
    <3>2. /\ p \in CaseType /\ p.status = q.status /\ p.govStage = q.govStage
          /\ ReceivedIn(p.events) <=>
               ReceivedIn(q.events) \/ \E i \in 1..Len(types) : types[i] = "RESPONSE_RECEIVED"
      BY ONLY <3>0, RecordedIs
    <3> QED
      BY <2>2, <3>1, <3>2
  <2>5. "RESPONSE_RELEASED" \in CanBe(c)
    BY DEF CanBe, Statuses
  <2>6. CaseOK(c, p)
    BY <1>4, <2>4, <2>5 DEF CaseOK
  <2>7. p = Advanced(r, next)
    <3>1. q = [r EXCEPT !.govStage = next, !.status = "RESPONSE_RELEASED"]
      OBVIOUS
    <3> QED
      BY <3>1, <1>4 DEF Advanced
  <2> QED
    BY <2>6, <2>7
<1>5. CASE next # "RESPONSE_RELEASED"
  <2> PICK q : q = [r EXCEPT !.govStage = next]
    OBVIOUS
  <2> PICK types : types = <<"GOV_STAGE_CHANGED">>
    OBVIOUS
  <2>1. /\ q \in CaseType /\ q.govStage = next /\ q.status = r.status /\ q.due = r.due
        /\ q.events = r.events
    BY <1>1, <1>2 DEF CaseType
  <2>2. CaseOK(c, q)
    BY <1>1, <1>3, <1>5, <2>1 DEF CaseOK
  <2>3. types \in Seq(EventTypes) /\ \A i \in 1..Len(types) : types[i] # "RESPONSE_RECEIVED"
    BY DEF EventTypes
  <2>4. CaseOK(c, Recorded(q, types))
    BY <2>2, <2>3, RecordedKeeps
  <2> QED
    BY <2>4, <1>5 DEF Advanced
<1> QED
  BY <1>4, <1>5

LEMMA OpenedIsOK ==
  ASSUME CasesOK, NEW c, NEW r, CaseOK(c, r)
  PROVE  CaseOK(c, [r EXCEPT !.audit = Append(@, now)])
<1> PICK log : log = Append(r.audit, now)
  OBVIOUS
<1> PICK q : q = [r EXCEPT !.audit = log]
  OBVIOUS
<1>1. log \in Seq(Int)
  BY AppendProperties DEF CaseOK, CaseType, CasesOK
<1>2. /\ q \in CaseType /\ q.govStage = r.govStage /\ q.status = r.status /\ q.due = r.due
      /\ q.events = r.events
  BY <1>1 DEF CaseOK, CaseType
<1> QED
  BY <1>2 DEF CaseOK

LEMMA AttachedIsOK ==
  ASSUME CasesOK, NEW c \in DOMAIN cases
  PROVE  CaseOK(c, [Recorded(cases[c], <<"DOCUMENT_ADDED">>) EXCEPT
                      !.docs = Append(@, Doc("RESPONSE_DOCUMENT", now)),
                      !.audit = Append(@, now)])
<1> PICK types : types = <<"DOCUMENT_ADDED">>
  OBVIOUS
<1> PICK r : r = Recorded(cases[c], types)
  OBVIOUS
<1> PICK doc : doc = Doc("RESPONSE_DOCUMENT", now)
  OBVIOUS
<1> PICK docs : docs = Append(r.docs, doc)
  OBVIOUS
<1> PICK q : q = [r EXCEPT !.docs = docs]
  OBVIOUS
<1>1. types \in Seq(EventTypes) /\ \A i \in 1..Len(types) : types[i] # "RESPONSE_RECEIVED"
  BY DEF EventTypes
<1>2. CaseOK(c, r)
  BY <1>1, RecordedKeeps DEF CasesOK
<1>3. doc \in DocRecord
  BY DEF Doc, DocRecord, DocKinds, CasesOK
<1>4. docs \in Seq(DocRecord)
  BY <1>2, <1>3, AppendProperties DEF CaseOK, CaseType
<1>5. /\ q \in CaseType /\ q.govStage = r.govStage /\ q.status = r.status /\ q.due = r.due
      /\ q.events = r.events /\ q.audit = r.audit
  BY <1>2, <1>4 DEF CaseOK, CaseType
<1>6. CaseOK(c, q)
  BY <1>2, <1>5 DEF CaseOK
<1>7. CaseOK(c, [q EXCEPT !.audit = Append(@, now)])
  BY <1>6, OpenedIsOK
<1>8. [q EXCEPT !.audit = Append(@, now)]
        = [r EXCEPT !.docs = Append(@, doc), !.audit = Append(@, now)]
  BY <1>5
<1> QED
  BY <1>7, <1>8

LEMMA WorkKeeps == CasesOK /\ Work => CasesOK' /\ DOMAIN cases \subseteq DOMAIN cases' /\ UNCHANGED tab
<1> SUFFICES ASSUME CasesOK, Work
             PROVE  CasesOK' /\ DOMAIN cases \subseteq DOMAIN cases' /\ UNCHANGED tab
  OBVIOUS
<1>1. ASSUME NEW c \in Ids, CreateRequest(c)
      PROVE  CasesOK' /\ DOMAIN cases \subseteq DOMAIN cases' /\ UNCHANGED tab
  <2>1. Write(c, NewCase("MHUA")) /\ c \notin SeedIds
    BY <1>1 DEF CreateRequest
  <2> QED
    BY <2>1, NewCaseIsOK, WriteKeeps DEF Write
<1>2. ASSUME NEW c \in DOMAIN cases, FileFirstAppeal(c)
      PROVE  CasesOK' /\ DOMAIN cases \subseteq DOMAIN cases' /\ UNCHANGED tab
  <2>1. IsOverdue(cases[c])
    <3>1. CaseLegalTab(c).canAppeal
      BY <1>2 DEF FileFirstAppeal
    <3> QED
      BY <3>1, Zenon DEF CaseLegalTab
  <2>2. Write(c, Recorded([cases[c] EXCEPT !.status = "FIRST_APPEAL"],
                       <<"APPEAL_PREPARED", "APPEAL_SUBMITTED">>))
    BY <1>2 DEF FileFirstAppeal
  <2> QED
    BY <2>1, <2>2, AppealIsOK, WriteKeeps DEF Write
<1>3. ASSUME NEW c \in DOMAIN cases, AdvanceStage(c)
      PROVE  CasesOK' /\ DOMAIN cases \subseteq DOMAIN cases' /\ UNCHANGED tab
  <2>1. PICK next \in NextGovStage(cases[c].govStage) : Write(c, Advanced(cases[c], next))
    BY <1>3 DEF AdvanceStage, GovResponseTab
  <2> QED
    BY <2>1, AdvancedIsOK, WriteKeeps DEF Write
<1>4. ASSUME NEW c \in DOMAIN cases, AttachDocument(c)
      PROVE  CasesOK' /\ DOMAIN cases \subseteq DOMAIN cases' /\ UNCHANGED tab
  BY <1>4, AttachedIsOK, WriteKeeps DEF AttachDocument, Write
<1>5. ASSUME NEW c \in DOMAIN cases, OpenGovCase(c)
      PROVE  CasesOK' /\ DOMAIN cases \subseteq DOMAIN cases' /\ UNCHANGED tab
  <2>1. CaseOK(c, [cases[c] EXCEPT !.audit = Append(@, now)])
    BY OpenedIsOK DEF CasesOK
  <2> QED
    BY <1>5, <2>1, WriteKeeps DEF OpenGovCase, Write
<1> QED
  BY <1>1, <1>2, <1>3, <1>4, <1>5 DEF Work
\* No operation moves the due date of a case.
LEMMA WorkKeepsDue ==
  ASSUME CasesOK, Work
  PROVE  now' = now /\ \A d \in DOMAIN cases : cases'[d].due = cases[d].due
<1>1. ASSUME NEW c, NEW r, Write(c, r), c \in DOMAIN cases => r.due = cases[c].due
      PROVE  now' = now /\ \A d \in DOMAIN cases : cases'[d].due = cases[d].due
  BY <1>1 DEF Write
<1>2. ASSUME NEW c \in Ids, CreateRequest(c)
      PROVE  now' = now /\ \A d \in DOMAIN cases : cases'[d].due = cases[d].due
  BY <1>1, <1>2 DEF CreateRequest
<1>3. ASSUME NEW r, "due" \in DOMAIN r, NEW types
      PROVE  Recorded(r, types).due = r.due /\ "due" \in DOMAIN Recorded(r, types)
  BY <1>3 DEF Recorded
<1>4. ASSUME NEW c \in DOMAIN cases PROVE "due" \in DOMAIN cases[c]
  BY DEF CasesOK, CaseOK, CaseType
<1>5. ASSUME NEW c \in DOMAIN cases, FileFirstAppeal(c)
      PROVE  now' = now /\ \A d \in DOMAIN cases : cases'[d].due = cases[d].due
  <2> PICK r : r = [cases[c] EXCEPT !.status = "FIRST_APPEAL"]
    OBVIOUS
  <2> PICK types : types = <<"APPEAL_PREPARED", "APPEAL_SUBMITTED">>
    OBVIOUS
  <2>1. r.due = cases[c].due /\ "due" \in DOMAIN r
    BY <1>4
  <2>2. Write(c, Recorded(r, types))
    BY <1>5 DEF FileFirstAppeal
  <2> QED
    BY <1>1, <1>3, <2>1, <2>2
<1>6. ASSUME NEW c \in DOMAIN cases, AdvanceStage(c)
      PROVE  now' = now /\ \A d \in DOMAIN cases : cases'[d].due = cases[d].due
  <2>1. PICK next : Write(c, Advanced(cases[c], next))
    BY <1>6 DEF AdvanceStage
  <2>2. Advanced(cases[c], next).due = cases[c].due
    <3> PICK r : r = [cases[c] EXCEPT !.govStage = next]
      OBVIOUS
    <3> PICK q : q = [cases[c] EXCEPT !.govStage = next, !.status = "RESPONSE_RELEASED"]
      OBVIOUS
    <3>1. r.due = cases[c].due /\ "due" \in DOMAIN r /\ q.due = cases[c].due /\ "due" \in DOMAIN q
      BY <1>4
    <3>2. \/ Advanced(cases[c], next) = Recorded(q, <<"GOV_STAGE_CHANGED", "RESPONSE_RECEIVED">>)
          \/ Advanced(cases[c], next) = Recorded(r, <<"GOV_STAGE_CHANGED">>)
      BY DEF Advanced
    <3>3. \A types : Recorded(q, types).due = q.due
      BY <1>3, <3>1
    <3>4. \A types : Recorded(r, types).due = r.due
      BY <1>3, <3>1
    <3> QED
      BY <3>1, <3>2, <3>3, <3>4
  <2> QED
    BY <1>1, <2>1, <2>2
<1>7. ASSUME NEW c \in DOMAIN cases, AttachDocument(c)
      PROVE  now' = now /\ \A d \in DOMAIN cases : cases'[d].due = cases[d].due
  <2> PICK r : r = Recorded(cases[c], <<"DOCUMENT_ADDED">>)
    OBVIOUS
  <2> PICK q : q = [r EXCEPT !.docs = Append(@, Doc("RESPONSE_DOCUMENT", now)),
                             !.audit = Append(@, now)]
    OBVIOUS
  <2>1. r.due = cases[c].due /\ "due" \in DOMAIN r
    BY <1>3, <1>4
  <2>2. q.due = r.due
    BY <2>1
  <2>3. Write(c, q)
    BY <1>7 DEF AttachDocument
  <2> QED
    BY <1>1, <2>1, <2>2, <2>3
<1>8. ASSUME NEW c \in DOMAIN cases, OpenGovCase(c)
      PROVE  now' = now /\ \A d \in DOMAIN cases : cases'[d].due = cases[d].due
  BY <1>1, <1>4, <1>8 DEF OpenGovCase
<1> QED
  BY <1>2, <1>5, <1>6, <1>7, <1>8 DEF Work

-----------------------------------------------------------------------------
(* The seeded cases.                                                       *)

\* The parts a builder gives a case, its filing among the events.
PartsOf(c, authority, status, stage, due, updated, events, docs, audit, checked, versions) ==
  /\ authority \in {"MHUA", "MCD", "DDA", "DoE", "CPWD"}
  /\ status \in Statuses /\ status \in CanBe(c) /\ stage \in GovStage
  /\ stage = "RESPONSE_RELEASED" <=> status = "RESPONSE_RELEASED"
  /\ due \in Int /\ updated \in Int
  /\ status = "OVERDUE" => due + 1 < now
  /\ events \in Seq(EventRecord)
  /\ \E k \in 1..Len(events) : events[k].type = "REQUEST_SUBMITTED"
  /\ ReceivedIn(events) <=> status = "RESPONSE_RELEASED"
  /\ docs \in Seq(DocRecord) /\ audit \in Seq(Int) /\ versions \in Nat
  /\ checked \in SUBSET (ChecklistItems \cup {"requestUnderstood", "recordsIdentified"})

LEMMA SeedCaseIsOK ==
  ASSUME NEW c, NEW authority, NEW status, NEW stage, NEW due, NEW updated, NEW events, NEW docs,
         NEW audit, NEW checked, NEW versions,
         PartsOf(c, authority, status, stage, due, updated, events, docs, audit, checked, versions)
  PROVE  CaseOK(c, SeedCase(authority, status, stage, due, updated, events, docs, audit, checked,
                            versions))
<1> PICK r : r = SeedCase(authority, status, stage, due, updated, events, docs, audit, checked, versions)
  OBVIOUS
<1> PICK e : e = CHOOSE x \in { events[i] : i \in DOMAIN events } : x.type = "REQUEST_SUBMITTED"
  OBVIOUS
<1>1. /\ events \in Seq(EventRecord)
      /\ \E k \in 1..Len(events) : events[k].type = "REQUEST_SUBMITTED"
  BY DEF PartsOf
<1>2. /\ DOMAIN events = 1..Len(events) /\ Len(events) \in Nat
      /\ \A i \in 1..Len(events) : events[i] \in EventRecord
  BY <1>1, LenProperties, ElementOfSeq
<1>3. PICK k \in DOMAIN events : events[k].type = "REQUEST_SUBMITTED"
  BY <1>1, <1>2
<1>4. e \in { events[i] : i \in DOMAIN events }
  BY <1>3, Zenon
<1>5. e \in EventRecord
  BY <1>2, <1>4
<1>6. events[1] \in EventRecord
  <2>1. 1 \in 1..Len(events)
    BY <1>2, <1>3
  <2> QED
    BY <1>2, <2>1
<1> PICK submitted : submitted = e.at
  OBVIOUS
<1> PICK created : created = events[1].at
  OBVIOUS
<1> PICK n : n = Len(events)
  OBVIOUS
<1>7. submitted \in Int /\ created \in Int /\ n \in Nat
  BY <1>2, <1>5, <1>6 DEF EventRecord
<1>8. r = [ authority |-> authority, status |-> status, govStage |-> stage, due |-> due,
    submitted |-> submitted, created |-> created, updated |-> updated, events |-> events,
    docs |-> docs, audit |-> audit, checked |-> checked, versions |-> versions, trailVersion |-> n ]
  BY DEF SeedCase
<1>9. r.status = status /\ r.govStage = stage /\ r.due = due /\ r.events = events
  BY ONLY <1>8
<1>10. /\ authority \in {"MHUA", "MCD", "DDA", "DoE", "CPWD"} /\ status \in Statuses
       /\ stage \in GovStage /\ due \in Int /\ updated \in Int /\ events \in Seq(EventRecord)
       /\ docs \in Seq(DocRecord) /\ audit \in Seq(Int) /\ versions \in Nat
       /\ checked \in SUBSET (ChecklistItems \cup {"requestUnderstood", "recordsIdentified"})
  BY DEF PartsOf
<1>11. r \in CaseType
  BY ONLY <1>7, <1>8, <1>10, SMTT(60) DEF CaseType
<1> QED
  BY <1>9, <1>11 DEF CaseOK, PartsOf

LEMMA DocsAre ==
  ASSUME NEW kind \in DocKinds, NEW at \in Int
  PROVE  Doc(kind, at) \in DocRecord
BY DEF Doc, DocRecord

LEMMA SeedAIsOK == ASSUME CasesOK PROVE CaseOK("A", BuildCaseA(now))
<1> PICK at : at = now
  OBVIOUS
<1>1. at \in Int
  BY DEF CasesOK
<1> DEFINE Ago(n) == at - Days(n)
<1>2. \A n \in Int : Ago(n) \in Int
  BY <1>1 DEF Days
<1> HIDE DEF Ago
<1> PICK e1 : e1 = Ev("REQUEST_CREATED", Ago(36))
  OBVIOUS
<1> PICK e2 : e2 = Ev("REQUEST_REVISED", Ago(36))
  OBVIOUS
<1> PICK e3 : e3 = Ev("REQUEST_SUBMITTED", Ago(35))
  OBVIOUS
<1> PICK e4 : e4 = Ev("REQUEST_ACKNOWLEDGED", Ago(34))
  OBVIOUS
<1> PICK e5 : e5 = Ev("REQUEST_FORWARDED", Ago(32))
  OBVIOUS
<1> PICK e6 : e6 = Ev("RESPONSE_RECEIVED", Ago(7))
  OBVIOUS
<1> PICK e7 : e7 = Ev("RESPONSE_VERIFIED", Ago(6))
  OBVIOUS
<1> PICK d1 : d1 = Doc("RECEIPT", Ago(35))
  OBVIOUS
<1> PICK d2 : d2 = Doc("FORWARDING_NOTICE", Ago(32))
  OBVIOUS
<1> PICK d3 : d3 = Doc("RESPONSE_DOCUMENT", Ago(7))
  OBVIOUS
<1>3. /\ e1 \in EventRecord /\ e1.type = "REQUEST_CREATED"
      /\ e2 \in EventRecord /\ e2.type = "REQUEST_REVISED"
      /\ e3 \in EventRecord /\ e3.type = "REQUEST_SUBMITTED"
      /\ e4 \in EventRecord /\ e4.type = "REQUEST_ACKNOWLEDGED"
      /\ e5 \in EventRecord /\ e5.type = "REQUEST_FORWARDED"
      /\ e6 \in EventRecord /\ e6.type = "RESPONSE_RECEIVED"
      /\ e7 \in EventRecord /\ e7.type = "RESPONSE_VERIFIED"
  BY <1>2, EventsAre DEF EventTypes
<1>4. d1 \in DocRecord /\ d2 \in DocRecord /\ d3 \in DocRecord
  BY <1>2, DocsAre DEF DocKinds
<1> PICK events : events = <<e1, e2, e3, e4, e5, e6, e7>>
  OBVIOUS
<1> PICK docs : docs = <<d1, d2, d3>>
  OBVIOUS
<1> PICK audit : audit = <<Ago(9), Ago(7), Ago(7)>>
  OBVIOUS
<1>5. /\ events \in Seq(EventRecord) /\ Len(events) = 7
      /\ events[1] = e1 /\ events[2] = e2 /\ events[3] = e3 /\ events[4] = e4
      /\ events[5] = e5 /\ events[6] = e6 /\ events[7] = e7
  BY ONLY <1>3, events = <<e1, e2, e3, e4, e5, e6, e7>>
<1>6. /\ \E k \in 1..Len(events) : events[k].type = "REQUEST_SUBMITTED"
      /\ ReceivedIn(events)
  BY <1>3, <1>5 DEF ReceivedIn
<1>7. docs \in Seq(DocRecord) /\ audit \in Seq(Int)
  BY <1>2, <1>4
<1>8. PartsOf("A", "MCD", "RESPONSE_RELEASED", "RESPONSE_RELEASED", Ago(5), Ago(6), events,
              docs, audit, ChecklistItems, 3)
  BY <1>2, <1>5, <1>6, <1>7, StagesAre DEF PartsOf, CanBe, Statuses
<1>9. CaseOK("A", SeedCase("MCD", "RESPONSE_RELEASED", "RESPONSE_RELEASED", Ago(5), Ago(6), events,
                           docs, audit, ChecklistItems, 3))
  BY ONLY <1>8, SeedCaseIsOK
<1> QED
  BY <1>9 DEF BuildCaseA, Ago

LEMMA SeedBIsOK == ASSUME CasesOK PROVE CaseOK("B", BuildCaseB(now))
<1> PICK at : at = now
  OBVIOUS
<1>1. at \in Int
  BY DEF CasesOK
<1> DEFINE Ago(n) == at - Days(n)
<1>2. \A n \in Int : Ago(n) \in Int
  BY <1>1 DEF Days
<1> HIDE DEF Ago
<1> PICK e1 : e1 = Ev("REQUEST_CREATED", Ago(49))
  OBVIOUS
<1> PICK e2 : e2 = Ev("REQUEST_SUBMITTED", Ago(48))
  OBVIOUS
<1> PICK e3 : e3 = Ev("REQUEST_ACKNOWLEDGED", Ago(46))
  OBVIOUS
<1> PICK e4 : e4 = Ev("DEADLINE_MISSED", Ago(18))
  OBVIOUS
<1> PICK d1 : d1 = Doc("RECEIPT", Ago(48))
  OBVIOUS
<1> PICK d2 : d2 = Doc("ACKNOWLEDGEMENT", Ago(46))
  OBVIOUS
<1>3. /\ e1 \in EventRecord /\ e1.type = "REQUEST_CREATED"
      /\ e2 \in EventRecord /\ e2.type = "REQUEST_SUBMITTED"
      /\ e3 \in EventRecord /\ e3.type = "REQUEST_ACKNOWLEDGED"
      /\ e4 \in EventRecord /\ e4.type = "DEADLINE_MISSED"
  BY <1>2, EventsAre DEF EventTypes
<1>4. d1 \in DocRecord /\ d2 \in DocRecord
  BY <1>2, DocsAre DEF DocKinds
<1> PICK events : events = <<e1, e2, e3, e4>>
  OBVIOUS
<1> PICK docs : docs = <<d1, d2>>
  OBVIOUS
<1> PICK audit : audit = <<Ago(18)>>
  OBVIOUS
<1>5. /\ events \in Seq(EventRecord) /\ Len(events) = 4
      /\ events[1] = e1 /\ events[2] = e2
      /\ events[3] = e3 /\ events[4] = e4
  BY ONLY <1>3, events = <<e1, e2, e3, e4>>
<1>6. /\ \E k \in 1..Len(events) : events[k].type = "REQUEST_SUBMITTED"
      /\ ~ReceivedIn(events)
  BY <1>3, <1>5 DEF ReceivedIn
<1>7. docs \in Seq(DocRecord) /\ audit \in Seq(Int)
  BY <1>2, <1>4
<1>8. PartsOf("B", "MCD", "OVERDUE", "UNDER_REVIEW", Ago(18), Ago(18), events,
              docs, audit, {"requestUnderstood"}, 1)
  BY <1>2, <1>5, <1>6, <1>7, <1>1, StagesAre DEF PartsOf, CanBe, Statuses, Ago, Days
<1>9. CaseOK("B", SeedCase("MCD", "OVERDUE", "UNDER_REVIEW", Ago(18), Ago(18), events,
                           docs, audit, {"requestUnderstood"}, 1))
  BY ONLY <1>8, SeedCaseIsOK
<1> QED
  BY <1>9 DEF BuildCaseB, Ago

LEMMA SeedCIsOK == ASSUME CasesOK PROVE CaseOK("C", BuildCaseC(now))
<1> PICK at : at = now
  OBVIOUS
<1>1. at \in Int
  BY DEF CasesOK
<1> DEFINE Ago(n) == at - Days(n)
<1>2. \A n \in Int : Ago(n) \in Int
  BY <1>1 DEF Days
<1> HIDE DEF Ago
<1> PICK e1 : e1 = Ev("REQUEST_CREATED", Ago(28))
  OBVIOUS
<1> PICK e2 : e2 = Ev("REQUEST_SUBMITTED", Ago(27))
  OBVIOUS
<1> PICK e3 : e3 = Ev("REQUEST_ACKNOWLEDGED", Ago(25))
  OBVIOUS
<1> PICK e4 : e4 = Ev("REQUEST_FORWARDED", Ago(20))
  OBVIOUS
<1> PICK d1 : d1 = Doc("RECEIPT", Ago(27))
  OBVIOUS
<1> PICK d2 : d2 = Doc("FORWARDING_NOTICE", Ago(20))
  OBVIOUS
<1>3. /\ e1 \in EventRecord /\ e1.type = "REQUEST_CREATED"
      /\ e2 \in EventRecord /\ e2.type = "REQUEST_SUBMITTED"
      /\ e3 \in EventRecord /\ e3.type = "REQUEST_ACKNOWLEDGED"
      /\ e4 \in EventRecord /\ e4.type = "REQUEST_FORWARDED"
  BY <1>2, EventsAre DEF EventTypes
<1>4. d1 \in DocRecord /\ d2 \in DocRecord
  BY <1>2, DocsAre DEF DocKinds
<1> PICK events : events = <<e1, e2, e3, e4>>
  OBVIOUS
<1> PICK docs : docs = <<d1, d2>>
  OBVIOUS
<1> PICK audit : audit = <<Ago(21), Ago(19)>>
  OBVIOUS
<1>5. /\ events \in Seq(EventRecord) /\ Len(events) = 4
      /\ events[1] = e1 /\ events[2] = e2
      /\ events[3] = e3 /\ events[4] = e4
  BY ONLY <1>3, events = <<e1, e2, e3, e4>>
<1>6. /\ \E k \in 1..Len(events) : events[k].type = "REQUEST_SUBMITTED"
      /\ ~ReceivedIn(events)
  BY <1>3, <1>5 DEF ReceivedIn
<1>7. docs \in Seq(DocRecord) /\ audit \in Seq(Int)
  BY <1>2, <1>4
<1>8. PartsOf("C", "DDA", "UNDER_REVIEW", "INFO_LOCATED", at + Days(3), Ago(20), events,
              docs, audit, {"requestUnderstood", "recordsIdentified"}, 1)
  BY <1>2, <1>5, <1>6, <1>7, <1>1, StagesAre DEF PartsOf, CanBe, Statuses, Days
<1>9. CaseOK("C", SeedCase("DDA", "UNDER_REVIEW", "INFO_LOCATED", at + Days(3), Ago(20), events,
                           docs, audit, {"requestUnderstood", "recordsIdentified"}, 1))
  BY ONLY <1>8, SeedCaseIsOK
<1> QED
  BY <1>9 DEF BuildCaseC, Ago

LEMMA SeedDIsOK == ASSUME CasesOK PROVE CaseOK("D", BuildCaseD(now))
<1> PICK at : at = now
  OBVIOUS
<1>1. at \in Int
  BY DEF CasesOK
<1> DEFINE Ago(n) == at - Days(n)
<1>2. \A n \in Int : Ago(n) \in Int
  BY <1>1 DEF Days
<1> HIDE DEF Ago
<1> PICK e1 : e1 = Ev("REQUEST_CREATED", Ago(26))
  OBVIOUS
<1> PICK e2 : e2 = Ev("REQUEST_SUBMITTED", Ago(25))
  OBVIOUS
<1> PICK e3 : e3 = Ev("REQUEST_ACKNOWLEDGED", Ago(23))
  OBVIOUS
<1> PICK e4 : e4 = Ev("RESPONSE_RECEIVED", Ago(1))
  OBVIOUS
<1> PICK d1 : d1 = Doc("RECEIPT", Ago(25))
  OBVIOUS
<1> PICK d2 : d2 = Doc("RESPONSE_DOCUMENT", Ago(1))
  OBVIOUS
<1>3. /\ e1 \in EventRecord /\ e1.type = "REQUEST_CREATED"
      /\ e2 \in EventRecord /\ e2.type = "REQUEST_SUBMITTED"
      /\ e3 \in EventRecord /\ e3.type = "REQUEST_ACKNOWLEDGED"
      /\ e4 \in EventRecord /\ e4.type = "RESPONSE_RECEIVED"
  BY <1>2, EventsAre DEF EventTypes
<1>4. d1 \in DocRecord /\ d2 \in DocRecord
  BY <1>2, DocsAre DEF DocKinds
<1> PICK events : events = <<e1, e2, e3, e4>>
  OBVIOUS
<1> PICK docs : docs = <<d1, d2>>
  OBVIOUS
<1> PICK audit : audit = <<Ago(1)>>
  OBVIOUS
<1>5. /\ events \in Seq(EventRecord) /\ Len(events) = 4
      /\ events[1] = e1 /\ events[2] = e2
      /\ events[3] = e3 /\ events[4] = e4
  BY ONLY <1>3, events = <<e1, e2, e3, e4>>
<1>6. /\ \E k \in 1..Len(events) : events[k].type = "REQUEST_SUBMITTED"
      /\ ReceivedIn(events)
  BY <1>3, <1>5 DEF ReceivedIn
<1>7. docs \in Seq(DocRecord) /\ audit \in Seq(Int)
  BY <1>2, <1>4
<1>8. PartsOf("D", "DoE", "RESPONSE_RELEASED", "RESPONSE_RELEASED", Ago(1), Ago(1), events,
              docs, audit, ChecklistItems \ {"exemptionReviewDone"}, 1)
  BY <1>2, <1>5, <1>6, <1>7, StagesAre DEF PartsOf, CanBe, Statuses
<1>9. CaseOK("D", SeedCase("DoE", "RESPONSE_RELEASED", "RESPONSE_RELEASED", Ago(1), Ago(1), events,
                           docs, audit, ChecklistItems \ {"exemptionReviewDone"}, 1))
  BY ONLY <1>8, SeedCaseIsOK
<1> QED
  BY <1>9 DEF BuildCaseD, Ago

LEMMA SeedEIsOK == ASSUME CasesOK PROVE CaseOK("E", BuildCaseE(now))
<1> PICK at : at = now
  OBVIOUS
<1>1. at \in Int
  BY DEF CasesOK
<1> DEFINE Ago(n) == at - Days(n)
<1>2. \A n \in Int : Ago(n) \in Int
  BY <1>1 DEF Days
<1> HIDE DEF Ago
<1> PICK e1 : e1 = Ev("REQUEST_CREATED", Ago(66))
  OBVIOUS
<1> PICK e2 : e2 = Ev("REQUEST_SUBMITTED", Ago(65))
  OBVIOUS
<1> PICK e3 : e3 = Ev("REQUEST_ACKNOWLEDGED", Ago(63))
  OBVIOUS
<1> PICK e4 : e4 = Ev("DEADLINE_MISSED", Ago(35))
  OBVIOUS
<1> PICK e5 : e5 = Ev("APPEAL_PREPARED", Ago(5))
  OBVIOUS
<1> PICK e6 : e6 = Ev("APPEAL_SUBMITTED", Ago(4))
  OBVIOUS
<1> PICK d1 : d1 = Doc("RECEIPT", Ago(65))
  OBVIOUS
<1> PICK d2 : d2 = Doc("APPEAL_DOCUMENT", Ago(5))
  OBVIOUS
<1>3. /\ e1 \in EventRecord /\ e1.type = "REQUEST_CREATED"
      /\ e2 \in EventRecord /\ e2.type = "REQUEST_SUBMITTED"
      /\ e3 \in EventRecord /\ e3.type = "REQUEST_ACKNOWLEDGED"
      /\ e4 \in EventRecord /\ e4.type = "DEADLINE_MISSED"
      /\ e5 \in EventRecord /\ e5.type = "APPEAL_PREPARED"
      /\ e6 \in EventRecord /\ e6.type = "APPEAL_SUBMITTED"
  BY <1>2, EventsAre DEF EventTypes
<1>4. d1 \in DocRecord /\ d2 \in DocRecord
  BY <1>2, DocsAre DEF DocKinds
<1> PICK events : events = <<e1, e2, e3, e4, e5, e6>>
  OBVIOUS
<1> PICK docs : docs = <<d1, d2>>
  OBVIOUS
<1> PICK audit : audit = <<Ago(35)>>
  OBVIOUS
<1>5. /\ events \in Seq(EventRecord) /\ Len(events) = 6
      /\ events[1] = e1 /\ events[2] = e2 /\ events[3] = e3
      /\ events[4] = e4 /\ events[5] = e5 /\ events[6] = e6
  BY ONLY <1>3, events = <<e1, e2, e3, e4, e5, e6>>
<1>6. /\ \E k \in 1..Len(events) : events[k].type = "REQUEST_SUBMITTED"
      /\ ~ReceivedIn(events)
  BY <1>3, <1>5 DEF ReceivedIn
<1>7. docs \in Seq(DocRecord) /\ audit \in Seq(Int)
  BY <1>2, <1>4
<1>8. PartsOf("E", "CPWD", "FIRST_APPEAL", "UNDER_REVIEW", Ago(35), Ago(4), events,
              docs, audit, BaseChecklist, 1)
  BY <1>2, <1>5, <1>6, <1>7, StagesAre DEF PartsOf, CanBe, Statuses, BaseChecklist
<1>9. CaseOK("E", SeedCase("CPWD", "FIRST_APPEAL", "UNDER_REVIEW", Ago(35), Ago(4), events,
                           docs, audit, BaseChecklist, 1))
  BY ONLY <1>8, SeedCaseIsOK
<1> QED
  BY <1>9 DEF BuildCaseE, Ago

LEMMA SeedsAreOK ==
  ASSUME CasesOK, NEW c \in SeedIds
  PROVE  CaseOK(c, Seeds(now)[c])
BY SeedAIsOK, SeedBIsOK, SeedCIsOK, SeedDIsOK, SeedEIsOK DEF Seeds, SeedIds

\* A finished load puts the five cases back to where the demo starts them.
LEMMA LoadKeeps ==
  ASSUME CasesOK, NEW load, FinishLoad(load)
  PROVE  CasesOK'
<1>1. CASE ~load.build
  BY <1>1 DEF FinishLoad, CasesOK, CaseOK
<1>2. CASE load.build
  <2>1. /\ DOMAIN cases' = DOMAIN cases \cup SeedIds /\ now' = now
        /\ \A c \in DOMAIN cases' : cases'[c] = IF c \in SeedIds THEN Seeds(now)[c] ELSE cases[c]
    BY <1>2 DEF FinishLoad
  <2>2. IsFiniteSet(SeedIds)
    <3>1. SeedIds = (((({} \cup {"A"}) \cup {"B"}) \cup {"C"}) \cup {"D"}) \cup {"E"}
      BY DEF SeedIds
    <3> QED
      BY <3>1, FS_EmptySet, FS_AddElement
  <2>3. IsFiniteSet(DOMAIN cases')
    BY <2>1, <2>2, FS_Union DEF CasesOK
  <2>4. ASSUME NEW c \in DOMAIN cases' PROVE CaseOK(c, cases[c])'
    <3>1. CaseOK(c, cases'[c])
      BY <2>1, SeedsAreOK DEF CasesOK
    <3> QED
      BY <2>1, <3>1 DEF CaseOK
  <2> QED
    BY <2>1, <2>3, <2>4 DEF CasesOK
<1> QED
  BY <1>1, <1>2

LEMMA VisitKeeps == CasesOK /\ Visit => CasesOK'
<1> SUFFICES ASSUME CasesOK, Visit PROVE CasesOK'
  OBVIOUS
<1>1. now' = now /\ (cases' = cases \/ cases' = <<>>)
  BY DEF Visit, OpenApp, CloseApp, FollowLink, TurnGate, SignIn, EnterDemo, LoadInSettings,
         LogOut, ClearWorkspaceAndLeave
<1>2. CASE cases' = cases
  BY <1>1, <1>2 DEF CasesOK, CaseOK
<1>3. CASE cases' = <<>>
  <2>1. DOMAIN cases' = {}
    BY <1>3
  <2> QED
    BY <1>1, <2>1, FS_EmptySet DEF CasesOK
<1> QED
  BY <1>1, <1>2, <1>3

LEMMA TickKeeps == CasesOK /\ Tick => CasesOK'
<1> SUFFICES ASSUME CasesOK, Tick PROVE CasesOK'
  OBVIOUS
<1>1. cases' = cases /\ now \in Nat /\ now' = now + 1
  BY DEF Tick, CasesOK
<1>2. ASSUME NEW c \in DOMAIN cases PROVE CaseOK(c, cases[c])'
  <2>1. CaseOK(c, cases[c]) /\ cases[c].due \in Int
    BY DEF CasesOK, CaseOK, CaseType
  <2> QED
    BY <1>1, <2>1 DEF CaseOK
<1> QED
  BY <1>1, <1>2 DEF CasesOK

LEMMA InvInit == Init => IInv
<1> SUFFICES ASSUME Init PROVE IInv
  OBVIOUS
<1>1. DOMAIN cases = {} /\ now = 0
  BY DEF Init
<1>2. CasesOK
  BY <1>1, FS_EmptySet DEF CasesOK
<1>3. session = NoSession /\ demo = FALSE /\ screen = "closed" /\ pending = {}
  BY DEF Init
<1>4. session \in [role : Role \cup {"NONE"}, demo : BOOLEAN]
  BY <1>3 DEF NoSession
<1>5. TabOK
  BY <1>3, <1>4 DEF TabOK
<1> QED
  BY <1>2, <1>5 DEF IInv

LEMMA InvNext == IInv /\ [Next]_vars => IInv'
<1> SUFFICES ASSUME CasesOK, TabOK, [Next]_vars PROVE CasesOK' /\ TabOK'
  BY DEF IInv
<1>1. CASE Visit
  BY <1>1, VisitKeeps, VisitTab
<1>2. CASE Work
  BY <1>2, WorkKeeps, WorkTab
<1>3. CASE Loads
  BY <1>3, LoadKeeps, LoadsTab DEF Loads
<1>4. CASE Tick
  BY <1>4, TickKeeps, WorkTab DEF Tick
<1>5. CASE UNCHANGED vars
  <2>1. UNCHANGED tab /\ cases' = cases /\ now' = now
    BY <1>5 DEF vars, tab
  <2> QED
    BY <2>1, WorkTab DEF CasesOK, CaseOK
<1> QED
  BY <1>1, <1>2, <1>3, <1>4, <1>5 DEF Next

LEMMA Invariant == Spec => []IInv
BY InvInit, InvNext, PTL DEF Spec
-----------------------------------------------------------------------------
(* What the lists of the screens come to, case by case.                    *)

\* A case of the store: its status, its stage and the days that remain.
LEMMA CaseIs ==
  ASSUME CasesOK, NEW c \in DOMAIN cases
  PROVE  /\ CaseOK(c, cases[c]) /\ Status(c) = cases[c].status /\ Status(c) \in Statuses
         /\ cases[c].govStage \in GovStage /\ DaysRemainingFor(c) \in Int
         /\ cases[c].govStage = "RESPONSE_RELEASED" <=> Status(c) = "RESPONSE_RELEASED"
         /\ Answered(c) <=> Status(c) = "RESPONSE_RELEASED"
         /\ Status(c) = "OVERDUE" => DaysRemainingFor(c) < 0
<1>1. CaseOK(c, cases[c]) /\ Status(c) = cases[c].status
  BY DEF CasesOK, Status
<1>2. /\ cases[c].govStage \in GovStage /\ Status(c) \in Statuses /\ cases[c].due \in Int
      /\ cases[c].events \in Seq(EventRecord)
  BY <1>1 DEF CaseOK, CaseType
<1>3. now \in Int
  BY DEF CasesOK
<1>4. DaysRemainingFor(c) \in Int
  BY <1>2, <1>3 DEF DaysRemainingFor
<1>5. Status(c) = "OVERDUE" => DaysRemainingFor(c) < 0
  BY <1>1, <1>2, <1>3 DEF DaysRemainingFor, CaseOK
<1>6. Answered(c) <=> ReceivedIn(cases[c].events)
  <2>1. DOMAIN cases[c].events = 1..Len(cases[c].events)
    BY <1>2, LenProperties
  <2> QED
    BY <2>1 DEF Answered, Types, ReceivedIn
<1> QED
  BY <1>1, <1>2, <1>4, <1>5, <1>6 DEF CaseOK

LEMMA ListsAre ==
  ASSUME CasesOK
  PROVE  /\ Overdue = { c \in DOMAIN cases : Status(c) = "OVERDUE" }
         /\ Appeals = { c \in DOMAIN cases : Status(c) = "FIRST_APPEAL" }
         /\ Responded = { c \in DOMAIN cases : Status(c) = "RESPONSE_RELEASED" }
         /\ Active = { c \in DOMAIN cases : Status(c) \in {"SUBMITTED", "UNDER_REVIEW", "OVERDUE"} }
         /\ OnClock = { c \in DOMAIN cases : Status(c) # "RESPONSE_RELEASED" }
         /\ WithClock = DOMAIN cases
         /\ DueSoon = { c \in DOMAIN cases : Status(c) \in {"SUBMITTED", "UNDER_REVIEW"}
                                               /\ DaysRemainingFor(c) \in 0..5 }
         /\ LapsedUnmarked = { c \in DOMAIN cases : Status(c) \in {"SUBMITTED", "UNDER_REVIEW"}
                                                      /\ DaysRemainingFor(c) < 0 }
<1>1. \A c \in DOMAIN cases : Status(c) = cases[c].status /\ Status(c) \in Statuses
  BY CaseIs
<1>2. Overdue = { c \in DOMAIN cases : Status(c) = "OVERDUE" }
  BY <1>1 DEF Overdue, Where, IsOverdue
<1>3. Appeals = { c \in DOMAIN cases : Status(c) = "FIRST_APPEAL" }
  BY <1>1 DEF Appeals, Where, IsAppeal, Statuses
<1>4. Responded = { c \in DOMAIN cases : Status(c) = "RESPONSE_RELEASED" }
  BY DEF Responded
<1>5. Active = { c \in DOMAIN cases : Status(c) \in {"SUBMITTED", "UNDER_REVIEW", "OVERDUE"} }
  BY <1>1 DEF Active, Where, IsActive, IsAppeal, IsResolved, Statuses
<1>6. OnClock = { c \in DOMAIN cases : Status(c) # "RESPONSE_RELEASED" }
  BY <1>1 DEF OnClock, Where, IsResolved, Statuses
<1>7. WithClock = DOMAIN cases
  BY <1>1 DEF WithClock, Where, Statuses
<1>8. DueSoon = { c \in DOMAIN cases : Status(c) \in {"SUBMITTED", "UNDER_REVIEW"}
                                         /\ DaysRemainingFor(c) \in 0..5 }
  BY <1>1, <1>2, <1>3 DEF DueSoon, IsResolved, Statuses
<1>9. LapsedUnmarked = { c \in DOMAIN cases : Status(c) \in {"SUBMITTED", "UNDER_REVIEW"}
                                                /\ DaysRemainingFor(c) < 0 }
  BY <1>1 DEF LapsedUnmarked, IsActive, IsOverdue, IsAppeal, IsResolved, Statuses
<1> QED
  BY <1>2, <1>3, <1>4, <1>5, <1>6, <1>7, <1>8, <1>9

\* The case list of the citizen.
LEMMA MyCasesAre ==
  ASSUME CasesOK
  PROVE  /\ MyCasesPage.active = { c \in DOMAIN cases : Status(c) # "RESPONSE_RELEASED" }
         /\ MyCasesPage.awaiting = { c \in DOMAIN cases : Status(c) \in {"SUBMITTED", "UNDER_REVIEW"} }
         /\ MyCasesPage.overdue = Overdue /\ MyCasesPage.responded = Responded
         /\ MyCasesPage.appeals = Appeals
<1>1. \A c \in DOMAIN cases : Status(c) = cases[c].status /\ Status(c) \in Statuses
  BY CaseIs
<1>2. MyCasesPage.active = Where(LAMBDA r : ~IsResolved(r))
  BY DEF MyCasesPage
<1>3. MyCasesPage.awaiting = Where(LAMBDA r : r.status \in
        {"SUBMITTED", "ACKNOWLEDGED", "FORWARDED", "UNDER_REVIEW", "RESPONSE_DRAFTED"})
  BY DEF MyCasesPage
<1>4. MyCasesPage.overdue = Overdue /\ MyCasesPage.responded = Responded /\ MyCasesPage.appeals = Appeals
  BY DEF MyCasesPage
<1> QED
  BY <1>1, <1>2, <1>3, <1>4 DEF Where, IsResolved, Statuses

\* The lists of the other pages the properties speak of.
LEMMA PagesAre ==
  /\ DeadlinesPage.overdue = Overdue /\ DeadlinesPage.dueSoon = DueSoon
  /\ DeadlinesPage.onTrack = { c \in WithClock : Status(c) # "OVERDUE" /\ DaysRemainingFor(c) > 5 }
  /\ DeadlinesPage.rows = [c \in WithClock |-> [action |-> ComputeNextAction(c), tone |-> Tone(c)]]
  /\ GovDeadlinesPage.overdue = { c \in OnClock : DaysRemainingFor(c) < 0 }
  /\ GovDeadlinesPage.thisWeek = { c \in OnClock : DaysRemainingFor(c) \in 0..5 }
  /\ GovDeadlinesPage.later = { c \in OnClock : DaysRemainingFor(c) > 5 }
  /\ GovDeadlinesPage.appealEligible = GovDeadlinesPage.overdue /\ GovDeadlinesPage.appeals = Appeals
  /\ GovAppealsPage.eligible = Overdue /\ GovAppealsPage.listed = Appeals
  /\ GovAppealsPage.first = { c \in Appeals : Status(c) = "FIRST_APPEAL" }
  /\ GovAppealsPage.second = { c \in Appeals : Status(c) = "SECOND_APPEAL" }
  /\ GovOperationsPage.queue = NeedsAttention /\ GovOperationsPage.awaiting = AwaitingReview
  /\ GovOperationsPage.overdue = Overdue /\ GovOperationsPage.dueSoon = DueSoon
  /\ GovOperationsPage.open = Cardinality(Active) + Cardinality(Appeals)
  /\ GovOperationsPage.activity = RecentActivity(DOMAIN cases, 7)
  /\ CitizenOverviewPage.activity = RecentActivity(CitizenCases, 6)
  /\ CitizenOverviewPage.upcoming = DueSoon /\ CitizenOverviewPage.active = Active
  /\ CitizenOverviewPage.attention = [c \in NeedsAttention |-> ComputeNextAction(c)]
  /\ GovCaseQueuePage.RESPONSE_RELEASED = Responded
  /\ GovCaseQueuePage.URGENT = { c \in DOMAIN cases : Status(c) \in {"OVERDUE", "FIRST_APPEAL"}
                                                        \/ DaysRemainingFor(c) \in 0..5 }
  /\ ResponseReviewPage.released = AtStage({"RESPONSE_RELEASED"})
  /\ ResponseReviewPage.column = [s \in GovStage |-> AtStage({s}) \ Where(LAMBDA r : r.status = "CLOSED")]
<1>1. /\ DeadlinesPage.overdue = Overdue /\ DeadlinesPage.dueSoon = DueSoon
      /\ DeadlinesPage.onTrack = { c \in WithClock : Status(c) # "OVERDUE" /\ DaysRemainingFor(c) > 5 }
      /\ DeadlinesPage.rows = [c \in WithClock |-> [action |-> ComputeNextAction(c), tone |-> Tone(c)]]
  BY DEF DeadlinesPage
<1>2. /\ GovDeadlinesPage.overdue = { c \in OnClock : DaysRemainingFor(c) < 0 }
      /\ GovDeadlinesPage.thisWeek = { c \in OnClock : DaysRemainingFor(c) \in 0..5 }
      /\ GovDeadlinesPage.later = { c \in OnClock : DaysRemainingFor(c) > 5 }
      /\ GovDeadlinesPage.appealEligible = GovDeadlinesPage.overdue
      /\ GovDeadlinesPage.appeals = Appeals
  BY DEF GovDeadlinesPage
<1>3. /\ GovAppealsPage.eligible = Overdue /\ GovAppealsPage.listed = Appeals
      /\ GovAppealsPage.first = { c \in Appeals : Status(c) = "FIRST_APPEAL" }
      /\ GovAppealsPage.second = { c \in Appeals : Status(c) = "SECOND_APPEAL" }
  BY DEF GovAppealsPage
<1>4. /\ GovOperationsPage.queue = NeedsAttention /\ GovOperationsPage.awaiting = AwaitingReview
      /\ GovOperationsPage.overdue = Overdue /\ GovOperationsPage.dueSoon = DueSoon
      /\ GovOperationsPage.open = Cardinality(Active) + Cardinality(Appeals)
      /\ GovOperationsPage.activity = RecentActivity(DOMAIN cases, 7)
  BY DEF GovOperationsPage
<1>5. /\ CitizenOverviewPage.activity = RecentActivity(CitizenCases, 6)
      /\ CitizenOverviewPage.upcoming = DueSoon /\ CitizenOverviewPage.active = Active
      /\ CitizenOverviewPage.attention = [c \in NeedsAttention |-> ComputeNextAction(c)]
  BY DEF CitizenOverviewPage
<1>6. /\ GovCaseQueuePage.RESPONSE_RELEASED = Responded
      /\ GovCaseQueuePage.URGENT = { c \in DOMAIN cases : Status(c) \in {"OVERDUE", "FIRST_APPEAL"}
                                                            \/ DaysRemainingFor(c) \in 0..5 }
  BY DEF GovCaseQueuePage
<1>7. /\ ResponseReviewPage.released = AtStage({"RESPONSE_RELEASED"})
      /\ ResponseReviewPage.column = [s \in GovStage |-> AtStage({s}) \ Where(LAMBDA r : r.status = "CLOSED")]
  BY DEF ResponseReviewPage
<1> QED
  BY <1>1, <1>2, <1>3, <1>4, <1>5, <1>6, <1>7
-----------------------------------------------------------------------------
(* Next actions and rules.                                                 *)

LEMMA RulesAre ==
  /\ LegalRuleForStage("OVERDUE").recommends = "file first appeal"
  /\ LegalRuleForStage("SUBMITTED").recommends = "monitor"
  /\ LegalRuleForStage("RESPONSE_DUE_SOON").recommends = "wait"
  /\ \A stage \in {"SUBMITTED", "RESPONSE_DUE_SOON", "RESPONSE_RECEIVED", "FIRST_APPEAL"} :
       LegalRuleForStage(stage).recommends # "file first appeal"
<1>1. LegalRuleForStage("OVERDUE").recommends = "file first appeal"
  BY DEF LegalRuleForStage, LEGAL_RULES
<1>2. LegalRuleForStage("SUBMITTED").recommends = "monitor"
  BY DEF LegalRuleForStage, LEGAL_RULES
<1>3. LegalRuleForStage("RESPONSE_DUE_SOON").recommends = "wait"
  BY DEF LegalRuleForStage, LEGAL_RULES
<1>4. LegalRuleForStage("RESPONSE_RECEIVED").recommends = "review response"
  BY DEF LegalRuleForStage, LEGAL_RULES
<1>5. LegalRuleForStage("FIRST_APPEAL").recommends = "review draft"
  BY DEF LegalRuleForStage, LEGAL_RULES
<1> QED
  BY <1>1, <1>2, <1>3, <1>4, <1>5

\* The next action of a case, by its status and the days that remain.
LEMMA ActionIs ==
  ASSUME CasesOK, NEW c \in DOMAIN cases
  PROVE  /\ Status(c) = "OVERDUE" <=> ComputeNextAction(c).label = "File First Appeal"
         /\ Status(c) = "RESPONSE_RELEASED" => ComputeNextAction(c).label = "Review response"
         /\ Status(c) \in {"SUBMITTED", "UNDER_REVIEW", "OVERDUE"} /\ DaysRemainingFor(c) < 0
              => ComputeNextAction(c).urgent
<1>1. Status(c) \in Statuses /\ DaysRemainingFor(c) \in Int
  BY CaseIs
<1> PICK days : days = DaysRemainingFor(c)
  OBVIOUS
<1>2. DOMAIN ActionOfStatus = {"FIRST_APPEAL", "SECOND_APPEAL", "OVERDUE", "RESPONSE_RELEASED", "CLOSED"}
  BY DEF ActionOfStatus
<1>3. CASE Status(c) = "OVERDUE"
  <2>1. ComputeNextAction(c) = ActionOfStatus["OVERDUE"]
    BY <1>2, <1>3 DEF ComputeNextAction
  <2>2. ActionOfStatus["OVERDUE"].label = "File First Appeal" /\ ActionOfStatus["OVERDUE"].urgent = TRUE
    BY DEF ActionOfStatus
  <2> QED
    BY <1>3, <2>1, <2>2
<1>4. CASE Status(c) = "RESPONSE_RELEASED"
  <2>1. ComputeNextAction(c) = ActionOfStatus["RESPONSE_RELEASED"]
    BY <1>2, <1>4 DEF ComputeNextAction
  <2>2. ActionOfStatus["RESPONSE_RELEASED"].label = "Review response"
    BY DEF ActionOfStatus
  <2> QED
    BY <1>4, <2>1, <2>2
<1>5. CASE Status(c) = "FIRST_APPEAL"
  <2>1. ComputeNextAction(c) = ActionOfStatus["FIRST_APPEAL"]
    BY <1>2, <1>5 DEF ComputeNextAction
  <2>2. ActionOfStatus["FIRST_APPEAL"].label = "Review First Appeal"
    BY DEF ActionOfStatus
  <2> QED
    BY <1>5, <2>1, <2>2
<1>6. CASE Status(c) \in {"SUBMITTED", "UNDER_REVIEW"}
  <2>1. ComputeNextAction(c) = IF days <= 5 THEN MonitorDeadline(c) ELSE NoActionRequired
    BY <1>2, <1>6 DEF ComputeNextAction
  <2>2. MonitorDeadline(c).label = "Monitor deadline" /\ NoActionRequired.label = "No action required"
    BY Zenon DEF MonitorDeadline, NoActionRequired
  <2>3. ComputeNextAction(c).label # "File First Appeal"
    BY <2>1, <2>2
  <2>4. ASSUME days < 0 PROVE ComputeNextAction(c).urgent
    <3>1. days <= 5 /\ days <= 2
      BY <1>1, <2>4
    <3>2. MonitorDeadline(c).urgent
      BY <3>1, Zenon DEF MonitorDeadline
    <3> QED
      BY <2>1, <3>1, <3>2
  <2> QED
    BY <1>6, <2>3, <2>4
<1> QED
  BY <1>1, <1>3, <1>4, <1>5, <1>6 DEF Statuses
-----------------------------------------------------------------------------
(* Counting.                                                               *)

LEMMA CountApart ==
  ASSUME NEW U, IsFiniteSet(U), NEW S \in SUBSET U, NEW T \in SUBSET U, S \cap T = {}
  PROVE  /\ Cardinality(S) \in Nat /\ Cardinality(T) \in Nat
         /\ Cardinality(S \cup T) = Cardinality(S) + Cardinality(T)
<1>1. IsFiniteSet(S) /\ IsFiniteSet(T)
  BY FS_Subset
<1>2. Cardinality(S) \in Nat /\ Cardinality(T) \in Nat
  BY <1>1, FS_CardinalityType
<1>3. Cardinality(S \cup T) = Cardinality(S) + Cardinality(T) - Cardinality(S \cap T)
  BY <1>1, FS_Union
<1>4. Cardinality(S \cap T) = 0
  BY FS_EmptySet
<1> QED
  BY <1>2, <1>3, <1>4

\* The trails together are finite.
LEMMA EntriesFinite == CasesOK => IsFiniteSet(Entries(DOMAIN cases))
<1> SUFFICES ASSUME CasesOK PROVE IsFiniteSet(Entries(DOMAIN cases))
  OBVIOUS
<1> PICK S : S = DOMAIN cases
  OBVIOUS
<1> PICK T : T = { {c} \X DOMAIN cases[c].events : c \in S }
  OBVIOUS
<1> PICK f : f = [c \in S |-> {c} \X DOMAIN cases[c].events]
  OBVIOUS
<1>1. IsFiniteSet(S)
  BY DEF CasesOK
<1>2. f \in Surjection(S, T)
  BY DEF Surjection
<1>3. IsFiniteSet(T)
  BY <1>1, <1>2, FS_Surjection
<1>4. ASSUME NEW c \in S PROVE IsFiniteSet({c} \X DOMAIN cases[c].events)
  <2> PICK events : events = cases[c].events
    OBVIOUS
  <2>1. events \in Seq(EventRecord)
    BY DEF CasesOK, CaseOK, CaseType
  <2>2. DOMAIN events = 1..Len(events) /\ Len(events) \in Int /\ 1 \in Int
    BY <2>1, LenProperties
  <2>3. IsFiniteSet(1..Len(events)) /\ IsFiniteSet({c})
    BY <2>2, FS_Interval, FS_Singleton
  <2> QED
    BY <2>2, <2>3, FS_Product
<1>5. IsFiniteSet(UNION T)
  BY <1>3, <1>4, FS_UNION
<1> QED
  BY <1>5 DEF Entries

\* The citizen's latest six are among the officer's latest seven.
LEMMA ActivityIsShared == CasesOK => RecentActivity(CitizenCases, 6) \subseteq RecentActivity(DOMAIN cases, 7)
<1> SUFFICES ASSUME CasesOK
             PROVE  RecentActivity(CitizenCases, 6) \subseteq RecentActivity(DOMAIN cases, 7)
  OBVIOUS
<1> PICK all : all = Entries(DOMAIN cases)
  OBVIOUS
<1> DEFINE later(e) == { f \in all : EntryAt(f) > EntryAt(e) }
<1>1. \A e \in all : Cardinality(later(e)) \in Nat
  <2> TAKE e \in all
  <2>1. IsFiniteSet(all) /\ later(e) \in SUBSET all
    BY EntriesFinite
  <2> HIDE DEF later
  <2>2. IsFiniteSet(later(e))
    BY <2>1, FS_Subset
  <2> QED
    BY <2>2, FS_CardinalityType
<1>2. RecentActivity(CitizenCases, 6) = { e \in all : Cardinality(later(e)) < 6 }
  BY DEF RecentActivity, CitizenCases
<1>3. RecentActivity(DOMAIN cases, 7) = { e \in all : Cardinality(later(e)) < 7 }
  BY DEF RecentActivity
<1> HIDE DEF later
<1> QED
  BY <1>1, <1>2, <1>3

LEMMA StagesCounted ==
  ASSUME CasesOK
  PROVE  GovShell.review = Cardinality(ResponseReviewPage.column["UNDER_REVIEW"])
                             + Cardinality(ResponseReviewPage.column["INFO_LOCATED"])
<1> PICK S : S = AtStage({"UNDER_REVIEW"})
  OBVIOUS
<1> PICK T : T = AtStage({"INFO_LOCATED"})
  OBVIOUS
<1>1. Where(LAMBDA r : r.status = "CLOSED") = {}
  <2>1. \A c \in DOMAIN cases : cases[c].status # "CLOSED"
    BY CaseIs DEF Statuses
  <2> QED
    BY <2>1 DEF Where
<1>2. ResponseReviewPage.column["UNDER_REVIEW"] = S /\ ResponseReviewPage.column["INFO_LOCATED"] = T
  <2>1. "UNDER_REVIEW" \in GovStage /\ "INFO_LOCATED" \in GovStage
    BY StagesAre
  <2>2. \A s \in GovStage : ResponseReviewPage.column[s]
                              = AtStage({s}) \ Where(LAMBDA r : r.status = "CLOSED")
    BY PagesAre
  <2> QED
    BY <1>1, <2>1, <2>2
<1>3. AwaitingReview = S \cup T /\ S \cap T = {} /\ S \subseteq DOMAIN cases /\ T \subseteq DOMAIN cases
  BY DEF AwaitingReview, AtStage, Where
<1>4. GovShell.review = Cardinality(AwaitingReview)
  BY Zenon DEF GovShell
<1>5. Cardinality(S \cup T) = Cardinality(S) + Cardinality(T)
  BY <1>3, CountApart DEF CasesOK
<1> QED
  BY <1>2, <1>3, <1>4, <1>5

\* The authorities' cases, one authority and all of them.
LEMMA MetricsAre ==
  ASSUME CasesOK
  PROVE  /\ \A c \in DOMAIN cases :
              /\ cases[c].authority \in DOMAIN ComputeAuthorityMetrics
              /\ c \in ComputeAuthorityMetrics[cases[c].authority].open
                   <=> Status(c) # "RESPONSE_RELEASED"
              /\ c \in ComputeAuthorityMetrics[cases[c].authority].overdue
                   <=> Status(c) \in {"OVERDUE", "FIRST_APPEAL"}
              /\ c \in ComputeAuthorityMetrics[cases[c].authority].dueSoon
                   <=> DaysRemainingFor(c) \in 0..5
         /\ UNION { ComputeAuthorityMetrics[a].open : a \in DOMAIN ComputeAuthorityMetrics }
              = { c \in DOMAIN cases : Status(c) # "RESPONSE_RELEASED" }
         /\ UNION { ComputeAuthorityMetrics[a].overdue : a \in DOMAIN ComputeAuthorityMetrics }
              = { c \in DOMAIN cases : Status(c) \in {"OVERDUE", "FIRST_APPEAL"} }
         /\ UNION { ComputeAuthorityMetrics[a].dueSoon : a \in DOMAIN ComputeAuthorityMetrics }
              = { c \in DOMAIN cases : DaysRemainingFor(c) \in 0..5 }
<1> PICK m : m = ComputeAuthorityMetrics
  OBVIOUS
<1> PICK names : names = AuthoritiesOf(DOMAIN cases)
  OBVIOUS
<1>1. DOMAIN m = names
  BY DEF ComputeAuthorityMetrics
<1>2. ASSUME NEW a \in names
      PROVE  /\ m[a].open = { c \in Of(a) : ~IsResolved(cases[c]) }
             /\ m[a].overdue = { c \in Of(a) : Status(c) \in {"OVERDUE", "FIRST_APPEAL"} }
             /\ m[a].dueSoon = { c \in Of(a) : DaysRemainingFor(c) \in 0..5 }
  BY <1>2 DEF ComputeAuthorityMetrics
<1>3. \A a : Of(a) = { c \in DOMAIN cases : cases[c].authority = a }
  BY DEF Of, Where
<1>4. \A c \in DOMAIN cases : cases[c].authority \in names
  BY DEF AuthoritiesOf
<1>5. \A c \in DOMAIN cases : IsResolved(cases[c]) <=> Status(c) = "RESPONSE_RELEASED"
  BY CaseIs DEF IsResolved, Statuses
<1>6. \A a \in names :
        /\ m[a].open = { c \in DOMAIN cases : cases[c].authority = a /\ Status(c) # "RESPONSE_RELEASED" }
        /\ m[a].overdue = { c \in DOMAIN cases : cases[c].authority = a
                                                   /\ Status(c) \in {"OVERDUE", "FIRST_APPEAL"} }
        /\ m[a].dueSoon = { c \in DOMAIN cases : cases[c].authority = a /\ DaysRemainingFor(c) \in 0..5 }
  BY <1>2, <1>3, <1>5
<1>7. UNION { m[a].open : a \in names } = { c \in DOMAIN cases : Status(c) # "RESPONSE_RELEASED" }
  BY ONLY <1>4, <1>6
<1>8. UNION { m[a].overdue : a \in names }
        = { c \in DOMAIN cases : Status(c) \in {"OVERDUE", "FIRST_APPEAL"} }
  BY ONLY <1>4, <1>6
<1>9. UNION { m[a].dueSoon : a \in names } = { c \in DOMAIN cases : DaysRemainingFor(c) \in 0..5 }
  BY ONLY <1>4, <1>6
<1> QED
  BY <1>1, <1>4, <1>6, <1>7, <1>8, <1>9

-----------------------------------------------------------------------------
(* The theorems.                                                           *)

\* A demo session at its pages has its cases or waits for their load.
THEOREM SeedsAreThere == Spec => []DemoSessionIsSeeded
<1>1. IInv => DemoSessionIsSeeded
  BY DEF IInv, TabOK, SeedsComing, DemoSessionIsSeeded, Role
<1> QED
  BY <1>1, Invariant, PTL

\* Whatever a suspended load navigates to and whoever signed in meanwhile, a
\* tab that changes its screen lands on the pages of the role signed in.
THEOREM DoorIsRight == Spec => RightDoor
<1>1. IInv /\ [Next]_vars => [(screen' # screen /\ screen' \in Role) => screen' = session'.role]_vars
  BY RightDoorStep DEF IInv
<1> QED
  BY <1>1, Invariant, PTL DEF Spec, RightDoor

\* The surfaces that go by the status offer the first appeal together or not at
\* all, and the officer's deadline page calls eligible, besides those cases, exactly
\* the lapsed ones that nothing has marked and the lapsed appeals.
THEOREM RemedyTogether == Spec => []RemedyOfferedTogether
<1>1. ASSUME CasesOK, NEW c \in DOMAIN cases
      PROVE  LET offered == CaseLegalTab(c).canAppeal
             IN /\ offered <=> CaseOverviewTab(c).action.label = "File First Appeal"
                /\ offered <=> DeadlinesPage.rows[c].action.label = "File First Appeal"
                /\ offered <=> CaseLegalTab(c).rule.recommends = "file first appeal"
                /\ offered <=> GovLegalTab(c).rule.recommends = "file first appeal"
                /\ offered <=> GovOverviewTab(c).rule.recommends = "file first appeal"
                /\ offered <=> c \in GovAppealsPage.eligible
                /\ offered <=> c \in DOMAIN LegalReferencePage /\ LegalReferencePage[c] = "available"
                /\ offered <=> GovCaseHeader(c).overdueChip
                /\ offered => /\ CaseLegalTab(c).ground = "no response" /\ ~CaseHeader(c).response
                              /\ c \in GovDeadlinesPage.appealEligible
                /\ c \in GovDeadlinesPage.appealEligible /\ ~offered
                     <=> c \in LapsedUnmarked \/ (CaseLegalTab(c).filed /\ DaysRemainingFor(c) < 0)
  <2>1. /\ Status(c) = cases[c].status /\ Status(c) \in Statuses /\ DaysRemainingFor(c) \in Int
        /\ Answered(c) <=> Status(c) = "RESPONSE_RELEASED"
        /\ Status(c) = "OVERDUE" => DaysRemainingFor(c) < 0
    BY <1>1, CaseIs
  <2>2. CaseLegalTab(c).canAppeal <=> Status(c) = "OVERDUE"
    <3>1. CaseLegalTab(c).canAppeal <=> IsOverdue(cases[c])
      BY Zenon DEF CaseLegalTab
    <3> QED
      BY <3>1, <2>1 DEF IsOverdue
  <2>3. Status(c) = "OVERDUE" <=> CaseOverviewTab(c).action.label = "File First Appeal"
    <3>1. CaseOverviewTab(c).action = ComputeNextAction(c)
      BY Zenon DEF CaseOverviewTab
    <3> QED
      BY <1>1, <3>1, ActionIs
  <2>4. Status(c) = "OVERDUE" <=> DeadlinesPage.rows[c].action.label = "File First Appeal"
    <3>1. c \in WithClock
      BY <1>1, ListsAre
    <3>2. DeadlinesPage.rows[c].action = ComputeNextAction(c)
      BY <3>1, PagesAre
    <3> QED
      BY <1>1, <3>2, ActionIs
  <2>5. Status(c) = "OVERDUE" <=> CaseLegalTab(c).rule.recommends = "file first appeal"
    <3>1. CaseLegalTab(c).rule = LegalRuleForStage(StageFor(c))
      BY Zenon DEF CaseLegalTab
    <3>2. /\ Status(c) = "OVERDUE" => StageFor(c) = "OVERDUE"
          /\ Status(c) # "OVERDUE" => StageFor(c) \in {"SUBMITTED", "RESPONSE_DUE_SOON",
                                                       "RESPONSE_RECEIVED", "FIRST_APPEAL"}
      BY <2>1 DEF StageFor, Statuses
    <3> QED
      BY <3>1, <3>2, RulesAre
  <2>6. Status(c) = "OVERDUE" <=> GovLegalTab(c).rule.recommends = "file first appeal"
    <3>1. GovLegalTab(c).rule = LegalRuleForStage(GovStageFor(c))
      BY Zenon DEF GovLegalTab
    <3>2. /\ Status(c) = "OVERDUE" => GovStageFor(c) = "OVERDUE"
          /\ Status(c) # "OVERDUE" => GovStageFor(c) \in {"SUBMITTED", "RESPONSE_DUE_SOON",
                                                          "RESPONSE_RECEIVED", "FIRST_APPEAL"}
      BY <2>1 DEF GovStageFor, Statuses
    <3> QED
      BY <3>1, <3>2, RulesAre
  <2>7. Status(c) = "OVERDUE" <=> GovOverviewTab(c).rule.recommends = "file first appeal"
    <3>1. GovOverviewTab(c).rule = LegalRuleForStage(IF Status(c) = "OVERDUE" THEN "OVERDUE" ELSE "SUBMITTED")
      BY Zenon DEF GovOverviewTab
    <3> QED
      BY <3>1, RulesAre
  <2>8. Status(c) = "OVERDUE" <=> c \in GovAppealsPage.eligible
    BY <1>1, PagesAre, ListsAre
  <2>9. Status(c) = "OVERDUE" <=>
          c \in DOMAIN LegalReferencePage /\ LegalReferencePage[c] = "available"
    <3>1. /\ c \in Overdue <=> Status(c) = "OVERDUE"
          /\ c \in Appeals <=> Status(c) = "FIRST_APPEAL"
      BY <1>1, ListsAre
    <3> QED
      BY <3>1 DEF LegalReferencePage
  <2>10. Status(c) = "OVERDUE" <=> GovCaseHeader(c).overdueChip
    BY Zenon DEF GovCaseHeader
  <2>11. ASSUME Status(c) = "OVERDUE"
         PROVE  /\ CaseLegalTab(c).ground = "no response" /\ ~CaseHeader(c).response
                /\ c \in GovDeadlinesPage.appealEligible
    <3>1. CaseLegalTab(c).ground = AppealGround(c)
      BY Zenon DEF CaseLegalTab
    <3>2. AppealGround(c) = "no response"
      BY <2>11 DEF AppealGround
    <3>3. CaseHeader(c).response <=> Answered(c)
      BY Zenon DEF CaseHeader
    <3>4. ~Answered(c)
      BY <2>1, <2>11
    <3>5. c \in GovDeadlinesPage.appealEligible
      BY <1>1, <2>1, <2>11, ListsAre, PagesAre
    <3> QED
      BY <3>1, <3>2, <3>3, <3>4, <3>5
  <2>12. c \in GovDeadlinesPage.appealEligible /\ Status(c) # "OVERDUE"
           <=> c \in LapsedUnmarked \/ (CaseLegalTab(c).filed /\ DaysRemainingFor(c) < 0)
    <3>1. CaseLegalTab(c).filed <=> IsAppeal(cases[c])
      BY Zenon DEF CaseLegalTab
    <3>2. IsAppeal(cases[c]) <=> Status(c) = "FIRST_APPEAL"
      BY <2>1 DEF IsAppeal, Statuses
    <3>3. c \in GovDeadlinesPage.appealEligible
            <=> Status(c) # "RESPONSE_RELEASED" /\ DaysRemainingFor(c) < 0
      BY <1>1, ListsAre, PagesAre
    <3>4. c \in LapsedUnmarked
            <=> Status(c) \in {"SUBMITTED", "UNDER_REVIEW"} /\ DaysRemainingFor(c) < 0
      BY <1>1, ListsAre
    <3> QED
      BY <2>1, <3>1, <3>2, <3>3, <3>4 DEF Statuses
  <2> QED
    BY <2>2, <2>3, <2>4, <2>5, <2>6, <2>7, <2>8, <2>9, <2>10, <2>11, <2>12
<1>2. IInv => RemedyOfferedTogether
  BY <1>1, Zenon DEF IInv, RemedyOfferedTogether
<1> QED
  BY <1>2, Invariant, PTL

\* The clocks of both sides show the lapse of an open case and its next action is
\* urgent; what else is said of it goes by whether its status says OVERDUE.
THEOREM LapseOnClocks == Spec => []LapseShownByClocks
<1>1. ASSUME CasesOK, NEW c \in MyCasesPage.active \ MyCasesPage.appeals, DaysRemainingFor(c) < 0
      PROVE  /\ ComputeNextAction(c).urgent /\ DeadlinesPage.rows[c].action.urgent
             /\ CaseHeader(c).deadline = "overdue" /\ CaseOverviewTab(c).deadline = "overdue"
             /\ CaseTimelineTab(c).tone = "danger" /\ Row(c).tone = "danger"
             /\ GovCaseHeader(c).deadline = "overdue" /\ GovLegalTab(c).clock = "Days overdue"
             /\ GovOverviewTab(c).tone = "danger"
             /\ c \notin DeadlinesPage.onTrack \cup GovDeadlinesPage.later \cup GovDeadlinesPage.thisWeek
             /\ LET advice == { CaseLegalTab(c).rule.recommends, GovLegalTab(c).rule.recommends,
                                GovOverviewTab(c).rule.recommends }
                    attention == { DOMAIN CitizenOverviewPage.attention, GovOperationsPage.queue,
                                   GovCaseQueuePage.URGENT }
                IN IF c \notin LapsedUnmarked
                   THEN /\ advice = {"file first appeal"} /\ Row(c).priority = "red"
                        /\ \A list \in attention : c \in list
                   ELSE /\ advice = {"wait", "monitor"} /\ Row(c).priority = "plain"
                        /\ \A list \in attention : c \notin list
  <2>1. c \in DOMAIN cases /\ Status(c) # "RESPONSE_RELEASED" /\ Status(c) # "FIRST_APPEAL"
    BY <1>1, MyCasesAre, ListsAre
  <2>2. DaysRemainingFor(c) \in Int /\ Status(c) \in {"SUBMITTED", "UNDER_REVIEW", "OVERDUE"}
    BY <1>1, <2>1, CaseIs DEF Statuses
  <2>3. ComputeNextAction(c).urgent
    BY <1>1, <2>1, <2>2, ActionIs
  <2>4. DeadlinesPage.rows[c].action.urgent
    <3>1. c \in WithClock
      BY <1>1, <2>1, ListsAre
    <3>2. DeadlinesPage.rows[c].action = ComputeNextAction(c)
      BY <3>1, PagesAre
    <3> QED
      BY <2>3, <3>2
  <2>5. ClockFace(c) = "overdue" /\ Tone(c) = "danger"
    BY <1>1 DEF ClockFace, Tone
  <2>6. /\ CaseHeader(c).deadline = ClockFace(c) /\ CaseOverviewTab(c).deadline = ClockFace(c)
        /\ CaseTimelineTab(c).tone = Tone(c) /\ Row(c).tone = Tone(c) /\ GovOverviewTab(c).tone = Tone(c)
    BY Zenon DEF CaseHeader, CaseOverviewTab, CaseTimelineTab, Row, GovOverviewTab
  <2>7. GovCaseHeader(c).deadline = "overdue" /\ GovLegalTab(c).clock = "Days overdue"
    <3>1. /\ GovCaseHeader(c).deadline = IF DaysRemainingFor(c) < 0 THEN "overdue" ELSE "left"
          /\ GovLegalTab(c).clock = IF DaysRemainingFor(c) < 0 THEN "Days overdue" ELSE "Days remaining"
      BY Zenon DEF GovCaseHeader, GovLegalTab
    <3> QED
      BY <1>1, <3>1
  <2>8. c \notin DeadlinesPage.onTrack \cup GovDeadlinesPage.later \cup GovDeadlinesPage.thisWeek
    BY <1>1, <2>2, PagesAre
  <2>9. /\ CaseLegalTab(c).rule = LegalRuleForStage(StageFor(c))
        /\ GovLegalTab(c).rule = LegalRuleForStage(GovStageFor(c))
        /\ GovOverviewTab(c).rule =
             LegalRuleForStage(IF Status(c) = "OVERDUE" THEN "OVERDUE" ELSE "SUBMITTED")
        /\ Row(c).priority = Priority(c)
    BY Zenon DEF CaseLegalTab, GovLegalTab, GovOverviewTab, Row
  <2>10. /\ DOMAIN CitizenOverviewPage.attention = NeedsAttention
         /\ GovOperationsPage.queue = NeedsAttention
    BY PagesAre
  <2>11. CASE Status(c) = "OVERDUE"
    <3>1. StageFor(c) = "OVERDUE" /\ GovStageFor(c) = "OVERDUE" /\ Priority(c) = "red"
      BY <2>11 DEF StageFor, GovStageFor, Priority
    <3>2. c \notin LapsedUnmarked /\ c \in NeedsAttention /\ c \in GovCaseQueuePage.URGENT
      BY <1>1, <2>1, <2>11, ListsAre, PagesAre DEF NeedsAttention
    <3>3. /\ CaseLegalTab(c).rule.recommends = "file first appeal"
          /\ GovLegalTab(c).rule.recommends = "file first appeal"
          /\ GovOverviewTab(c).rule.recommends = "file first appeal"
      BY <2>9, <2>11, <3>1, RulesAre
    <3> QED
      BY <2>3, <2>4, <2>5, <2>6, <2>7, <2>8, <2>9, <2>10, <3>1, <3>2, <3>3
  <2>12. CASE Status(c) \in {"SUBMITTED", "UNDER_REVIEW"}
    <3>1. StageFor(c) = "RESPONSE_DUE_SOON" /\ GovStageFor(c) = "RESPONSE_DUE_SOON"
          /\ Priority(c) = "plain"
      BY <1>1, <2>2, <2>12 DEF StageFor, GovStageFor, Priority
    <3>2. c \in LapsedUnmarked /\ c \notin NeedsAttention /\ c \notin GovCaseQueuePage.URGENT
      BY <1>1, <2>1, <2>2, <2>12, ListsAre, PagesAre DEF NeedsAttention
    <3>3. /\ CaseLegalTab(c).rule.recommends = "wait"
          /\ GovLegalTab(c).rule.recommends = "wait"
          /\ GovOverviewTab(c).rule.recommends = "monitor"
      BY <2>9, <2>12, <3>1, RulesAre
    <3> QED
      BY <2>3, <2>4, <2>5, <2>6, <2>7, <2>8, <2>9, <2>10, <3>1, <3>2, <3>3
  <2> QED
    BY <2>2, <2>11, <2>12
<1>2. IInv => LapseShownByClocks
  BY <1>1, Zenon DEF IInv, LapseShownByClocks
<1> QED
  BY <1>2, Invariant, PTL

\* A released response shows as received on both sides and leaves every list that
\* looks at the status; those that go by the date alone keep it while its window
\* is open.
THEOREM KeptByDateOnly == Spec => []ReleasedKeptByDateOnly
<1> DEFINE todo == MyCasesPage.active \cup DOMAIN CitizenOverviewPage.attention
                     \cup CitizenOverviewPage.upcoming
                     \cup DOMAIN LegalReferencePage \cup GovOperationsPage.queue
                     \cup GovOperationsPage.awaiting \cup GovDeadlinesPage.overdue
                     \cup GovDeadlinesPage.thisWeek \cup GovDeadlinesPage.later
                     \cup GovAppealsPage.eligible \cup GovAppealsPage.listed
           at(c) == ComputeAuthorityMetrics[cases[c].authority]
<1>1. ASSUME CasesOK, NEW c \in ResponseReviewPage.released
      PROVE  /\ c \in MyCasesPage.responded /\ c \in GovCaseQueuePage.RESPONSE_RELEASED
             /\ CaseHeader(c).response /\ GovCaseHeader(c).sent /\ CaseOverviewTab(c).received
             /\ CaseOverviewTab(c).action.label = "Review response"
             /\ c \notin todo \cup at(c).open \cup at(c).overdue /\ GovResponseTab(c).next = {}
             /\ c \in GovCaseQueuePage.URGENT <=> DaysRemainingFor(c) \in 0..5
             /\ c \in at(c).dueSoon <=> DaysRemainingFor(c) \in 0..5
             /\ Row(c).priority = IF DaysRemainingFor(c) \in 0..5 THEN "amber" ELSE "plain"
             /\ c \in DeadlinesPage.onTrack <=> DaysRemainingFor(c) > 5
             /\ CaseHeader(c).deadline = "overdue" <=> DaysRemainingFor(c) < 0
             /\ GovCaseHeader(c).deadline = "overdue" <=> DaysRemainingFor(c) < 0
             /\ DeadlinesPage.rows[c].action.label = "Review response"
  <2>1. c \in DOMAIN cases /\ cases[c].govStage = "RESPONSE_RELEASED"
    BY <1>1, PagesAre DEF AtStage, Where
  <2>2. Status(c) = "RESPONSE_RELEASED" /\ Answered(c) /\ DaysRemainingFor(c) \in Int
    BY <1>1, <2>1, CaseIs
  <2>3. c \in MyCasesPage.responded /\ c \in GovCaseQueuePage.RESPONSE_RELEASED
    BY <1>1, <2>1, <2>2, MyCasesAre, PagesAre, ListsAre
  <2>4. /\ CaseHeader(c).response <=> Answered(c)
        /\ GovCaseHeader(c).sent <=> "RESPONSE_RECEIVED" \in Types(c)
        /\ CaseOverviewTab(c).received <=> Answered(c)
    BY Zenon DEF CaseHeader, GovCaseHeader, CaseOverviewTab
  <2>5. CaseHeader(c).response /\ GovCaseHeader(c).sent /\ CaseOverviewTab(c).received
    BY <2>2, <2>4 DEF Answered
  <2>6. ComputeNextAction(c).label = "Review response"
    BY <1>1, <2>1, <2>2, ActionIs
  <2>7. CaseOverviewTab(c).action.label = "Review response"
    <3>1. CaseOverviewTab(c).action = ComputeNextAction(c)
      BY Zenon DEF CaseOverviewTab
    <3> QED
      BY <2>6, <3>1
  <2>8. DeadlinesPage.rows[c].action.label = "Review response"
    <3>1. c \in WithClock
      BY <1>1, <2>1, ListsAre
    <3>2. DeadlinesPage.rows[c].action = ComputeNextAction(c)
      BY <3>1, PagesAre
    <3> QED
      BY <2>6, <3>2
  <2>9. c \notin todo
    <3>1. /\ c \notin Overdue /\ c \notin Appeals /\ c \notin DueSoon /\ c \notin OnClock
          /\ c \notin MyCasesPage.active
      BY <1>1, <2>2, ListsAre, MyCasesAre
    <3>2. c \notin NeedsAttention /\ c \notin DOMAIN LegalReferencePage
      BY <3>1 DEF NeedsAttention, LegalReferencePage
    <3>3. c \notin AwaitingReview
      BY <2>1 DEF AwaitingReview, AtStage, Where
    <3>4. DOMAIN CitizenOverviewPage.attention = NeedsAttention
      BY PagesAre
    <3> QED
      BY <3>1, <3>2, <3>3, <3>4, PagesAre
  <2>10. /\ c \notin at(c).open \cup at(c).overdue
         /\ c \in at(c).dueSoon <=> DaysRemainingFor(c) \in 0..5
    BY <1>1, <2>1, <2>2, MetricsAre
  <2>11. GovResponseTab(c).next = {}
    <3>1. GovResponseTab(c).next = NextGovStage(cases[c].govStage)
      BY Zenon DEF GovResponseTab
    <3> QED
      BY <3>1, <2>1, StagesAre
  <2>12. /\ c \in GovCaseQueuePage.URGENT <=> DaysRemainingFor(c) \in 0..5
         /\ c \in DeadlinesPage.onTrack <=> DaysRemainingFor(c) > 5
    BY <1>1, <2>1, <2>2, ListsAre, PagesAre
  <2>13. Row(c).priority = IF DaysRemainingFor(c) \in 0..5 THEN "amber" ELSE "plain"
    <3>1. Row(c).priority = Priority(c)
      BY Zenon DEF Row
    <3> QED
      BY <2>2, <3>1 DEF Priority
  <2>14. /\ CaseHeader(c).deadline = "overdue" <=> DaysRemainingFor(c) < 0
         /\ GovCaseHeader(c).deadline = "overdue" <=> DaysRemainingFor(c) < 0
    <3>1. CaseHeader(c).deadline = ClockFace(c)
      BY Zenon DEF CaseHeader
    <3>2. GovCaseHeader(c).deadline = IF DaysRemainingFor(c) < 0 THEN "overdue" ELSE "left"
      BY Zenon DEF GovCaseHeader
    <3> QED
      BY <2>2, <3>1, <3>2 DEF ClockFace
  <2> HIDE DEF todo, at
  <2> QED
    BY <2>3, <2>5, <2>7, <2>8, <2>9, <2>10, <2>11, <2>12, <2>13, <2>14
<1>2. IInv => ReleasedKeptByDateOnly
  BY <1>1, Zenon DEF IInv, ReleasedKeptByDateOnly
<1> QED
  BY <1>2, Invariant, PTL

\* Both sides have the same open cases, each once, and what a screen lists as
\* active, overdue or due soon beyond another is known.
THEOREM OpenAccounted == Spec => []OpenCasesAccounted
<1> DEFINE late == UNION { ComputeAuthorityMetrics[a].overdue : a \in DOMAIN ComputeAuthorityMetrics }
           soon == UNION { ComputeAuthorityMetrics[a].dueSoon : a \in DOMAIN ComputeAuthorityMetrics }
<1>1. ASSUME CasesOK
      PROVE  /\ Cardinality(MyCasesPage.active) = GovOperationsPage.open
             /\ MyCasesPage.active =
                  UNION { ComputeAuthorityMetrics[a].open : a \in DOMAIN ComputeAuthorityMetrics }
             /\ MyCasesPage.active =
                  GovDeadlinesPage.overdue \cup GovDeadlinesPage.thisWeek \cup GovDeadlinesPage.later
             /\ Cardinality(MyCasesPage.active) = Cardinality(GovDeadlinesPage.overdue)
                  + Cardinality(GovDeadlinesPage.thisWeek) + Cardinality(GovDeadlinesPage.later)
             /\ MyCasesPage.active = MyCasesPage.awaiting \cup MyCasesPage.overdue \cup MyCasesPage.appeals
             /\ CitizenOverviewPage.active = MyCasesPage.active \ MyCasesPage.appeals
             /\ GovDeadlinesPage.overdue \ GovDeadlinesPage.appeals
                  = GovOperationsPage.overdue \cup LapsedUnmarked
             /\ GovDeadlinesPage.thisWeek \ GovDeadlinesPage.appeals = GovOperationsPage.dueSoon
             /\ GovShell.deadlines + Cardinality(LapsedUnmarked)
                  = Cardinality((GovDeadlinesPage.overdue \cup GovDeadlinesPage.thisWeek)
                                  \ GovDeadlinesPage.appeals)
             /\ late = GovOperationsPage.overdue \cup GovAppealsPage.first
             /\ soon = GovDeadlinesPage.thisWeek
                         \cup { c \in MyCasesPage.responded : DaysRemainingFor(c) \in 0..5 }
             /\ GovCaseQueuePage.URGENT = late \cup soon
             /\ AnalyticsPage.overdueRate = Percent(late, DOMAIN cases)
             /\ CitizenShell.deadlines = Cardinality(DeadlinesPage.overdue \cup DeadlinesPage.dueSoon)
             /\ CitizenShell.appeals =
                  Cardinality({ c \in DOMAIN LegalReferencePage : LegalReferencePage[c] = "filed" })
             /\ GovShell.review = Cardinality(ResponseReviewPage.column["UNDER_REVIEW"])
                                    + Cardinality(ResponseReviewPage.column["INFO_LOCATED"])
             /\ GovShell.appeals = Cardinality(GovAppealsPage.first \cup GovAppealsPage.second)
             /\ CitizenOverviewPage.activity \subseteq GovOperationsPage.activity
  <2>1. IsFiniteSet(DOMAIN cases) /\ \A c \in DOMAIN cases : Status(c) \in Statuses /\ DaysRemainingFor(c) \in Int
    BY <1>1, CaseIs DEF CasesOK
  <2> PICK mine : mine = MyCasesPage.active
    OBVIOUS
  <2>2. mine = { c \in DOMAIN cases : Status(c) # "RESPONSE_RELEASED" }
    BY <1>1, MyCasesAre
  <2>3. Cardinality(mine) = GovOperationsPage.open
    <3>1. mine = Active \cup Appeals /\ Active \cap Appeals = {}
          /\ Active \in SUBSET DOMAIN cases /\ Appeals \in SUBSET DOMAIN cases
      BY <1>1, <2>1, <2>2, ListsAre DEF Statuses
    <3>2. IsFiniteSet(DOMAIN cases)
      BY <2>1
    <3>3. Cardinality(Active \cup Appeals) = Cardinality(Active) + Cardinality(Appeals)
      BY ONLY <3>1, <3>2, CountApart
    <3> QED
      BY <3>1, <3>3, PagesAre
  <2> PICK lapsed : lapsed = GovDeadlinesPage.overdue
    OBVIOUS
  <2> PICK week : week = GovDeadlinesPage.thisWeek
    OBVIOUS
  <2> PICK later : later = GovDeadlinesPage.later
    OBVIOUS
  <2>4. /\ lapsed = { c \in mine : DaysRemainingFor(c) < 0 }
        /\ week = { c \in mine : DaysRemainingFor(c) \in 0..5 }
        /\ later = { c \in mine : DaysRemainingFor(c) > 5 }
    BY <1>1, <2>2, PagesAre, ListsAre
  <2>5. \A c \in mine : DaysRemainingFor(c) \in Int
    BY <2>1, <2>2
  <2>6. mine = lapsed \cup week \cup later
    BY <2>4, <2>5
  <2>7. Cardinality(mine) = Cardinality(lapsed) + Cardinality(week) + Cardinality(later)
    <3>1. lapsed \cap week = {} /\ (lapsed \cup week) \cap later = {}
      BY <2>4, <2>5
    <3>2. lapsed \in SUBSET DOMAIN cases /\ week \in SUBSET DOMAIN cases /\ later \in SUBSET DOMAIN cases
      BY <2>2, <2>4
    <3>0. IsFiniteSet(DOMAIN cases)
      BY <2>1
    <3>3. Cardinality(lapsed \cup week) = Cardinality(lapsed) + Cardinality(week)
      BY ONLY <3>0, <3>1, <3>2, CountApart
    <3>4. Cardinality((lapsed \cup week) \cup later) = Cardinality(lapsed \cup week) + Cardinality(later)
      <4>1. lapsed \cup week \in SUBSET DOMAIN cases
        BY <3>2
      <4> QED
        BY ONLY <3>0, <3>1, <3>2, <4>1, CountApart
    <3> QED
      BY <2>6, <3>3, <3>4
  <2>8. mine = MyCasesPage.awaiting \cup MyCasesPage.overdue \cup MyCasesPage.appeals
    BY <1>1, <2>1, <2>2, MyCasesAre, ListsAre DEF Statuses
  <2>9. CitizenOverviewPage.activity \subseteq GovOperationsPage.activity
    BY <1>1, ActivityIsShared, PagesAre
  <2>10. Cardinality(Overdue \cup DueSoon) = Cardinality(DueSoon) + Cardinality(Overdue)
    <3>1. /\ Overdue \cap DueSoon = {} /\ Overdue \in SUBSET DOMAIN cases /\ DueSoon \in SUBSET DOMAIN cases
      BY <1>1, ListsAre
    <3>2. /\ Cardinality(Overdue) \in Nat /\ Cardinality(DueSoon) \in Nat
          /\ Cardinality(Overdue \cup DueSoon) = Cardinality(Overdue) + Cardinality(DueSoon)
      BY <2>1, <3>1, CountApart
    <3> QED
      BY <3>2
  <2>11. CitizenShell.deadlines = Cardinality(DeadlinesPage.overdue \cup DeadlinesPage.dueSoon)
    <3>1. CitizenShell.deadlines = Cardinality(DueSoon) + Cardinality(Overdue)
      BY Zenon DEF CitizenShell
    <3> QED
      BY <3>1, <2>10, PagesAre
  <2>12. CitizenShell.appeals =
           Cardinality({ c \in DOMAIN LegalReferencePage : LegalReferencePage[c] = "filed" })
    <3>1. CitizenShell.appeals = Cardinality(Appeals)
      BY Zenon DEF CitizenShell
    <3>2. Overdue \cap Appeals = {}
      BY <1>1, ListsAre
    <3>3. { c \in DOMAIN LegalReferencePage : LegalReferencePage[c] = "filed" } = Appeals
      BY <3>2 DEF LegalReferencePage
    <3> QED
      BY <3>1, <3>3
  <2>13. /\ GovDeadlinesPage.overdue \ Appeals = Overdue \cup LapsedUnmarked
         /\ GovDeadlinesPage.thisWeek \ Appeals = DueSoon
    <3>1. /\ \A c \in DOMAIN cases : c \in GovDeadlinesPage.overdue
                <=> Status(c) # "RESPONSE_RELEASED" /\ DaysRemainingFor(c) < 0
          /\ \A c \in DOMAIN cases : c \in GovDeadlinesPage.thisWeek
                <=> Status(c) # "RESPONSE_RELEASED" /\ DaysRemainingFor(c) \in 0..5
          /\ GovDeadlinesPage.overdue \subseteq DOMAIN cases
          /\ GovDeadlinesPage.thisWeek \subseteq DOMAIN cases
      BY <1>1, ListsAre, PagesAre
    <3>2. \A c \in DOMAIN cases : Status(c) = "OVERDUE" => DaysRemainingFor(c) < 0
      BY <1>1, CaseIs
    <3> QED
      BY <1>1, <2>1, <3>1, <3>2, ListsAre DEF Statuses
  <2>17. GovShell.deadlines + Cardinality(LapsedUnmarked)
           = Cardinality((GovDeadlinesPage.overdue \cup GovDeadlinesPage.thisWeek) \ Appeals)
    <3>1. GovShell.deadlines = Cardinality(Overdue) + Cardinality(DueSoon)
      BY Zenon DEF GovShell
    <3>2. /\ Overdue \cap LapsedUnmarked = {} /\ (Overdue \cup LapsedUnmarked) \cap DueSoon = {}
          /\ Overdue \in SUBSET DOMAIN cases /\ DueSoon \in SUBSET DOMAIN cases
          /\ LapsedUnmarked \in SUBSET DOMAIN cases
          /\ Overdue \cup LapsedUnmarked \in SUBSET DOMAIN cases
      BY <1>1, <2>1, ListsAre
    <3>3. IsFiniteSet(DOMAIN cases)
      BY <2>1
    <3>4. /\ Cardinality(Overdue \cup LapsedUnmarked) = Cardinality(Overdue) + Cardinality(LapsedUnmarked)
          /\ Cardinality(Overdue) \in Nat /\ Cardinality(LapsedUnmarked) \in Nat
      BY ONLY <3>2, <3>3, CountApart
    <3>5. /\ Cardinality((Overdue \cup LapsedUnmarked) \cup DueSoon)
               = Cardinality(Overdue \cup LapsedUnmarked) + Cardinality(DueSoon)
          /\ Cardinality(DueSoon) \in Nat
      BY ONLY <3>2, <3>3, CountApart
    <3>6. (GovDeadlinesPage.overdue \cup GovDeadlinesPage.thisWeek) \ Appeals
            = (Overdue \cup LapsedUnmarked) \cup DueSoon
      BY <2>13
    <3>7. ASSUME NEW x \in Nat, NEW y \in Nat, NEW z \in Nat PROVE (x + z) + y = (x + y) + z
      OBVIOUS
    <3>8. Cardinality((Overdue \cup LapsedUnmarked) \cup DueSoon)
            = (Cardinality(Overdue) + Cardinality(DueSoon)) + Cardinality(LapsedUnmarked)
      BY ONLY <3>4, <3>5, <3>7
    <3> QED
      BY ONLY <3>1, <3>6, <3>8
  <2>18. CitizenOverviewPage.active = MyCasesPage.active \ MyCasesPage.appeals
    <3>1. Active = mine \ Appeals
      BY <1>1, <2>1, <2>2, ListsAre DEF Statuses
    <3> QED
      BY <1>1, <3>1, MyCasesAre, PagesAre
  <2>19. late = GovOperationsPage.overdue \cup GovAppealsPage.first
    <3>1. late = { c \in DOMAIN cases : Status(c) \in {"OVERDUE", "FIRST_APPEAL"} }
      BY <1>1, MetricsAre
    <3>2. GovAppealsPage.first = Appeals
      BY <1>1, ListsAre, PagesAre
    <3> HIDE DEF late
    <3> QED
      BY <1>1, <3>1, <3>2, ListsAre, PagesAre
  <2>20. soon = { c \in DOMAIN cases : DaysRemainingFor(c) \in 0..5 }
    BY <1>1, MetricsAre
  <2>21. soon = GovDeadlinesPage.thisWeek
                  \cup { c \in MyCasesPage.responded : DaysRemainingFor(c) \in 0..5 }
    <3>1. MyCasesPage.responded = { c \in DOMAIN cases : Status(c) = "RESPONSE_RELEASED" }
      BY <1>1, MyCasesAre, ListsAre
    <3>2. GovDeadlinesPage.thisWeek = { c \in DOMAIN cases : Status(c) # "RESPONSE_RELEASED"
                                                               /\ DaysRemainingFor(c) \in 0..5 }
      BY <1>1, ListsAre, PagesAre
    <3> HIDE DEF soon
    <3> QED
      BY <2>20, <3>1, <3>2
  <2>22. GovCaseQueuePage.URGENT = late \cup soon
    <3>1. late = { c \in DOMAIN cases : Status(c) \in {"OVERDUE", "FIRST_APPEAL"} }
      BY <1>1, MetricsAre
    <3> HIDE DEF late, soon
    <3> QED
      BY <2>20, <3>1, PagesAre
  <2>24. AnalyticsPage.overdueRate = Percent(late, DOMAIN cases)
    <3>1. late = Where(LAMBDA r : r.status \in {"OVERDUE", "FIRST_APPEAL"})
      BY <1>1, MetricsAre DEF Where, Status
    <3> HIDE DEF late
    <3> QED
      BY <3>1, Zenon DEF AnalyticsPage
  <2>14. GovShell.appeals = Cardinality(GovAppealsPage.first \cup GovAppealsPage.second)
    <3>1. GovShell.appeals = Cardinality(Appeals)
      BY Zenon DEF GovShell
    <3>2. GovAppealsPage.first \cup GovAppealsPage.second = Appeals
      BY <1>1, ListsAre, PagesAre
    <3> QED
      BY <3>1, <3>2
  <2>15. mine = UNION { ComputeAuthorityMetrics[a].open : a \in DOMAIN ComputeAuthorityMetrics }
    BY <1>1, <2>2, MetricsAre
  <2>16. GovShell.review = Cardinality(ResponseReviewPage.column["UNDER_REVIEW"])
                             + Cardinality(ResponseReviewPage.column["INFO_LOCATED"])
    BY <1>1, StagesCounted
  <2>23. GovDeadlinesPage.appeals = Appeals /\ GovOperationsPage.overdue = Overdue
         /\ GovOperationsPage.dueSoon = DueSoon
    BY PagesAre
  <2> HIDE DEF late, soon
  <2> QED
    BY <2>3, <2>6, <2>7, <2>8, <2>9, <2>11, <2>12, <2>13, <2>14, <2>15, <2>16, <2>17, <2>18, <2>19,
       <2>21, <2>22, <2>23, <2>24
<1>2. IInv => OpenCasesAccounted
  BY <1>1, Zenon DEF IInv, OpenCasesAccounted
<1> QED
  BY <1>2, Invariant, PTL

\* Time alone never moves an open case from on track to overdue: it has been
\* among the upcoming deadlines before.
THEOREM WarnedFirst == Spec => WarnedBeforeLapse
<1>1. ASSUME CasesOK, [Next]_vars, NEW c \in DOMAIN cases \cap DOMAIN cases',
             c \in Active, ~IsOverdue(cases[c]), DaysRemainingFor(c) >= 0,
             DaysRemainingFor(c)' < 0
      PROVE  c \in CitizenOverviewPage.upcoming
  <2>1. /\ CaseOK(c, cases[c]) /\ Status(c) = cases[c].status
        /\ Status(c) \in {"SUBMITTED", "UNDER_REVIEW"} /\ DaysRemainingFor(c) \in Int
    <3>1. Status(c) \in {"SUBMITTED", "UNDER_REVIEW", "OVERDUE"}
      BY <1>1, ListsAre
    <3> QED
      BY <1>1, <3>1, CaseIs DEF IsOverdue
  <2>2. cases[c].due \in Int /\ now \in Int /\ now' \in Int
    <3>1. now' = now \/ now' = now + 1
      BY <1>1, Zenon DEF Next, Visit, OpenApp, CloseApp, FollowLink, TurnGate, SignIn, EnterDemo,
             LoadInSettings, LogOut, ClearWorkspaceAndLeave, Work, CreateRequest, FileFirstAppeal,
             AdvanceStage, AttachDocument, OpenGovCase, Write, Loads, FinishLoad, Tick, vars
    <3> QED
      BY <1>1, <2>1, <3>1 DEF CasesOK, CaseOK, CaseType
  <2>3. CASE Tick
    <3>1. cases' = cases /\ now' = now + 1
      BY <2>3 DEF Tick
    <3>2. DaysRemainingFor(c) \in 0..5
      BY <1>1, <2>2, <3>1 DEF DaysRemainingFor
    <3> QED
      BY <1>1, <2>1, <3>2, ListsAre, PagesAre
  <2>4. CASE now' = now /\ cases'[c].due = cases[c].due
    <3>1. DaysRemainingFor(c)' = DaysRemainingFor(c)
      BY <2>4 DEF DaysRemainingFor
    <3> QED
      BY <1>1, <2>1, <3>1
  <2>5. CASE Loads
    <3>1. now' = now /\ (c \notin SeedIds => cases'[c] = cases[c])
          /\ (c \in SeedIds => cases'[c] = cases[c] \/ cases'[c] = Seeds(now)[c])
      BY <1>1, <2>5 DEF Loads, FinishLoad
    <3>2. CASE c \in SeedIds /\ cases'[c] = Seeds(now)[c]
      <4>1. c = "C"
        BY <2>1, <3>2 DEF CaseOK, CanBe, SeedIds
      <4>2. cases'[c].due = now + 6
        BY <3>2, <4>1 DEF Seeds, BuildCaseC, SeedCase, Days
      <4> QED
        BY <1>1, <2>2, <3>1, <4>2 DEF DaysRemainingFor
    <3> QED
      BY <2>4, <3>1, <3>2
  <2>6. CASE Visit \/ UNCHANGED vars
    <3>1. now' = now /\ (cases' = cases \/ cases' = <<>>)
      BY <2>6 DEF Visit, OpenApp, CloseApp, FollowLink, TurnGate, SignIn, EnterDemo, LoadInSettings,
             LogOut, ClearWorkspaceAndLeave, vars
    <3> QED
      BY <1>1, <2>4, <3>1
  <2>7. CASE Work
    BY <1>1, <2>4, <2>7, WorkKeepsDue
  <2> QED
    BY <1>1, <2>3, <2>5, <2>6, <2>7 DEF Next
<1>2. IInv /\ [Next]_vars =>
        [ \A c \in DOMAIN cases \cap DOMAIN cases' :
            (c \in Active /\ ~IsOverdue(cases[c]) /\ DaysRemainingFor(c) >= 0
               /\ DaysRemainingFor(c)' < 0 /\ c \in GovDeadlinesPage.overdue')
              => c \in CitizenOverviewPage.upcoming ]_vars
  BY <1>1 DEF IInv
<1> QED
  BY <1>2, Invariant, PTL DEF Spec, WarnedBeforeLapse

=============================================================================
