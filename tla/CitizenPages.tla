---------------------------- MODULE CitizenPages ----------------------------
(***************************************************************************)
(* The citizen's screens (frontend/src/pages/citizen): for each, what it   *)
(* lists, counts, offers and warns of, as a function of the stored cases.  *)
(***************************************************************************)
EXTENDS CaseViews

\* Those with fewer than "limit" cases updated later.
RecentCases(ids, limit) ==
  { c \in ids : Cardinality({ d \in ids : cases[d].updated > cases[c].updated }) < limit }

CitizenOverviewPage ==
  [ active |-> Active, dueSoon |-> DueSoon, overdue |-> Overdue,
    responded |-> Responded, appeals |-> Appeals,
    attention |-> [c \in NeedsAttention |-> ComputeNextAction(c)],
    trails |-> RecentCases(CitizenCases, 6), upcoming |-> DueSoon,
    activity |-> RecentActivity(CitizenCases, 6) ]

\* The views of the case list and the cases in each.
MyCasesPage ==
  [ all       |-> CitizenCases,
    active    |-> Where(LAMBDA r : ~IsResolved(r)),
    awaiting  |-> Where(LAMBDA r : r.status \in
                    {"SUBMITTED", "ACKNOWLEDGED", "FORWARDED", "UNDER_REVIEW",
                     "RESPONSE_DRAFTED"}),
    overdue   |-> Overdue,
    responded |-> Responded,
    appeals   |-> Appeals ]

WithClock == Where(LAMBDA r : r.status # "CLOSED")

DeadlinesPage ==
  [ overdue |-> Overdue, dueSoon |-> DueSoon, responded |-> Responded,
    onTrack |-> { c \in WithClock : Status(c) # "OVERDUE" /\ DaysRemainingFor(c) > 5 },
    rows |-> [c \in WithClock |-> [action |-> ComputeNextAction(c), tone |-> Tone(c)]] ]

DocumentsPage ==
  [ docs |-> AllDocuments(CitizenCases),
    ofKind |-> [k \in { cases[d[1]].docs[d[2]].kind : d \in AllDocuments(CitizenCases) } |->
                  { d \in AllDocuments(CitizenCases) : cases[d[1]].docs[d[2]].kind = k }] ]

\* Each actionable case, and whether an appeal is available or filed.
LegalReferencePage ==
  [c \in Overdue \cup Appeals |-> IF c \in Overdue THEN "available" ELSE "filed"]

\* The badges of the navigation.
CitizenShell ==
  [ deadlines |-> Cardinality(DueSoon) + Cardinality(Overdue),
    appeals |-> Cardinality(Appeals) ]
-----------------------------------------------------------------------------
\* One case.

\* A deadline that has passed is overdue even when it was answered in time.
ClockFace(c) ==
  IF DaysRemainingFor(c) < 0 THEN "overdue"
  ELSE IF Status(c) = "RESPONSE_RELEASED" THEN "met" ELSE "left"

Answered(c) == "RESPONSE_RECEIVED" \in Types(c)

CaseHeader(c) ==
  [ status |-> Status(c), response |-> Answered(c), deadline |-> ClockFace(c),
    events |-> Len(cases[c].events), evidence |-> Len(cases[c].docs) ]

CaseOverviewTab(c) ==
  [ action |-> ComputeNextAction(c), received |-> Answered(c),
    deadline |-> ClockFace(c), refined |-> cases[c].versions > 1,
    documents |-> Len(cases[c].docs) ]

CaseTimelineTab(c) ==
  [ events |-> Len(cases[c].events), tone |-> Tone(c), version |-> cases[c].trailVersion ]

StageFor(c) ==
  IF Status(c) \in {"OVERDUE", "FIRST_APPEAL", "SECOND_APPEAL"} THEN Status(c)
  ELSE IF Status(c) = "RESPONSE_RELEASED" THEN "RESPONSE_RECEIVED"
  ELSE IF DaysRemainingFor(c) <= 5 THEN "RESPONSE_DUE_SOON" ELSE "SUBMITTED"

\* Mutant of CaseLegalTab: an appeal may be filed once the date has passed.
CaseLegalTabByDate(c) ==
  [ rule |-> LegalRuleForStage(StageFor(c)), tone |-> Tone(c),
    canAppeal |-> DaysRemainingFor(c) < 0, filed |-> IsAppeal(cases[c]),
    ground |-> AppealGround(c), drafts |-> cases[c].versions ]

\* The tab as it is mounted: the builder shows when an appeal can be filed
\* or was.
CaseLegalTab(c) ==
  [ rule |-> LegalRuleForStage(StageFor(c)), tone |-> Tone(c),
    canAppeal |-> IsOverdue(cases[c]), filed |-> IsAppeal(cases[c]),
    ground |-> AppealGround(c), drafts |-> cases[c].versions ]

CaseEvidenceTab(c) == { cases[c].docs[i].kind : i \in DOMAIN cases[c].docs }

\* The trail and the authority's audited actions, merged.
CaseActivityTab(c) ==
  ({"trail"} \X DOMAIN cases[c].events) \cup ({"authority"} \X DOMAIN cases[c].audit)
=============================================================================
