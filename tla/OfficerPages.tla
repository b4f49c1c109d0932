---------------------------- MODULE OfficerPages ----------------------------
(***************************************************************************)
(* The officer's screens (frontend/src/pages/gov): for each, what it       *)
(* lists, counts and warns of, as a function of the stored cases.          *)
(***************************************************************************)
EXTENDS CaseViews, FiniteSetsExt

AtStage(stages) == Where(LAMBDA r : r.govStage \in stages)

Percent(ids, of) ==
  IF of = {} THEN 0 ELSE (200 * Cardinality(ids) + Cardinality(of)) \div (2 * Cardinality(of))

AwaitingReview == AtStage({"UNDER_REVIEW", "INFO_LOCATED"})

GovOperationsPage ==
  [ open |-> Cardinality(Active) + Cardinality(Appeals), dueSoon |-> DueSoon,
    overdue |-> Overdue, appeals |-> Appeals, awaiting |-> AwaitingReview,
    queue |-> NeedsAttention,
    pipeline |-> [s \in GovStage |-> Cardinality(AtStage({s}))],
    responseRate |-> Percent(Responded, DOMAIN cases),
    overdueRate |-> Percent(Overdue, DOMAIN cases),
    activity |-> RecentActivity(DOMAIN cases, 7) ]

\* The bar before a row of a case table: red, amber or plain.
Priority(c) ==
  IF Status(c) \in {"OVERDUE", "FIRST_APPEAL"} THEN "red"
  ELSE IF DaysRemainingFor(c) \in 0..5 THEN "amber" ELSE "plain"

\* A row of GovCaseTable.
Row(c) == [priority |-> Priority(c), stage |-> cases[c].govStage, tone |-> Tone(c)]

\* The urgent view counts answered cases in their last days too.
GovCaseQueuePage ==
  [ ALL    |-> DOMAIN cases,
    URGENT |-> { c \in DOMAIN cases : Status(c) \in {"OVERDUE", "FIRST_APPEAL"}
                                      \/ DaysRemainingFor(c) \in 0..5 },
    SUBMITTED |-> Where(LAMBDA r : r.status = "SUBMITTED"),
    UNDER_REVIEW |-> Where(LAMBDA r : r.status = "UNDER_REVIEW"),
    OVERDUE |-> Overdue, RESPONSE_RELEASED |-> Responded,
    FIRST_APPEAL |-> Where(LAMBDA r : r.status = "FIRST_APPEAL") ]

ResponseReviewPage ==
  [ inReview |-> AtStage({"UNDER_REVIEW"}),
    drafting |-> AtStage({"RESPONSE_DRAFTED", "COMPLIANCE_REVIEW", "READY_TO_RELEASE"}),
    ready |-> AtStage({"READY_TO_RELEASE"}),
    released |-> AtStage({"RESPONSE_RELEASED"}),
    column |-> [s \in GovStage |-> AtStage({s}) \ Where(LAMBDA r : r.status = "CLOSED")],
    recentlyReleased |-> Responded ]

\* Mutant of OnClock: an appeal has left the clock.
OnClockUnappealed == Where(LAMBDA r : ~IsResolved(r) /\ ~IsAppeal(r))

OnClock == Where(LAMBDA r : ~IsResolved(r))

\* It goes by the date alone, and calls what has lapsed appeal eligible.
GovDeadlinesPage ==
  LET lapsed == { c \in OnClock : DaysRemainingFor(c) < 0 }
  IN [ overdue  |-> lapsed, appealEligible |-> lapsed,
       thisWeek |-> { c \in OnClock : DaysRemainingFor(c) \in 0..5 },
       later    |-> { c \in OnClock : DaysRemainingFor(c) > 5 },
       appeals  |-> Appeals ]

GovAppealsPage ==
  [ first |-> { c \in Appeals : Status(c) = "FIRST_APPEAL" },
    second |-> { c \in Appeals : Status(c) = "SECOND_APPEAL" },
    eligible |-> Overdue, listed |-> Appeals ]
-----------------------------------------------------------------------------
\* Per authority and in total.

Of(authority) == Where(LAMBDA r : r.authority = authority)
AuthoritiesOf(ids) == { cases[c].authority : c \in ids }

\* When a response was received, or else the last change.
ReceivedAt(c) ==
  LET at == { cases[c].events[i].at :
                i \in { i \in DOMAIN cases[c].events :
                          cases[c].events[i].type = "RESPONSE_RECEIVED" } }
  IN IF at = {} THEN cases[c].updated ELSE CHOOSE t \in at : \A u \in at : t <= u

\* Days from filing to the response, the mean rounded half up.
AvgDays(ids) ==
  IF ids = {} THEN 0
  ELSE (MapThenSumSet(LAMBDA c : ReceivedAt(c) - cases[c].submitted, ids) + Cardinality(ids))
         \div (2 * Cardinality(ids))

ComputeAuthorityMetrics ==
  [a \in AuthoritiesOf(DOMAIN cases) |->
     [ open    |-> { c \in Of(a) : ~IsResolved(cases[c]) },
       overdue |-> { c \in Of(a) : Status(c) \in {"OVERDUE", "FIRST_APPEAL"} },
       dueSoon |-> { c \in Of(a) : DaysRemainingFor(c) \in 0..5 },
       rate    |-> Percent({ c \in Of(a) : IsResolved(cases[c]) }, Of(a)),
       avgDays |-> AvgDays({ c \in Of(a) : IsResolved(cases[c]) }) ]]

\* The load of an authority: an overdue case counts twice.
CoveragePage ==
  [a \in DOMAIN ComputeAuthorityMetrics |->
     Cardinality(ComputeAuthorityMetrics[a].open)
       + Cardinality(ComputeAuthorityMetrics[a].overdue)]

\* For all authorities together, as the page opens.
AnalyticsPage ==
  LET overdue == Where(LAMBDA r : r.status \in {"OVERDUE", "FIRST_APPEAL"})
  IN [ requests |-> DOMAIN cases, responseRate |-> Percent(Responded, DOMAIN cases),
       overdueRate |-> Percent(overdue, DOMAIN cases),
       appealRate |-> Percent(Appeals, DOMAIN cases), avgDays |-> AvgDays(Responded) ]

GlobalAuditPage == UNION { {c} \X DOMAIN cases[c].audit : c \in DOMAIN cases }

\* The badges of the navigation.
GovShell ==
  [ review |-> Cardinality(AwaitingReview),
    deadlines |-> Cardinality(Overdue) + Cardinality(DueSoon),
    appeals |-> Cardinality(Appeals) ]
-----------------------------------------------------------------------------
\* One case.

GovCaseHeader(c) ==
  [ stage |-> cases[c].govStage, overdueChip |-> Status(c) = "OVERDUE",
    deadline |-> IF DaysRemainingFor(c) < 0 THEN "overdue" ELSE "left",
    sent |-> "RESPONSE_RECEIVED" \in Types(c), audit |-> Len(cases[c].audit) ]

GovOverviewTab(c) ==
  [ tone |-> Tone(c),
    rule |-> LegalRuleForStage(IF Status(c) = "OVERDUE" THEN "OVERDUE" ELSE "SUBMITTED") ]

\* No stage of its own for a second appeal.
GovStageFor(c) ==
  IF Status(c) \in {"OVERDUE", "FIRST_APPEAL"} THEN Status(c)
  ELSE IF Status(c) = "RESPONSE_RELEASED" THEN "RESPONSE_RECEIVED"
  ELSE IF DaysRemainingFor(c) <= 5 THEN "RESPONSE_DUE_SOON" ELSE "SUBMITTED"

GovLegalTab(c) ==
  [ clock |-> IF DaysRemainingFor(c) < 0 THEN "Days overdue" ELSE "Days remaining",
    rule |-> LegalRuleForStage(GovStageFor(c)) ]

\* What the workflow tab offers as the next stage, and the items checked.
GovResponseTab(c) ==
  [ next |-> NextGovStage(cases[c].govStage), checked |-> cases[c].checked ]

GovAuditTab(c) == DOMAIN cases[c].audit
=============================================================================
