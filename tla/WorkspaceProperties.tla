------------------------ MODULE WorkspaceProperties ------------------------
(* What the screens of the two sides promise about the cases they show.    *)
EXTENDS Workspace
-----------------------------------------------------------------------------
(* Sessions.                                                               *)

\* Whatever a suspended load navigates to and whoever signed in meanwhile,
\* a step that changes the screen lands on the pages of the role signed in
\* (ProtectedRoute.tsx: a citizen at /gov is sent to the citizen home).
RightDoor ==
  [][ (screen' # screen /\ screen' \in Role) => screen' = session'.role ]_vars

\* A demo session at its pages has the seeded cases, or their load is under
\* way: also when the tab was closed in the middle of the first load
\* (App.tsx: a demo session loads the workspace again on start).
DemoSessionIsSeeded ==
  (session.demo /\ screen \in Role) =>
    (demo /\ SeedIds \subseteq DOMAIN cases) \/ \E load \in pending : load.build
-----------------------------------------------------------------------------
(* The two desks.                                                          *)

\* The cases whose window has lapsed while their status still says they wait:
\* the code has a step that marks them OVERDUE and never takes it (store.ts:296).
LapsedUnmarked ==
  { c \in DOMAIN cases : IsActive(cases[c]) /\ ~IsOverdue(cases[c]) /\ DaysRemainingFor(c) < 0 }

\* Both sides have the same open cases, each once: My RTIs' Active and its three
\* views, the officer's open requests, the authorities' open cases and the three
\* groups of the officer's deadline page. "Active", "overdue" and "due soon" do
\* not mean the same on every screen, as selectors.ts has it, but what a screen
\* lists beyond another is known:
\*  - the citizen's overview leaves the appeals out of Active, My RTIs does not;
\*  - the officer's deadline page goes by the date: its Overdue is Operations', the
\*    unmarked cases and lapsed appeals, its week Operations' due soon and appeals,
\*    and the badge that leads there counts neither appeals nor unmarked cases;
\*  - the authorities' overdue is Operations' and the first appeals, their due soon
\*    the deadline page's week and what was answered in the last days of a window;
\*    both together are the officer's urgent cases, and Analytics' overdue rate is
\*    that of the authorities.
\* The other badges count what their pages list, and the latest activity of the
\* citizen's overview is on the officer's.
OpenCasesAccounted ==
  LET mine == MyCasesPage
      operations == GovOperationsPage
      metrics == ComputeAuthorityMetrics
      groups == GovDeadlinesPage
      column == ResponseReviewPage.column
      count(S) == Cardinality(S)
      late == UNION { metrics[a].overdue : a \in DOMAIN metrics }
      soon == UNION { metrics[a].dueSoon : a \in DOMAIN metrics }
  IN /\ count(mine.active) = operations.open
     /\ mine.active = UNION { metrics[a].open : a \in DOMAIN metrics }
     /\ mine.active = groups.overdue \cup groups.thisWeek \cup groups.later
     /\ count(mine.active) = count(groups.overdue) + count(groups.thisWeek) + count(groups.later)
     /\ mine.active = mine.awaiting \cup mine.overdue \cup mine.appeals
     /\ CitizenOverviewPage.active = mine.active \ mine.appeals
     /\ groups.overdue \ groups.appeals = operations.overdue \cup LapsedUnmarked
     /\ groups.thisWeek \ groups.appeals = operations.dueSoon
     /\ GovShell.deadlines + count(LapsedUnmarked)
          = count((groups.overdue \cup groups.thisWeek) \ groups.appeals)
     /\ late = operations.overdue \cup GovAppealsPage.first
     /\ soon = groups.thisWeek \cup { c \in mine.responded : DaysRemainingFor(c) \in 0..5 }
     /\ GovCaseQueuePage.URGENT = late \cup soon
     /\ AnalyticsPage.overdueRate = Percent(late, DOMAIN cases)
     /\ CitizenShell.deadlines = count(DeadlinesPage.overdue \cup DeadlinesPage.dueSoon)
     /\ CitizenShell.appeals =
          count({ c \in DOMAIN LegalReferencePage : LegalReferencePage[c] = "filed" })
     /\ GovShell.review = count(column["UNDER_REVIEW"]) + count(column["INFO_LOCATED"])
     /\ GovShell.appeals = count(GovAppealsPage.first \cup GovAppealsPage.second)
     /\ CitizenOverviewPage.activity \subseteq operations.activity

\* The surfaces that go by the status offer the first appeal together or not at
\* all: the next action of the deadline page and of the case (actionEngine.ts:
\* its callers "can never disagree with each other"), the legal tab, the legal
\* reference, the officer's list of eligible cases, the chip of the case and both
\* desks' rule for it; and then nothing was answered and the date has passed. The
\* officer's deadline page goes by the date and does disagree: it calls eligible
\* those cases and, besides, exactly the lapsed cases nothing has marked and the
\* lapsed appeals, which no other surface offers.
RemedyOfferedTogether ==
  LET deadlines == DeadlinesPage
      reference == LegalReferencePage
      byDate == GovDeadlinesPage.appealEligible
  IN \A c \in DOMAIN cases :
    LET offered == CaseLegalTab(c).canAppeal
    IN /\ offered <=> CaseOverviewTab(c).action.label = "File First Appeal"
       /\ offered <=> deadlines.rows[c].action.label = "File First Appeal"
       /\ offered <=> CaseLegalTab(c).rule.recommends = "file first appeal"
       /\ offered <=> GovLegalTab(c).rule.recommends = "file first appeal"
       /\ offered <=> GovOverviewTab(c).rule.recommends = "file first appeal"
       /\ offered <=> c \in GovAppealsPage.eligible
       /\ offered <=> c \in DOMAIN reference /\ reference[c] = "available"
       /\ offered <=> GovCaseHeader(c).overdueChip
       /\ offered => /\ CaseLegalTab(c).ground = "no response" /\ ~CaseHeader(c).response
                     /\ c \in byDate
       /\ c \in byDate /\ ~offered
            <=> c \in LapsedUnmarked \/ (CaseLegalTab(c).filed /\ DaysRemainingFor(c) < 0)

\* Once the window of an open case has lapsed (appeals aside), the clocks of both
\* sides show it overdue, its next action is urgent, and it is in no list of cases
\* on track, due this week or later. What else is said of it goes by the status. A
\* case marked OVERDUE is a matter for a first appeal in both desks' rules, under
\* "Action required" on both sides, and urgent and red for the officer. One that
\* nothing has marked is none of that: the rules say to wait and to monitor, it is
\* under neither "Action required" nor urgent, and its bar is plain.
LapseShownByClocks ==
  LET deadlines == DeadlinesPage
      clocks == GovDeadlinesPage
  IN \A c \in MyCasesPage.active \ MyCasesPage.appeals :
    DaysRemainingFor(c) < 0 =>
      /\ ComputeNextAction(c).urgent /\ deadlines.rows[c].action.urgent
      /\ CaseHeader(c).deadline = "overdue" /\ CaseOverviewTab(c).deadline = "overdue"
      /\ CaseTimelineTab(c).tone = "danger" /\ Row(c).tone = "danger"
      /\ GovCaseHeader(c).deadline = "overdue" /\ GovLegalTab(c).clock = "Days overdue"
      /\ GovOverviewTab(c).tone = "danger"
      /\ c \notin deadlines.onTrack \cup clocks.later \cup clocks.thisWeek
      /\ LET advice == { CaseLegalTab(c).rule.recommends, GovLegalTab(c).rule.recommends,
                         GovOverviewTab(c).rule.recommends }
             attention == { DOMAIN CitizenOverviewPage.attention, GovOperationsPage.queue,
                            GovCaseQueuePage.URGENT }
         IN IF c \notin LapsedUnmarked
            THEN /\ advice = {"file first appeal"} /\ Row(c).priority = "red"
                 /\ \A list \in attention : c \in list
            ELSE /\ advice = {"wait", "monitor"} /\ Row(c).priority = "plain"
                 /\ \A list \in attention : c \notin list

\* A released response shows as received on both sides, whatever it was released
\* over, an overdue case and an appeal too (GovResponseTab.advance), and no list
\* of cases to act on that looks at the status has it. What looks at the date alone
\* goes on as if nothing had been answered: the citizen's deadlines have the case
\* on track until its last five days, in these the officer's urgent cases and the
\* authorities' due soon have it, with an amber bar, and then both clocks show it
\* overdue. The citizen's table of all deadlines keeps it, to review the response.
ReleasedKeptByDateOnly ==
  LET mine == MyCasesPage
      queue == GovCaseQueuePage
      clocks == GovDeadlinesPage
      metrics == ComputeAuthorityMetrics
      todo == mine.active \cup DOMAIN CitizenOverviewPage.attention \cup CitizenOverviewPage.upcoming
                \cup DOMAIN LegalReferencePage \cup GovOperationsPage.queue
                \cup GovOperationsPage.awaiting \cup clocks.overdue \cup clocks.thisWeek
                \cup clocks.later \cup GovAppealsPage.eligible \cup GovAppealsPage.listed
  IN \A c \in ResponseReviewPage.released :
    LET at == metrics[cases[c].authority]
        lastDays == DaysRemainingFor(c) \in 0..5
    IN /\ c \in mine.responded /\ c \in queue.RESPONSE_RELEASED
       /\ CaseHeader(c).response /\ GovCaseHeader(c).sent /\ CaseOverviewTab(c).received
       /\ CaseOverviewTab(c).action.label = "Review response"
       /\ c \notin todo \cup at.open \cup at.overdue /\ GovResponseTab(c).next = {}
       /\ c \in queue.URGENT <=> lastDays
       /\ c \in at.dueSoon <=> lastDays
       /\ Row(c).priority = IF lastDays THEN "amber" ELSE "plain"
       /\ c \in DeadlinesPage.onTrack <=> DaysRemainingFor(c) > 5
       /\ CaseHeader(c).deadline = "overdue" <=> DaysRemainingFor(c) < 0
       /\ GovCaseHeader(c).deadline = "overdue" <=> DaysRemainingFor(c) < 0
       /\ DeadlinesPage.rows[c].action.label = "Review response"

\* An open case is among the upcoming deadlines before it shows as lapsed:
\* time alone never moves it from on track to overdue (OverviewPage.tsx: "you're
\* told before it lapses, not after").
WarnedBeforeLapse ==
  [][ \A c \in DOMAIN cases \cap DOMAIN cases' :
        (c \in Active /\ ~IsOverdue(cases[c]) /\ DaysRemainingFor(c) >= 0
           /\ DaysRemainingFor(c)' < 0 /\ c \in GovDeadlinesPage.overdue')
          => c \in CitizenOverviewPage.upcoming ]_vars
-----------------------------------------------------------------------------
(* What the screens say and the code does not do.                          *)

\* A case whose window lapsed without a response is some day offered as an
\* appeal, answered or cleared (LoginPage.tsx: "Missed deadlines become
\* drafted appeals").
LapseOffersAppeal ==
  \A c \in Ids :
    (c \in DOMAIN cases /\ DaysRemainingFor(c) < 0 /\ ~CaseHeader(c).response)
      ~> (c \notin DOMAIN cases \/ CaseLegalTab(c).canAppeal
            \/ CaseLegalTab(c).filed \/ CaseHeader(c).response)
=============================================================================
