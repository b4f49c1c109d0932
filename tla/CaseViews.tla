----------------------------- MODULE CaseViews -----------------------------
(***************************************************************************)
(* What every screen reads from the stored cases: the selectors            *)
(* (frontend/src/domain/selectors.ts), the next action (actionEngine.ts),  *)
(* the process rules (legalRules.ts) and the ground of an appeal draft     *)
(* (appealDraft.ts). A list is the set of its case ids; its order is left  *)
(* out. A number that may be missing is a set of at most one.              *)
(***************************************************************************)
EXTENDS SeedWorkspace, FiniteSets

VARIABLES
  cases,  \* the stored records, by Suchna ID
  now     \* the browser's clock, in half days

Where(P(_)) == { c \in DOMAIN cases : P(cases[c]) }
Status(c)   == cases[c].status
Types(c)    == { cases[c].events[i].type : i \in DOMAIN cases[c].events }

\* Math.round of a difference in days: a half is rounded up.
DaysRemainingFor(c) == (cases[c].due - now + 1) \div 2
-----------------------------------------------------------------------------
\* The demo logins have one citizen, who owns every case of the store.
CitizenCases == DOMAIN cases

IsOverdue(r)  == r.status = "OVERDUE"
IsAppeal(r)   == r.status \in {"FIRST_APPEAL", "SECOND_APPEAL"}
IsResolved(r) == r.status \in {"RESPONSE_RELEASED", "CLOSED"}
IsActive(r)   == ~IsResolved(r) /\ ~IsAppeal(r) /\ r.status # "DRAFT"

Overdue   == Where(IsOverdue)
Appeals   == Where(IsAppeal)
Active    == Where(IsActive)
Responded == { c \in DOMAIN cases : Status(c) = "RESPONSE_RELEASED" }

\* Mutant of DueSoon: the last day is not soon any more.
DueSoonButToday ==
  { c \in DOMAIN cases \ (Overdue \cup Appeals) :
      ~IsResolved(cases[c]) /\ DaysRemainingFor(c) \in 1..5 }

DueSoon ==
  { c \in DOMAIN cases \ (Overdue \cup Appeals) :
      ~IsResolved(cases[c]) /\ DaysRemainingFor(c) \in 0..5 }

NeedsAttention == Overdue \cup Appeals \cup DueSoon

\* Every event of the listed cases, and the latest of them: those with fewer
\* than "limit" later ones. Events of the same date are not told apart.
Entries(ids) == UNION { {c} \X DOMAIN cases[c].events : c \in ids }
EntryAt(e)   == cases[e[1]].events[e[2]].at
RecentActivity(ids, limit) ==
  LET all == Entries(ids)
  IN { e \in all : Cardinality({ f \in all : EntryAt(f) > EntryAt(e) }) < limit }

AllDocuments(ids) == UNION { {c} \X DOMAIN cases[c].docs : c \in ids }
-----------------------------------------------------------------------------
\* The rule of a stage: its statutory days (0: none) and what it recommends.
LEGAL_RULES ==
  [ SUBMITTED         |-> [days |-> 30, recommends |-> "monitor"],
    UNDER_REVIEW      |-> [days |-> 5,  recommends |-> "monitor"],
    RESPONSE_DUE_SOON |-> [days |-> 0,  recommends |-> "wait"],
    OVERDUE           |-> [days |-> 30, recommends |-> "file first appeal"],
    RESPONSE_RECEIVED |-> [days |-> 0,  recommends |-> "review response"],
    FIRST_APPEAL      |-> [days |-> 30, recommends |-> "review draft"],
    SECOND_APPEAL     |-> [days |-> 90, recommends |-> "escalate"] ]

LegalRuleForStage(stage) == LEGAL_RULES[stage]

\* The actions that depend on the status alone.
ActionOfStatus ==
  [ FIRST_APPEAL  |-> [label |-> "Review First Appeal", stage |-> "FIRST_APPEAL",
                       urgent |-> FALSE, tab |-> "legal"],
    SECOND_APPEAL |-> [label |-> "Track Second Appeal", stage |-> "SECOND_APPEAL",
                       urgent |-> FALSE, tab |-> "legal"],
    OVERDUE       |-> [label |-> "File First Appeal", stage |-> "OVERDUE",
                       urgent |-> TRUE, tab |-> "legal"],
    RESPONSE_RELEASED |-> [label |-> "Review response", stage |-> "RESPONSE_RECEIVED",
                       urgent |-> FALSE, tab |-> "evidence"],
    CLOSED        |-> [label |-> "View closed case", stage |-> "RESPONSE_RECEIVED",
                       urgent |-> FALSE, tab |-> "overview"] ]

NoActionRequired == [label |-> "No action required", stage |-> "SUBMITTED",
                     urgent |-> FALSE, tab |-> "overview"]

MonitorDeadline(c) == [label |-> "Monitor deadline", stage |-> "RESPONSE_DUE_SOON",
                       urgent |-> DaysRemainingFor(c) <= 2, tab |-> "timeline"]

\* Mutant of ComputeNextAction: a window that lapsed is not monitored.
ComputeNextActionInWindow(c) ==
  IF Status(c) \in DOMAIN ActionOfStatus THEN ActionOfStatus[Status(c)]
  ELSE IF DaysRemainingFor(c) \in 0..5 THEN MonitorDeadline(c) ELSE NoActionRequired

ComputeNextAction(c) ==
  IF Status(c) \in DOMAIN ActionOfStatus THEN ActionOfStatus[Status(c)]
  ELSE IF DaysRemainingFor(c) <= 5 THEN MonitorDeadline(c) ELSE NoActionRequired

\* The ground the appeal draft gives.
AppealGround(c) ==
  IF Status(c) = "OVERDUE" THEN "no response" ELSE "inadequate response"

\* How a clock is coloured: a pill, a table cell or a large figure.
Tone(c) ==
  IF DaysRemainingFor(c) < 0 THEN "danger"
  ELSE IF DaysRemainingFor(c) <= 5 THEN "warn" ELSE "calm"
=============================================================================
