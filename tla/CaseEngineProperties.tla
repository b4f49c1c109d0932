------------------------ MODULE CaseEngineProperties ------------------------
(***************************************************************************)
(* What the case engine guarantees: first whatever the sessions interleave,*)
(* then when operations do not overlap, then what its comments claim of    *)
(* overlapping operations and the code does not deliver.                   *)
(***************************************************************************)
EXTENDS CaseEngine

\* Types of the seven variables.
TypeOK ==
  /\ clock \in Nat \ {0}
  /\ row \in [Apps -> AppRow]
  /\ events \in [Apps -> Seq(Event)]
  /\ deadlines \in [Apps -> Seq(Deadline)]
  /\ appeals \in [Apps -> Nat]
  /\ ledger \in [Apps -> [Items -> ItemRow]]
  /\ sess \in [Sessions -> Session]

\* The status an event left the case in: creation leaves it in DRAFT.
StatusOf(event) == IF event.type = "DRAFT_CREATED" THEN INITIAL_STATE ELSE event.type

\* Has the application been in status st at or before position n of its log?
WasIn(a, st, n) == \E i \in 1..n : StatusOf(events[a][i]) = st

History(a) == { events[a][i].type : i \in DOMAIN events[a] }

Occurrences(a, type) == Cardinality({ i \in DOMAIN events[a] : events[a][i].type = type })

StatusEvents(a) == { i \in DOMAIN events[a] : events[a][i].type # "INFORMATIONAL" }
-----------------------------------------------------------------------------
(* For any number of overlapping sessions.                                 *)

\* An application under processing always has an ACTIVE response deadline,
\* so a sweep can find it: whatever overlapped, no case waits for an
\* authority with its clock off (service.py, _apply_transition_side_effects).
RightsClockArmed ==
  \A a \in Apps : row[a].status = "UNDER_PROCESSING" =>
    \E i \in DOMAIN deadlines[a] : deadlines[a][i].status = "ACTIVE"

\* Every status in the log is reachable by one edge of the table from a
\* status the case had earlier: stale copies can replay a case from an
\* earlier point but never invent a step (record_event, file_first_appeal,
\* record_response).
HistoryWellFounded ==
  \A a \in Apps : \A n \in DOMAIN events[a] :
    events[a][n].type \in ApplicationStatus =>
      \E i \in 1..(n - 1) :
        IsTransitionAllowed(StatusOf(events[a][i]), events[a][n].type)

\* applications.status is the last status committed to the log, even when
\* the commit that wrote it overwrote another (record_event).
StatusIsLastCommitted ==
  \A a \in Apps : Exists(a) =>
    \E n \in StatusEvents(a) :
      /\ StatusOf(events[a][n]) = row[a].status
      /\ \A m \in StatusEvents(a) : m <= n

\* FIRST_APPEAL_FILED is in the log exactly as often as there is a FIRST
\* appeal row, at most once: racing submissions file one appeal or none
\* (file_first_appeal, uq_appeals_application_appeal_type).
AppealsMatchFilings ==
  \A a \in Apps :
    /\ appeals[a] = Occurrences(a, "FIRST_APPEAL_FILED")
    /\ appeals[a] <= 1

\* A first-appeal draft always finds its ground: a case that is or was
\* eligible for appeal has NO_RESPONSE or INCOMPLETE_RESPONSE in its history,
\* so _grounds_trigger does not raise (appeal_engine/compiler.py).
GroundsAlwaysFound ==
  \A a \in Apps :
    row[a].status \in {"FIRST_APPEAL_ELIGIBLE", "FIRST_APPEAL_FILED",
                       "SECOND_APPEAL_ELIGIBLE"} =>
      History(a) \cap {"NO_RESPONSE", "INCOMPLETE_RESPONSE"} # {}

\* Each dated column is set exactly when its transition is in the log: a
\* stale writer may restamp a date, it never loses one (record_event).
StampsMatchHistory ==
  \A a \in Apps :
    /\ row[a].submitted_at # Null <=> "SUBMITTED" \in History(a)
    /\ row[a].received_at # Null <=> "ACKNOWLEDGED" \in History(a)
    /\ row[a].response_due_at # Null <=> "UNDER_PROCESSING" \in History(a)
    /\ row[a].response_received_at # Null <=> "RESPONSE_RECEIVED" \in History(a)

\* A deadline per UNDER_PROCESSING and none else; one is declared missed only
\* if NO_RESPONSE is in the log, and no more of them than there are NO_RESPONSEs.
DeadlinesMatchHistory ==
  \A a \in Apps :
    /\ Len(deadlines[a]) = Occurrences(a, "UNDER_PROCESSING")
    /\ Cardinality({ i \in DOMAIN deadlines[a] : deadlines[a][i].status = "MISSED" })
         <= Occurrences(a, "NO_RESPONSE")

\* NO_RESPONSE is recorded only for an application one of whose own response
\* deadlines has lapsed, even by a sweep working from an outdated batch
\* (run_deadline_sweep, simulate_deadline_miss).
SilenceOnlyAfterLapse ==
  \A a \in Apps : "NO_RESPONSE" \in History(a) =>
    \E i \in DOMAIN deadlines[a] : deadlines[a][i].due < clock

\* The persisted evidence is always text of a response, and an item leaves
\* PENDING only once a response is in the log (classifier.py record_response).
EvidenceIsFromAResponse ==
  \A a \in Apps : \A i \in Items :
    /\ ledger[a][i].excerpt \in {"absent", "verbatim"}
    /\ ledger[a][i] # NewItem => "RESPONSE_RECEIVED" \in History(a)
-----------------------------------------------------------------------------
(* What a session may count on between its load and its commit, however    *)
(* stale its copies are: the strengthening the proofs induct on.           *)

\* A session between load and commit holds a copy its event is legal for.
Sound(x) ==
  /\ x.pc \notin {"idle", "query", "sweep"} => x.app \in Apps
  /\ x.pc \in {"event", "appeal", "items", "ai", "clock", "silence"} =>
       /\ x.loaded[x.app].status # "NONE"
       /\ x.event # "DRAFT_CREATED"
       /\ x.event \in ApplicationStatus =>
            IsTransitionAllowed(x.loaded[x.app].status, x.event)
  /\ x.pc = "event" => x.event \notin DedicatedEvents
  /\ x.pc = "appeal" => x.event = "FIRST_APPEAL_FILED"
  /\ x.pc \in {"items", "ai"} => x.event = "RESPONSE_RECEIVED"
  /\ x.pc \in {"clock", "silence"} => x.event = "NO_RESPONSE"

SessionsSound == \A s \in Sessions : Sound(sess[s])

\* A status in a row or in any session's copy of it is in the log, which is
\* empty until the row exists.
StatusesAreLogged ==
  \A a \in Apps :
    /\ row[a].status = "NONE" => events[a] = <<>>
    /\ row[a].status # "NONE" => WasIn(a, row[a].status, Len(events[a]))
    /\ \A s \in Sessions : sess[s].loaded[a].status # "NONE" =>
         WasIn(a, sess[s].loaded[a].status, Len(events[a]))
-----------------------------------------------------------------------------
(* When operations do not overlap (one session).                           *)

\* The statuses a log tells, oldest first: informational events have none.
StatusTrail(log) ==
  LET told[n \in 0..Len(log)] ==
        IF n = 0 THEN <<>>
        ELSE IF log[n].type = "INFORMATIONAL" THEN told[n - 1]
        ELSE Append(told[n - 1], StatusOf(log[n]))
  IN told[Len(log)]

\* The lifecycle of CaseLifecycle.tla: what the log tells is its trail, the
\* ACTIVE deadlines are its armed clocks.
Lifecycle == INSTANCE CaseLifecycle WITH
  status <- [a \in Apps |-> row[a].status],
  trail  <- [a \in Apps |-> StatusTrail(events[a])],
  armed  <- [a \in Apps |-> Cardinality(
              { i \in DOMAIN deadlines[a] : deadlines[a][i].status = "ACTIVE" })],
  filed  <- appeals

\* The engine implements the lifecycle.
ImplementsLifecycle == Lifecycle!LifecycleSpec

\* Ordering the log by its timestamps, as list_for_application does, gives
\* a last status event that is applications.status.
LogOrderTellsStatus ==
  \A a \in Apps : Exists(a) =>
    \E n \in StatusEvents(a) :
      /\ StatusOf(events[a][n]) = row[a].status
      /\ \A m \in StatusEvents(a) : events[a][m].at <= events[a][n].at
-----------------------------------------------------------------------------
(* Claims of comments that runs refute.                                    *)

\* service.py: the status moves only along the table.
LegalTransitionsOnly ==
  [][\A a \in Apps : row'[a].status # row[a].status /\ Exists(a) =>
       IsTransitionAllowed(row[a].status, row'[a].status)]_vars

-----------------------------------------------------------------------------
(* Liveness: the scheduler keeps starting sweeps and not every run of a    *)
(* sweep is killed before its commit.                                      *)
SweepFairness ==
  \A s \in Sweepers :
    /\ WF_vars(SweepQuery(s))
    /\ SF_vars(\E a \in Apps : SweepNext(s, a))
    /\ SF_vars(SweepReadClock(s))
    /\ SF_vars(CommitNoResponse(s))

FairSpec == Spec /\ SweepFairness

Lapsed(a) ==
  /\ row[a].status = "UNDER_PROCESSING"
  /\ \E i \in DOMAIN deadlines[a] :
       deadlines[a][i].status = "ACTIVE" /\ deadlines[a][i].due < clock

\* A case whose response deadline has lapsed leaves UNDER_PROCESSING.
LapsedCaseIsDeclared == \A a \in Apps : Lapsed(a) ~> row[a].status # "UNDER_PROCESSING"
=============================================================================
