----------------------------- MODULE CaseEngine -----------------------------
(***************************************************************************)
(* The case engine of the backend: applications, their event log, response *)
(* deadlines, first appeals and information ledgers in PostgreSQL at READ  *)
(* COMMITTED, changed by any number of overlapping SQLAlchemy sessions     *)
(* (HTTP requests and runs of the deadline sweep).                         *)
(*                                                                         *)
(* An operation is cut where the code touches the database: it loads rows  *)
(* into its session's identity map, validates against that copy, and       *)
(* commits. A commit writes only the columns that differ from the loaded   *)
(* copy, under no version check, so a commit may overwrite another's.      *)
(* Rows an open transaction has flushed are invisible to others until it   *)
(* commits and block their writers, so flush and commit are one action.    *)
(***************************************************************************)
EXTENDS RtiStateMachine, ResponseAnalysis, Naturals, Sequences, FiniteSets

CONSTANTS
  Apps,            \* applications that may be created
  Workers,         \* sessions of HTTP requests
  Sweepers,        \* sessions of scheduled sweep runs
  NoApp,           \* "no application", not a member of Apps
  ResponsePeriod,  \* the 30 days of rules.py, in clock ticks
  DevTools,        \* is the dev router mounted (environment # production)?
  MaxTime,         \* bound on the clock
  MaxEvents        \* requests begin only while the log is shorter than this

ASSUME NoAppAssumption == NoApp \notin Apps
ASSUME PeriodAssumption == ResponsePeriod \in Nat \ {0}
ASSUME DevToolsAssumption == DevTools \in BOOLEAN
ASSUME BoundsAssumption == MaxTime \in Nat \ {0} /\ MaxEvents \in Nat

Sessions == Workers \cup Sweepers

VARIABLES
  clock,      \* wall-clock time, never zero
  row,        \* row[a]: the applications row; status "NONE" before it exists
  events,     \* events[a]: application_events in commit order
  deadlines,  \* deadlines[a]: the RESPONSE rows of deadlines, oldest first
  appeals,    \* appeals[a]: how many FIRST rows of appeals
  ledger,     \* ledger[a][i]: information_items
  sess        \* sess[s]: what a session has loaded and is about to do

vars == <<clock, row, events, deadlines, appeals, ledger, sess>>
-----------------------------------------------------------------------------
(* Rows. A timestamp that is not set yet (SQL NULL) is Null.               *)

Null == 0
Time == Nat

\* Any other event type a client may post stands as "INFORMATIONAL".
EventType == ApplicationStatus \cup {"DRAFT_CREATED", "INFORMATIONAL"}

AppRow == [ status : ApplicationStatus \cup {"NONE"},
            submitted_at : Time, received_at : Time,
            response_due_at : Time, response_received_at : Time ]
Event    == [type : EventType, at : Time]
Deadline == [starts : Time, due : Time, status : {"ACTIVE", "MISSED"}, completed : Time]

NoRow == [ status |-> "NONE", submitted_at |-> Null, received_at |-> Null,
           response_due_at |-> Null, response_received_at |-> Null ]
Exists(a) == row[a].status # "NONE"

(* Sessions. "loaded" is the identity map (NoRow: not loaded or expired),  *)
(* "items" the loaded ledger, "seen" the ACTIVE deadline NO_RESPONSE found *)
(* (0: none), "batch" what a sweep has left, "start" the time its          *)
(* transaction began.                                                      *)
Pc == {"idle", "event", "appeal", "items", "ai", "backdate", "query",
       "sweep", "clock", "silence"}

Session == [ pc : Pc, app : Apps \cup {NoApp}, event : EventType,
             loaded : [Apps -> AppRow], items : [Items -> ItemRow],
             seen : Nat, batch : SUBSET Apps, start : Time ]

NothingLoaded == [a \in Apps |-> NoRow]
IdleSession ==
  [ pc |-> "idle", app |-> NoApp, event |-> "INFORMATIONAL",
    loaded |-> NothingLoaded, items |-> [i \in Items |-> NewItem],
    seen |-> 0, batch |-> {}, start |-> Null ]

Goto(s, new) == sess' = [sess EXCEPT ![s] = new]
Release(s)   == Goto(s, IdleSession)

Database == <<row, events, deadlines, appeals, ledger>>
-----------------------------------------------------------------------------
(* Reads.                                                                  *)

\* The copy Session.get returns: the identity map's, else a fresh one.
GetById(s, a) == IF sess[s].loaded[a] = NoRow THEN row[a] ELSE sess[s].loaded[a]

\* Mutant of Holding: the transaction's start is never recorded.
HoldingUndated(pc, a, event) ==
  [IdleSession EXCEPT !.pc = pc, !.app = a, !.event = event, !.loaded[a] = row[a]]

\* A session that has loaded application a and is about to do "event" to it.
Holding(pc, a, event) ==
  [IdleSession EXCEPT !.pc = pc, !.app = a, !.event = event,
                      !.loaded[a] = row[a], !.start = clock]

LatestDeadlines(a) ==
  { i \in DOMAIN deadlines[a] :
      \A j \in DOMAIN deadlines[a] : deadlines[a][j].due <= deadlines[a][i].due }

\* The deadline NO_RESPONSE will mark: the latest one if it is ACTIVE, else 0.
DeadlineToMiss(a) ==
  IF deadlines[a] = <<>> THEN {0}
  ELSE { IF deadlines[a][i].status = "ACTIVE" THEN i ELSE 0 : i \in LatestDeadlines(a) }

IsPastDue(d) == d.status = "ACTIVE" /\ d.due < clock

\* Mutants of DueApplications: it joins no deadline to its application; it
\* looks for deadlines of the wrong status.
DueApplicationsUnjoined ==
  { a \in Apps : /\ row[a].status = "UNDER_PROCESSING"
                 /\ \E b \in Apps : \E i \in DOMAIN deadlines[b] : IsPastDue(deadlines[b][i]) }

DueApplicationsAlreadyMissed ==
  { a \in Apps : /\ row[a].status = "UNDER_PROCESSING"
                 /\ \E i \in DOMAIN deadlines[a] : deadlines[a][i].status = "MISSED" }

DueApplications ==
  { a \in Apps : /\ row[a].status = "UNDER_PROCESSING"
                 /\ \E i \in DOMAIN deadlines[a] : IsPastDue(deadlines[a][i]) }
-----------------------------------------------------------------------------
(* record_event: the only path that writes applications.status.            *)

StandardResponseDue(received_at) == received_at + ResponsePeriod

OrNow(stamp) == IF stamp = Null THEN clock ELSE stamp

\* The session's copy after the transition and its side effects.
Transitioned(r, e) ==
  CASE e = "SUBMITTED"    -> [r EXCEPT !.status = e, !.submitted_at = OrNow(@)]
    [] e = "ACKNOWLEDGED" -> [r EXCEPT !.status = e, !.received_at = OrNow(@)]
    [] e = "UNDER_PROCESSING" ->
         [r EXCEPT !.status = e,
                   !.response_due_at = StandardResponseDue(OrNow(r.received_at))]
    [] e = "RESPONSE_RECEIVED" ->
         [r EXCEPT !.status = e, !.response_received_at = OrNow(@)]
    [] e \in {"DRAFT_CREATED", "INFORMATIONAL"} -> r
    [] OTHER -> [r EXCEPT !.status = e]

\* Mutant of Written: an UPDATE of every column, as a full-row save would issue.
WrittenAlways(old, new, stored) == new

\* A flush writes a column only where the copy was changed since it was loaded.
Written(old, new, stored) == IF new = old THEN stored ELSE new

FlushedRow(old, new, stored) ==
  [ status |-> Written(old.status, new.status, stored.status),
    submitted_at |-> Written(old.submitted_at, new.submitted_at, stored.submitted_at),
    received_at |-> Written(old.received_at, new.received_at, stored.received_at),
    response_due_at |->
      Written(old.response_due_at, new.response_due_at, stored.response_due_at),
    response_received_at |->
      Written(old.response_received_at, new.response_received_at,
              stored.response_received_at) ]

FlushedItem(old, new, stored) ==
  [ status  |-> Written(old.status, new.status, stored.status),
    excerpt |-> Written(old.excerpt, new.excerpt, stored.excerpt) ]

\* Mutants of ClockAfter: a deadline is created only if there is none; a
\* transfer starts a second one.
ClockAfterGetOrCreate(r, e, seen, stored) ==
  CASE e = "UNDER_PROCESSING" /\ stored = <<>> ->
         << [ starts |-> r.received_at, due |-> StandardResponseDue(r.received_at),
              status |-> "ACTIVE", completed |-> Null ] >>
    [] e = "NO_RESPONSE" /\ seen \in DOMAIN stored ->
         [stored EXCEPT ![seen].status = "MISSED", ![seen].completed = clock]
    [] OTHER -> stored

ClockAfterTransferToo(r, e, seen, stored) ==
  IF e \in {"UNDER_PROCESSING", "TRANSFERRED"}
  THEN Append(stored, [ starts |-> clock, due |-> StandardResponseDue(clock),
                        status |-> "ACTIVE", completed |-> Null ])
  ELSE stored

\* The Rights Clock: UNDER_PROCESSING starts a deadline, NO_RESPONSE marks
\* the one it read as missed; no other event touches the deadlines.
ClockAfter(r, e, seen, stored) ==
  CASE e = "UNDER_PROCESSING" ->
         Append(stored, [ starts |-> OrNow(r.received_at),
                          due |-> StandardResponseDue(OrNow(r.received_at)),
                          status |-> "ACTIVE", completed |-> Null ])
    [] e = "NO_RESPONSE" /\ seen \in DOMAIN stored ->
         [stored EXCEPT ![seen].status = "MISSED", ![seen].completed = clock]
    [] OTHER -> stored

\* Commit the event the session is about to record on its application.
\* The event's timestamp is the start of its transaction.
RecordEvent(s) ==
  LET a == sess[s].app
      e == sess[s].event
      r == sess[s].loaded[a]
  IN /\ row' = [row EXCEPT ![a] = FlushedRow(r, Transitioned(r, e), @)]
     /\ deadlines' = [deadlines EXCEPT ![a] = ClockAfter(r, e, sess[s].seen, @)]
     /\ events' = [events EXCEPT ![a] = Append(@, [type |-> e, at |-> sess[s].start])]
     /\ UNCHANGED clock
-----------------------------------------------------------------------------
(* POST /applications: one transaction that inserts the row, its ledger    *)
(* and its first event.                                                    *)
CreateApplication(a) ==
  /\ ~Exists(a)
  /\ row' = [row EXCEPT ![a].status = INITIAL_STATE]
  /\ events' = [events EXCEPT ![a] = <<[type |-> "DRAFT_CREATED", at |-> clock]>>]
  /\ UNCHANGED <<clock, deadlines, appeals, ledger, sess>>

(* POST /applications/{id}/events. An illegal transition is answered 409   *)
(* and changes nothing, so only legal requests are steps.                  *)
\* Mutant of DedicatedEvents: a client may post the filing of an appeal.
DedicatedEventsWithoutFiling == { "NO_RESPONSE", "RESPONSE_RECEIVED" }

DedicatedEvents == {"NO_RESPONSE", "RESPONSE_RECEIVED", "FIRST_APPEAL_FILED"}

CanBegin(s, a) ==
  /\ sess[s].pc = "idle"
  /\ Exists(a)
  /\ Len(events[a]) < MaxEvents

\* Mutant of PostEvent: the event endpoint skips validate_transition.
PostEventUnchecked(s, a, e) ==
  /\ CanBegin(s, a)
  /\ e \notin DedicatedEvents
  /\ Goto(s, Holding("event", a, e))
  /\ UNCHANGED <<clock, Database>>

PostEvent(s, a, e) ==
  /\ CanBegin(s, a)
  /\ e \notin DedicatedEvents
  /\ e \in ApplicationStatus => IsTransitionAllowed(row[a].status, e)
  /\ Goto(s, Holding("event", a, e))
  /\ UNCHANGED <<clock, Database>>

CommitEvent(s) ==
  /\ sess[s].pc = "event"
  /\ RecordEvent(s)
  /\ Release(s)
  /\ UNCHANGED <<appeals, ledger>>

(* Mutants of BeginAppeal and CommitAppeal: filing without the up-front    *)
(* check of the status, and without the unique constraint.                 *)
BeginAppealUnchecked(s, a) ==
  /\ CanBegin(s, a)
  /\ Goto(s, Holding("appeal", a, "FIRST_APPEAL_FILED"))
  /\ UNCHANGED <<clock, Database>>

CommitAppealTwice(s) ==
  LET a == sess[s].app
  IN /\ sess[s].pc = "appeal"
     /\ appeals' = [appeals EXCEPT ![a] = @ + 1]
     /\ RecordEvent(s)
     /\ Release(s)
     /\ UNCHANGED ledger

(* POST /applications/{id}/appeal/file: the FIRST row and the event are    *)
(* one transaction; the unique constraint refuses a second row.            *)
BeginAppeal(s, a) ==
  /\ CanBegin(s, a)
  /\ IsTransitionAllowed(row[a].status, "FIRST_APPEAL_FILED")
  /\ Goto(s, Holding("appeal", a, "FIRST_APPEAL_FILED"))
  /\ UNCHANGED <<clock, Database>>

CommitAppeal(s) ==
  LET a == sess[s].app
  IN /\ sess[s].pc = "appeal"
     /\ appeals[a] = 0
     /\ appeals' = [appeals EXCEPT ![a] = @ + 1]
     /\ RecordEvent(s)
     /\ Release(s)
     /\ UNCHANGED ledger

(* POST /applications/{id}/response: validate, read the ledger, wait for   *)
(* the model (up to two calls of 30 s), then commit against the copies     *)
(* loaded before the wait.                                                 *)
BeginResponse(s, a) ==
  /\ CanBegin(s, a)
  /\ IsTransitionAllowed(row[a].status, "RESPONSE_RECEIVED")
  /\ Goto(s, Holding("items", a, "RESPONSE_RECEIVED"))
  /\ UNCHANGED <<clock, Database>>

ReadItems(s) ==
  /\ sess[s].pc = "items"
  /\ Goto(s, [sess[s] EXCEPT !.pc = "ai", !.items = ledger[sess[s].app]])
  /\ UNCHANGED <<clock, Database>>

CommitResponse(s, output) ==
  LET a == sess[s].app
      new == ApplyOutput(sess[s].items, output)
  IN /\ sess[s].pc = "ai"
     /\ ledger' = [ledger EXCEPT ![a] =
          [i \in Items |-> FlushedItem(sess[s].items[i], new[i], ledger[a][i])]]
     /\ RecordEvent(s)
     /\ Release(s)
     /\ UNCHANGED appeals

(* The request fails before its commit: the model's answer is unusable, a  *)
(* constraint refuses the flush, the connection or the process dies. The   *)
(* transaction rolls back and a sweep drops the rest of its batch.         *)
Abort(s) ==
  /\ sess[s].pc # "idle"
  /\ Release(s)
  /\ UNCHANGED <<clock, Database>>
-----------------------------------------------------------------------------
(* The deadline sweep, run by the scheduler or by simulate-deadline-miss.  *)

\* Load every due application; an empty result ends the run.
SweepQuery(s) ==
  /\ \/ s \in Sweepers /\ sess[s].pc = "idle" /\ DueApplications # {}
     \/ sess[s].pc = "query"
  /\ IF DueApplications = {}
     THEN Release(s)
     ELSE Goto(s, [IdleSession EXCEPT
                     !.pc = "sweep", !.batch = DueApplications, !.start = clock,
                     !.loaded = [a \in Apps |-> IF a \in DueApplications
                                                THEN row[a] ELSE NoRow]])
  /\ UNCHANGED <<clock, Database>>

\* The state of a sweep whose batch is now "left".
SweepOn(s, left) ==
  IF left = {} THEN Release(s)
  ELSE Goto(s, [sess[s] EXCEPT !.pc = "sweep", !.app = NoApp, !.batch = left])

\* Take the next application. Its copy is the query's for the first one and
\* is read afresh after a commit of this run; one no longer eligible is skipped.
SweepNext(s, a) ==
  /\ sess[s].pc = "sweep"
  /\ a \in sess[s].batch
  /\ LET left == sess[s].batch \ {a}
         r == GetById(s, a)
     IN IF IsTransitionAllowed(r.status, "NO_RESPONSE")
        THEN Goto(s, [sess[s] EXCEPT !.pc = "clock", !.app = a, !.batch = left,
                                     !.event = "NO_RESPONSE", !.loaded[a] = r])
        ELSE SweepOn(s, left)
  /\ UNCHANGED <<clock, Database>>

SweepReadClock(s) ==
  /\ sess[s].pc = "clock"
  /\ \E i \in DeadlineToMiss(sess[s].app) :
       Goto(s, [sess[s] EXCEPT !.pc = "silence", !.seen = i])
  /\ UNCHANGED <<clock, Database>>

\* The commit expires every loaded copy, and reading the event back begins
\* the transaction of the next application.
CommitNoResponse(s) ==
  /\ sess[s].pc = "silence"
  /\ RecordEvent(s)
  /\ IF sess[s].batch = {} THEN Release(s)
     ELSE Goto(s, [IdleSession EXCEPT !.pc = "sweep", !.batch = sess[s].batch,
                                      !.start = clock])
  /\ UNCHANGED <<appeals, ledger>>

(* POST /dev/applications/{id}/simulate-deadline-miss: backdate the latest *)
(* deadline, commit, then run the sweep in the same session.               *)
BeginSimulate(s, a) ==
  /\ DevTools
  /\ CanBegin(s, a)
  /\ \E i \in DeadlineToMiss(a) \ {0} :
       Goto(s, [Holding("backdate", a, "INFORMATIONAL") EXCEPT !.seen = i])
  /\ UNCHANGED <<clock, Database>>

Backdate(s) ==
  /\ sess[s].pc = "backdate"
  /\ deadlines' = [deadlines EXCEPT ![sess[s].app][sess[s].seen].due = clock - 1]
  /\ Goto(s, [IdleSession EXCEPT !.pc = "query"])
  /\ UNCHANGED <<clock, row, events, appeals, ledger>>

Tick ==
  /\ clock < MaxTime
  /\ clock' = clock + 1
  /\ UNCHANGED <<Database, sess>>
-----------------------------------------------------------------------------
Init ==
  /\ clock = 1
  /\ row = [a \in Apps |-> NoRow]
  /\ events = [a \in Apps |-> <<>>]
  /\ deadlines = [a \in Apps |-> <<>>]
  /\ appeals = [a \in Apps |-> 0]
  /\ ledger = [a \in Apps |-> [i \in Items |-> NewItem]]
  /\ sess = [s \in Sessions |-> IdleSession]

Request(s) ==
  \/ \E a \in Apps :
       \/ \E e \in EventType \ {"DRAFT_CREATED"} : PostEvent(s, a, e)
       \/ BeginAppeal(s, a)
       \/ BeginResponse(s, a)
       \/ BeginSimulate(s, a)
  \/ CommitEvent(s)
  \/ CommitAppeal(s)
  \/ ReadItems(s)
  \/ \E output \in AiOutput : CommitResponse(s, output)
  \/ Backdate(s)

Sweep(s) ==
  \/ SweepQuery(s)
  \/ \E a \in Apps : SweepNext(s, a)
  \/ SweepReadClock(s)
  \/ CommitNoResponse(s)

Next ==
  \/ Tick
  \/ \E a \in Apps : CreateApplication(a)
  \/ \E s \in Workers : Request(s)
  \/ \E s \in Sessions : Sweep(s) \/ Abort(s)

Spec == Init /\ [][Next]_vars
=============================================================================
