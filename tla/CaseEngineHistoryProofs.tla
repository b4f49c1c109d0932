----------------------- MODULE CaseEngineHistoryProofs -----------------------
(***************************************************************************)
(* Proofs that rows, dates, appeals, ledger and silence agree with the log *)
(* of a case, for any set of applications and any number of sessions.      *)
(***************************************************************************)
EXTENDS CaseEngineProofs, FiniteSetTheorems

-----------------------------------------------------------------------------
(* One application during one step.                                        *)

CommitsOn(s, a) == /\ sess[s].pc \in Committing
                   /\ RecordEvent(s)
                   /\ sess[s].app = a

Recorded(s) == [type |-> sess[s].event, at |-> sess[s].start]

\* A step creates an application, commits an event on it or leaves its row
\* and its log alone.
LEMMA LogStep ==
  ASSUME TypeOK, SessionsSound, [Next]_vars, NEW a \in Apps
  PROVE  \/ CreateApplication(a)
         \/ \E s \in Sessions : CommitsOn(s, a)
         \/ row'[a] = row[a] /\ events'[a] = events[a]
<1>1. ASSUME NEW b \in Apps \ {a}, CreateApplication(b)
      PROVE  row'[a] = row[a] /\ events'[a] = events[a]
  BY <1>1 DEF CreateApplication, TypeOK
<1>2. ASSUME NEW s \in Sessions, sess[s].pc \in Committing, RecordEvent(s), sess[s].app # a
      PROVE  row'[a] = row[a] /\ events'[a] = events[a]
  BY <1>2 DEF RecordEvent, TypeOK
<1> QED
  BY <1>1, <1>2, StepKinds DEF CommitsOn, Backdate

\* What creation leaves.
LEMMA Creation ==
  ASSUME TypeOK, NEW a \in Apps, CreateApplication(a)
  PROVE  /\ events'[a] = <<[type |-> "DRAFT_CREATED", at |-> clock]>>
         /\ row'[a] = [row[a] EXCEPT !.status = INITIAL_STATE]
         /\ row[a].status = "NONE"
         /\ deadlines' = deadlines /\ appeals' = appeals /\ ledger' = ledger /\ sess' = sess
BY DEF CreateApplication, TypeOK, Exists

\* What a commit leaves: its event at the end of the log, and its status.
LEMMA Commitment ==
  ASSUME TypeOK, SessionsSound, NEW s \in Sessions, NEW a \in Apps, CommitsOn(s, a)
  PROVE  /\ events[a] \in Seq(Event)
         /\ Recorded(s) \in Event
         /\ events'[a] = Append(events[a], Recorded(s))
         /\ Recorded(s).type = sess[s].event
         /\ sess[s].event \in EventType \ {"DRAFT_CREATED"}
         /\ row'[a].status = IF sess[s].event \in ApplicationStatus THEN sess[s].event
                             ELSE row[a].status
<1>1. Recorded(s) \in Event /\ Recorded(s).type = sess[s].event
  BY DEF TypeOK, Session, Event, Recorded
<1>2. events' = [events EXCEPT ![a] = Append(@, Recorded(s))]
  BY DEF CommitsOn, RecordEvent, Recorded
<1> QED
  BY <1>1, <1>2, CommitEffect DEF CommitsOn, TypeOK
-----------------------------------------------------------------------------
(* The status.                                                             *)

\* Does the log end, but for informational events, in status st?
EndsIn(log, st) ==
  \E n \in DOMAIN log : /\ log[n].type # "INFORMATIONAL"
                        /\ StatusOf(log[n]) = st
                        /\ \A m \in DOMAIN log : log[m].type # "INFORMATIONAL" => m <= n

LEMMA StatusIsLastEnds ==
  StatusIsLastCommitted <=> \A a \in Apps : row[a].status # "NONE" => EndsIn(events[a], row[a].status)
BY DEF StatusIsLastCommitted, EndsIn, StatusEvents, Exists

\* An event appended to a log ends it in its status, or leaves its end alone.
LEMMA EndsAfterAppend ==
  ASSUME NEW log \in Seq(Event), NEW x \in Event, NEW st
  PROVE  /\ x.type # "INFORMATIONAL" => EndsIn(Append(log, x), StatusOf(x))
         /\ x.type = "INFORMATIONAL" /\ EndsIn(log, st) => EndsIn(Append(log, x), st)
<1> DEFINE longer == Append(log, x)
           n == Len(log) + 1
<1>1. /\ DOMAIN log = 1..Len(log) /\ DOMAIN longer = 1..n /\ Len(log) \in Nat
      /\ longer[n] = x /\ \A m \in DOMAIN log : longer[m] = log[m]
  OBVIOUS
<1> HIDE DEF longer
<1>2. x.type # "INFORMATIONAL" => EndsIn(longer, StatusOf(x))
  BY <1>1 DEF EndsIn, StatusOf
<1>3. ASSUME x.type = "INFORMATIONAL", EndsIn(log, st) PROVE EndsIn(longer, st)
  <2>1. PICK k \in DOMAIN log : /\ log[k].type # "INFORMATIONAL" /\ StatusOf(log[k]) = st
                                /\ \A m \in DOMAIN log : log[m].type # "INFORMATIONAL" => m <= k
    BY <1>3 DEF EndsIn
  <2>2. k \in DOMAIN longer /\ longer[k].type # "INFORMATIONAL" /\ StatusOf(longer[k]) = st
    BY <1>1, <2>1 DEF StatusOf
  <2>3. \A m \in DOMAIN longer : longer[m].type # "INFORMATIONAL" => m <= k
    BY <1>1, <1>3, <2>1
  <2> QED
    BY <2>2, <2>3 DEF EndsIn
<1> QED
  BY <1>2, <1>3 DEF longer

LEMMA NextStatusIsLast ==
  ASSUME TypeOK, SessionsSound, StatusIsLastCommitted, [Next]_vars
  PROVE  StatusIsLastCommitted'
<1> SUFFICES ASSUME NEW a \in Apps, row'[a].status # "NONE"
             PROVE  EndsIn(events'[a], row'[a].status)
  BY DEF StatusIsLastCommitted, EndsIn, StatusEvents, Exists, StatusOf
<1>0. row[a].status # "NONE" => EndsIn(events[a], row[a].status)
  BY StatusIsLastEnds
<1>1. CASE CreateApplication(a)
  <2>1. row'[a].status = INITIAL_STATE
    BY <1>1, Creation DEF TypeOK, AppRow
  <2>2. events'[a] = <<[type |-> "DRAFT_CREATED", at |-> clock]>>
    BY <1>1, Creation
  <2> QED
    BY <2>1, <2>2 DEF EndsIn, StatusOf
<1>2. ASSUME NEW s \in Sessions, CommitsOn(s, a) PROVE EndsIn(events'[a], row'[a].status)
  <2> DEFINE x == Recorded(s)
  <2>1. /\ events[a] \in Seq(Event) /\ x \in Event
        /\ events'[a] = Append(events[a], x)
        /\ x.type \in EventType \ {"DRAFT_CREATED"}
        /\ row'[a].status = IF x.type \in ApplicationStatus THEN x.type ELSE row[a].status
    BY <1>2, Commitment
  <2> HIDE DEF x
  <2>2. CASE x.type \in ApplicationStatus
    <3>1. x.type # "INFORMATIONAL" /\ StatusOf(x) = row'[a].status
      BY <2>1, <2>2 DEF StatusOf, ApplicationStatus
    <3> QED
      BY <2>1, <3>1, EndsAfterAppend
  <2>3. CASE x.type = "INFORMATIONAL"
    <3>1. row'[a].status = row[a].status
      BY <2>1, <2>3 DEF ApplicationStatus
    <3> QED
      BY <1>0, <2>1, <2>3, <3>1, EndsAfterAppend
  <2> QED
    BY <2>1, <2>2, <2>3 DEF EventType
<1>3. CASE row'[a] = row[a] /\ events'[a] = events[a]
  BY <1>0, <1>3
<1> QED
  BY <1>1, <1>2, <1>3, LogStep

\* The status column is the last status committed to the log, for any number
\* of overlapping requests and sweeps: a commit that overwrites another's
\* status appends its own event after it.
THEOREM StatusIsLast == Spec => []StatusIsLastCommitted
<1>1. Init => StatusIsLastCommitted
  BY DEF Init, StatusIsLastCommitted, Exists, NoRow
<1>2. TypeOK /\ SessionsSound /\ StatusIsLastCommitted /\ [Next]_vars => StatusIsLastCommitted'
  BY NextStatusIsLast
<1> QED
  BY <1>1, <1>2, TypeCorrect, PTL DEF Spec
-----------------------------------------------------------------------------
(* The log and what was ever in it.                                        *)

\* An application that does not exist has no log.
LEMMA NoRowNoLog ==
  ASSUME TypeOK, StatusesAreLogged, NEW a \in Apps, row[a].status = "NONE"
  PROVE  events[a] = <<>> /\ History(a) = {}
BY DEF StatusesAreLogged, History

\* A commit adds its event to the history.
LEMMA HistoryAfterCommit ==
  ASSUME TypeOK, SessionsSound, NEW s \in Sessions, NEW a \in Apps, CommitsOn(s, a)
  PROVE  History(a)' = History(a) \cup {sess[s].event}
<1> DEFINE x == Recorded(s)
<1>1. /\ events[a] \in Seq(Event) /\ x \in Event /\ x.type = sess[s].event
      /\ events'[a] = Append(events[a], x)
  BY Commitment
<1> HIDE DEF x
<1> DEFINE n == Len(events[a]) + 1
<1>2. /\ DOMAIN events[a] = 1..Len(events[a]) /\ DOMAIN events'[a] = 1..n
      /\ Len(events[a]) \in Nat /\ events'[a][n] = x
      /\ \A i \in DOMAIN events[a] : events'[a][i] = events[a][i]
  BY <1>1
<1>3. DOMAIN events'[a] = DOMAIN events[a] \cup {n}
  BY <1>2
<1>4. \A t : t \in History(a)' <=> \E i \in DOMAIN events'[a] : events'[a][i].type = t
  BY DEF History
<1>5. \A t : t \in History(a) <=> \E i \in DOMAIN events[a] : events[a][i].type = t
  BY DEF History
<1>6. \A t : t \in History(a)' <=> t \in History(a) \/ t = x.type
  BY <1>2, <1>3, <1>4, <1>5
<1> QED
  BY <1>1, <1>6

\* What happened to a case stays in its history.
LEMMA HistoryGrows ==
  ASSUME TypeOK, SessionsSound, StatusesAreLogged, [Next]_vars, NEW a \in Apps
  PROVE  History(a) \subseteq History(a)'
<1>1. CASE CreateApplication(a)
  BY <1>1, Creation, NoRowNoLog
<1>2. ASSUME NEW s \in Sessions, CommitsOn(s, a) PROVE History(a) \subseteq History(a)'
  BY <1>2, HistoryAfterCommit
<1>3. CASE events'[a] = events[a]
  BY <1>3 DEF History
<1> QED
  BY <1>1, <1>2, <1>3, LogStep

LEMMA HistoryAfterCreation ==
  ASSUME TypeOK, NEW a \in Apps, CreateApplication(a)
  PROVE  History(a)' = {"DRAFT_CREATED"}
<1>1. events'[a] = <<[type |-> "DRAFT_CREATED", at |-> clock]>>
  BY Creation
<1>2. DOMAIN events'[a] = {1} /\ events'[a][1].type = "DRAFT_CREATED"
  BY <1>1
<1> QED
  BY <1>2 DEF History
-----------------------------------------------------------------------------
(* Silence.                                                                *)

HasLapsed(a) == \E i \in DOMAIN deadlines[a] : deadlines[a][i].due < clock

\* What a sweep has taken up has lapsed, however outdated its batch.
BatchesLapsed ==
  \A s \in Sessions :
    /\ \A a \in sess[s].batch : HasLapsed(a)
    /\ sess[s].pc \in {"clock", "silence"} => HasLapsed(sess[s].app)

LEMMA ClockGrows ==
  ASSUME [Next]_vars
  PROVE  clock' = clock \/ clock' = clock + 1
BY DEF Next, vars, Tick, CreateApplication, Request, PostEvent, BeginAppeal, BeginResponse,
       BeginSimulate, CommitEvent, CommitAppeal, ReadItems, CommitResponse, Backdate, Sweep,
       SweepQuery, SweepNext, SweepReadClock, CommitNoResponse, Abort, RecordEvent

\* No step gives a case back a deadline that has lapsed.
LEMMA LapseLasts ==
  ASSUME TypeOK, SessionsSound, [Next]_vars, NEW a \in Apps, HasLapsed(a)
  PROVE  HasLapsed(a)'
<1>0. /\ clock \in Nat \ {0} /\ clock' \in Nat /\ clock' >= clock
      /\ deadlines[a] \in Seq(Deadline)
  BY ClockGrows DEF TypeOK
<1>1. PICK i \in DOMAIN deadlines[a] : deadlines[a][i].due < clock
  BY DEF HasLapsed
<1>2. deadlines[a][i] \in Deadline /\ deadlines[a][i].due \in Nat
  <2>1. deadlines[a][i] \in Deadline
    BY <1>0, <1>1
  <2> QED
    BY <2>1 DEF Deadline, Time
<1> SUFFICES i \in DOMAIN deadlines'[a] /\ deadlines'[a][i].due < clock'
  BY DEF HasLapsed
<1>3. CASE deadlines'[a] = deadlines[a]
  BY <1>0, <1>1, <1>2, <1>3
<1>4. ASSUME NEW s \in Sessions, CommitsOn(s, a)
      PROVE  i \in DOMAIN deadlines'[a] /\ deadlines'[a][i].due < clock'
  <2> DEFINE r == sess[s].loaded[a]
             e == sess[s].event
             seen == sess[s].seen
  <2>1. deadlines'[a] = ClockAfter(r, e, seen, deadlines[a])
    BY <1>4 DEF CommitsOn, RecordEvent, TypeOK
  <2> HIDE DEF r, e, seen
  <2>2. i \in DOMAIN deadlines'[a] /\ deadlines'[a][i].due = deadlines[a][i].due
    <3>1. CASE e = "UNDER_PROCESSING"
      <4>1. \E new : deadlines'[a] = Append(deadlines[a], new)
        BY <2>1, <3>1 DEF ClockAfter
      <4> QED
        BY <1>0, <1>1, <4>1
    <3>2. CASE e = "NO_RESPONSE" /\ seen \in DOMAIN deadlines[a]
      <4>1. deadlines'[a] =
              [deadlines[a] EXCEPT ![seen].status = "MISSED", ![seen].completed = clock]
        BY <2>1, <3>2 DEF ClockAfter
      <4> QED
        BY <1>0, <1>1, <1>2, <4>1 DEF Deadline
    <3>3. CASE e # "UNDER_PROCESSING" /\ ~(e = "NO_RESPONSE" /\ seen \in DOMAIN deadlines[a])
      <4>1. deadlines'[a] = deadlines[a]
        BY <2>1, <3>3 DEF ClockAfter
      <4> QED
        BY <1>1, <4>1
    <3> QED
      BY <3>1, <3>2, <3>3
  <2> QED
    BY <1>0, <1>1, <1>2, <2>2
<1>5. ASSUME NEW s \in Sessions, Backdate(s)
      PROVE  i \in DOMAIN deadlines'[a] /\ deadlines'[a][i].due < clock'
  <2>1. CASE sess[s].app # a
    <3>1. deadlines'[a] = deadlines[a]
      BY <1>5, <2>1 DEF Backdate, TypeOK
    <3> QED
      BY <1>3, <3>1
  <2>2. CASE sess[s].app = a
    <3>1. deadlines'[a] = [deadlines[a] EXCEPT ![sess[s].seen].due = clock - 1]
      BY <1>5, <2>2 DEF Backdate, TypeOK
    <3> QED
      BY <1>0, <1>1, <1>2, <3>1 DEF Deadline
  <2> QED
    BY <2>1, <2>2
<1>6. ASSUME NEW s \in Sessions, sess[s].pc \in Committing, RecordEvent(s), sess[s].app # a
      PROVE  deadlines'[a] = deadlines[a]
  BY <1>6, CommitEffect
<1> QED
  BY <1>3, <1>4, <1>5, <1>6, StepKinds DEF CommitsOn, CreateApplication

\* What a session has taken up after a step: a due application that a query
\* found, or one it had taken up before.
TakesUp(old, new) ==
  /\ new.batch \subseteq old.batch \cup DueApplications
  /\ new.pc \in {"clock", "silence"} =>
       \/ new.app \in old.batch
       \/ old.pc \in {"clock", "silence"} /\ new.app = old.app

LEMMA GotoTakesUp ==
  ASSUME TypeOK, NEW z \in Sessions, NEW s \in Sessions, NEW new, Goto(z, new),
         TakesUp(sess[z], new)
  PROVE  TakesUp(sess[s], sess'[s])
BY DEF TypeOK, Goto, TakesUp

LEMMA ReleaseTakesUp ==
  ASSUME TypeOK, NEW z \in Sessions, NEW s \in Sessions, Release(z)
  PROVE  TakesUp(sess[s], sess'[s])
<1>1. TakesUp(sess[z], IdleSession)
  BY DEF IdleSession, TakesUp
<1> QED
  BY <1>1, GotoTakesUp DEF Release

LEMMA StepTakesUp ==
  ASSUME TypeOK, [Next]_vars, NEW s \in Sessions
  PROVE  TakesUp(sess[s], sess'[s])
<1>0. \A z \in Sessions : sess[z] \in Session
  BY DEF TypeOK
<1>1. CASE UNCHANGED sess
  BY <1>1 DEF TakesUp
<1>2. ASSUME NEW z \in Workers, Request(z) PROVE TakesUp(sess[s], sess'[s])
  <2>0. z \in Sessions
    BY DEF Sessions
  <2>1. ASSUME NEW a \in Apps, NEW e, NEW pc \in {"event", "appeal", "items"},
               Goto(z, Holding(pc, a, e))
        PROVE  TakesUp(sess[s], sess'[s])
    <3>1. TakesUp(sess[z], Holding(pc, a, e))
      BY DEF TakesUp, Holding, IdleSession
    <3> QED
      BY <2>0, <2>1, <3>1, GotoTakesUp
  <2>2. ASSUME NEW a \in Apps, BeginSimulate(z, a) PROVE TakesUp(sess[s], sess'[s])
    <3>1. PICK i \in DeadlineToMiss(a) \ {0} :
            Goto(z, [Holding("backdate", a, "INFORMATIONAL") EXCEPT !.seen = i])
      BY <2>2 DEF BeginSimulate
    <3>2. TakesUp(sess[z], [Holding("backdate", a, "INFORMATIONAL") EXCEPT !.seen = i])
      BY DEF TakesUp, Holding, IdleSession
    <3> QED
      BY <2>0, <3>1, <3>2, GotoTakesUp
  <2>3. ASSUME ReadItems(z) PROVE TakesUp(sess[s], sess'[s])
    <3>1. TakesUp(sess[z], [sess[z] EXCEPT !.pc = "ai", !.items = ledger[sess[z].app]])
      BY <1>0, <2>0 DEF TakesUp, Session
    <3> QED
      BY <2>0, <2>3, <3>1, GotoTakesUp DEF ReadItems
  <2>4. ASSUME Backdate(z) PROVE TakesUp(sess[s], sess'[s])
    <3>1. TakesUp(sess[z], [IdleSession EXCEPT !.pc = "query"])
      BY DEF TakesUp, IdleSession
    <3> QED
      BY <2>0, <2>4, <3>1, GotoTakesUp DEF Backdate
  <2> QED
    BY <1>2, <2>0, <2>1, <2>2, <2>3, <2>4, ReleaseTakesUp
       DEF Request, PostEvent, BeginAppeal, BeginResponse, CommitEvent, CommitAppeal,
           CommitResponse
<1>3. ASSUME NEW z \in Sessions, Sweep(z) PROVE TakesUp(sess[s], sess'[s])
  <2>1. ASSUME SweepQuery(z) PROVE TakesUp(sess[s], sess'[s])
    <3> DEFINE started == [IdleSession EXCEPT
                 !.pc = "sweep", !.batch = DueApplications, !.start = clock,
                 !.loaded = [a \in Apps |-> IF a \in DueApplications THEN row[a] ELSE NoRow]]
    <3>1. TakesUp(sess[z], started)
      BY DEF TakesUp, IdleSession
    <3>2. Release(z) \/ Goto(z, started)
      BY <2>1 DEF SweepQuery
    <3> HIDE DEF started
    <3> QED
      BY <3>1, <3>2, ReleaseTakesUp, GotoTakesUp
  <2>2. ASSUME NEW a \in Apps, SweepNext(z, a) PROVE TakesUp(sess[s], sess'[s])
    <3> DEFINE left == sess[z].batch \ {a}
               taken == [sess[z] EXCEPT !.pc = "clock", !.app = a, !.batch = left,
                           !.event = "NO_RESPONSE", !.loaded[a] = GetById(z, a)]
               skipped == [sess[z] EXCEPT !.pc = "sweep", !.app = NoApp, !.batch = left]
    <3>1. Release(z) \/ Goto(z, taken) \/ Goto(z, skipped)
      BY <2>2 DEF SweepNext, SweepOn
    <3>2. a \in sess[z].batch
      BY <2>2 DEF SweepNext
    <3>3. /\ taken.batch = left /\ taken.pc = "clock" /\ taken.app = a
          /\ skipped.batch = left /\ skipped.pc = "sweep"
      BY <1>0 DEF Session
    <3> HIDE DEF taken, skipped
    <3>4. TakesUp(sess[z], taken) /\ TakesUp(sess[z], skipped)
      BY <3>2, <3>3 DEF TakesUp
    <3> QED
      BY <3>1, <3>4, ReleaseTakesUp, GotoTakesUp
  <2>3. ASSUME SweepReadClock(z) PROVE TakesUp(sess[s], sess'[s])
    <3>1. PICK i \in DeadlineToMiss(sess[z].app) :
            Goto(z, [sess[z] EXCEPT !.pc = "silence", !.seen = i])
      BY <2>3 DEF SweepReadClock
    <3>2. TakesUp(sess[z], [sess[z] EXCEPT !.pc = "silence", !.seen = i])
      BY <1>0, <2>3 DEF TakesUp, Session, SweepReadClock
    <3> QED
      BY <3>1, <3>2, GotoTakesUp
  <2>4. ASSUME CommitNoResponse(z) PROVE TakesUp(sess[s], sess'[s])
    <3> DEFINE resumed == [IdleSession EXCEPT !.pc = "sweep", !.batch = sess[z].batch,
                                              !.start = clock]
    <3>1. TakesUp(sess[z], resumed)
      BY DEF TakesUp, IdleSession
    <3>2. Release(z) \/ Goto(z, resumed)
      BY <2>4 DEF CommitNoResponse
    <3> HIDE DEF resumed
    <3> QED
      BY <3>1, <3>2, ReleaseTakesUp, GotoTakesUp
  <2> QED
    BY <1>3, <2>1, <2>2, <2>3, <2>4 DEF Sweep
<1>4. ASSUME NEW z \in Sessions, Abort(z) PROVE TakesUp(sess[s], sess'[s])
  BY <1>4, ReleaseTakesUp DEF Abort
<1> QED
  BY <1>1, <1>2, <1>3, <1>4 DEF Next, Tick, CreateApplication, vars

LEMMA NextBatchesLapsed ==
  ASSUME TypeOK, SessionsSound, BatchesLapsed, [Next]_vars
  PROVE  BatchesLapsed'
<1>1. \A a \in Apps : HasLapsed(a) => HasLapsed(a)'
  BY LapseLasts
<1>2. \A a \in DueApplications : a \in Apps /\ HasLapsed(a)
  BY DEF DueApplications, IsPastDue, HasLapsed
<1>3. \A s \in Sessions : /\ sess[s].batch \subseteq Apps
                          /\ sess[s].pc \in {"clock", "silence"} => sess[s].app \in Apps
  BY DEF TypeOK, Session, SessionsSound, Sound
<1>4. ASSUME NEW s \in Sessions
      PROVE  /\ \A a \in sess'[s].batch : HasLapsed(a)'
             /\ sess'[s].pc \in {"clock", "silence"} =>
                  /\ sess'[s].app \in Apps
                  /\ \A a \in Apps : a = sess'[s].app => HasLapsed(a)'
  BY <1>1, <1>2, <1>3, StepTakesUp DEF TakesUp, BatchesLapsed
<1> QED
  BY <1>4 DEF BatchesLapsed, HasLapsed

LEMMA NextSilence ==
  ASSUME TypeOK, SessionsSound, StatusesAreLogged, BatchesLapsed, SilenceOnlyAfterLapse,
         [Next]_vars
  PROVE  SilenceOnlyAfterLapse'
<1> SUFFICES ASSUME NEW a \in Apps, "NO_RESPONSE" \in History(a)' PROVE HasLapsed(a)'
  BY DEF SilenceOnlyAfterLapse, HasLapsed
<1>1. CASE "NO_RESPONSE" \in History(a)
  <2>1. HasLapsed(a)
    BY <1>1 DEF SilenceOnlyAfterLapse, HasLapsed
  <2> QED
    BY <2>1, LapseLasts
<1>2. ASSUME NEW s \in Sessions, CommitsOn(s, a), "NO_RESPONSE" \notin History(a)
      PROVE  HasLapsed(a)'
  <2>1. sess[s].event = "NO_RESPONSE"
    BY <1>2, HistoryAfterCommit
  <2>2. sess[s].pc = "silence"
    BY <1>2, <2>1 DEF CommitsOn, Committing, SessionsSound, Sound, DedicatedEvents
  <2>3. HasLapsed(a)
    BY <1>2, <2>2 DEF BatchesLapsed, CommitsOn
  <2> QED
    BY <2>3, LapseLasts
<1>3. CASE CreateApplication(a)
  BY <1>3, HistoryAfterCreation
<1>4. CASE events'[a] = events[a]
  <2>1. History(a)' = History(a)
    BY <1>4 DEF History
  <2> QED
    BY <1>1, <2>1
<1> QED
  BY <1>1, <1>2, <1>3, <1>4, LogStep

\* Silence is recorded only of a case one of whose deadlines has lapsed, for
\* any number of sweeps that work from outdated batches.
THEOREM SilenceAfterLapse == Spec => []SilenceOnlyAfterLapse
<1>1. Init => BatchesLapsed /\ SilenceOnlyAfterLapse
  BY DEF Init, BatchesLapsed, IdleSession, SilenceOnlyAfterLapse, History
<1>2. TypeOK /\ SessionsSound /\ StatusesAreLogged /\ BatchesLapsed /\ SilenceOnlyAfterLapse
        /\ [Next]_vars => (BatchesLapsed /\ SilenceOnlyAfterLapse)'
  BY NextBatchesLapsed, NextSilence
<1> QED
  BY <1>1, <1>2, TypeCorrect, HistoryFounded, PTL DEF Spec
-----------------------------------------------------------------------------
(* The first appeal.                                                       *)

Positions(log, type) == { i \in DOMAIN log : log[i].type = type }

\* An event appended to a log adds one occurrence of its type.
LEMMA OccurrencesAppend ==
  ASSUME NEW log \in Seq(Event), NEW x \in Event, NEW type
  PROVE  /\ Cardinality(Positions(log, type)) \in Nat
         /\ Cardinality(Positions(Append(log, x), type)) =
              Cardinality(Positions(log, type)) + (IF x.type = type THEN 1 ELSE 0)
<1> DEFINE longer == Append(log, x)
           n == Len(log) + 1
<1>1. /\ DOMAIN log = 1..Len(log) /\ DOMAIN longer = 1..n /\ Len(log) \in Nat
      /\ longer[n] = x /\ \A m \in DOMAIN log : longer[m] = log[m]
  OBVIOUS
<1> HIDE DEF longer
<1>2. IsFiniteSet(Positions(log, type)) /\ Cardinality(Positions(log, type)) \in Nat
  <2>1. IsFiniteSet(1..Len(log))
    BY <1>1, FS_Interval
  <2>2. Positions(log, type) \in SUBSET (1..Len(log))
    BY <1>1 DEF Positions
  <2> QED
    BY <2>1, <2>2, FS_Subset, FS_CardinalityType
<1>3. n \notin Positions(log, type)
  BY <1>1 DEF Positions
<1>4. CASE x.type = type
  <2>1. Positions(longer, type) = Positions(log, type) \cup {n}
    BY <1>1, <1>4 DEF Positions
  <2> QED
    BY <1>2, <1>3, <1>4, <2>1, FS_AddElement DEF longer
<1>5. CASE x.type # type
  <2>1. Positions(longer, type) = Positions(log, type)
    BY <1>1, <1>5 DEF Positions
  <2> QED
    BY <1>2, <1>5, <2>1 DEF longer
<1> QED
  BY <1>2, <1>4, <1>5

\* A step files the appeal together with its event, or neither.
LEMMA AppealStep ==
  ASSUME TypeOK, SessionsSound, [Next]_vars, NEW a \in Apps
  PROVE  \/ CreateApplication(a)
         \/ \E s \in Sessions :
              /\ CommitsOn(s, a)
              /\ IF sess[s].event = "FIRST_APPEAL_FILED"
                 THEN appeals[a] = 0 /\ appeals'[a] = 1
                 ELSE appeals'[a] = appeals[a]
         \/ events'[a] = events[a] /\ appeals'[a] = appeals[a]
<1>1. ASSUME NEW b \in Apps \ {a}, CreateApplication(b)
      PROVE  events'[a] = events[a] /\ appeals'[a] = appeals[a]
  BY <1>1 DEF CreateApplication, TypeOK
<1>2. ASSUME NEW s \in Sessions, sess[s].pc \in Committing, RecordEvent(s), sess[s].app # a
      PROVE  events'[a] = events[a]
  BY <1>2 DEF RecordEvent, TypeOK
<1>3. \A s \in Sessions : sess[s].pc \in Committing =>
        (sess[s].event = "FIRST_APPEAL_FILED" <=> sess[s].pc = "appeal")
  BY DEF SessionsSound, Sound, Committing, DedicatedEvents
<1>4. ASSUME NEW s \in Workers, CommitAppeal(s)
      PROVE  \/ \E z \in Sessions :
                  /\ CommitsOn(z, a)
                  /\ IF sess[z].event = "FIRST_APPEAL_FILED"
                     THEN appeals[a] = 0 /\ appeals'[a] = 1
                     ELSE appeals'[a] = appeals[a]
             \/ events'[a] = events[a] /\ appeals'[a] = appeals[a]
  <2>0. s \in Sessions /\ sess[s].pc = "appeal" /\ RecordEvent(s)
    BY <1>4 DEF Sessions, CommitAppeal
  <2>1. CASE sess[s].app = a
    <3>1. appeals[a] = 0 /\ appeals'[a] = 1
      BY <1>4, <2>1 DEF CommitAppeal, TypeOK
    <3> QED
      BY <1>3, <2>0, <2>1, <3>1 DEF CommitsOn, Committing
  <2>2. CASE sess[s].app # a
    <3>1. appeals'[a] = appeals[a]
      BY <1>4, <2>2 DEF CommitAppeal, TypeOK
    <3> QED
      BY <1>2, <2>0, <2>2, <3>1 DEF Committing
  <2> QED
    BY <2>1, <2>2
<1>5. ASSUME NEW s \in Sessions, sess[s].pc \in {"event", "ai", "silence"}, RecordEvent(s),
             UNCHANGED appeals
      PROVE  \/ \E z \in Sessions :
                  /\ CommitsOn(z, a)
                  /\ IF sess[z].event = "FIRST_APPEAL_FILED"
                     THEN appeals[a] = 0 /\ appeals'[a] = 1
                     ELSE appeals'[a] = appeals[a]
             \/ events'[a] = events[a] /\ appeals'[a] = appeals[a]
  BY <1>2, <1>3, <1>5 DEF CommitsOn, Committing
<1>6. ASSUME UNCHANGED <<events, appeals>>
      PROVE  \/ \E z \in Sessions :
                  /\ CommitsOn(z, a)
                  /\ IF sess[z].event = "FIRST_APPEAL_FILED"
                     THEN appeals[a] = 0 /\ appeals'[a] = 1
                     ELSE appeals'[a] = appeals[a]
             \/ events'[a] = events[a] /\ appeals'[a] = appeals[a]
  BY <1>6
<1>7. ASSUME NEW s \in Workers, Request(s)
      PROVE  \/ CommitAppeal(s)
             \/ sess[s].pc \in {"event", "ai", "silence"} /\ RecordEvent(s) /\ UNCHANGED appeals
             \/ UNCHANGED <<events, appeals>>
  BY <1>7 DEF Request, PostEvent, CommitEvent, BeginAppeal, BeginResponse,
       ReadItems, CommitResponse, BeginSimulate, Backdate, Database
<1>8. ASSUME NEW s \in Sessions, Sweep(s) \/ Abort(s)
      PROVE  \/ sess[s].pc \in {"event", "ai", "silence"} /\ RecordEvent(s) /\ UNCHANGED appeals
             \/ UNCHANGED <<events, appeals>>
  BY <1>8 DEF Sweep, Abort, SweepQuery, SweepNext, SweepReadClock, CommitNoResponse, Database
<1>9. Workers \subseteq Sessions
  BY DEF Sessions
<1> QED
  BY <1>1, <1>4, <1>5, <1>6, <1>7, <1>8, <1>9 DEF Next, Tick, vars, Database

LEMMA NextAppeals ==
  ASSUME TypeOK, SessionsSound, StatusesAreLogged, AppealsMatchFilings, [Next]_vars
  PROVE  AppealsMatchFilings'
<1> DEFINE filing == "FIRST_APPEAL_FILED"
           Filings(log) == Cardinality(Positions(log, filing))
<1>0. \A b \in Apps : appeals[b] = Filings(events[b]) /\ appeals[b] <= 1 /\ appeals[b] \in Nat
  BY DEF AppealsMatchFilings, Occurrences, Positions, TypeOK
<1> SUFFICES ASSUME NEW a \in Apps
             PROVE  appeals'[a] = Filings(events'[a]) /\ appeals'[a] <= 1
  BY DEF AppealsMatchFilings, Occurrences, Positions
<1>1. CASE CreateApplication(a)
  <2>1. /\ events'[a] = <<[type |-> "DRAFT_CREATED", at |-> clock]>>
        /\ appeals'[a] = appeals[a] /\ events[a] = <<>>
    BY <1>1, Creation, NoRowNoLog
  <2>2. DOMAIN events'[a] = {1} /\ events'[a][1].type # filing
    BY <2>1
  <2>3. Positions(events[a], filing) = {} /\ Positions(events'[a], filing) = {}
    BY <2>1, <2>2 DEF Positions
  <2> QED
    BY <1>0, <2>1, <2>3, FS_EmptySet
<1>2. ASSUME NEW s \in Sessions, CommitsOn(s, a),
             IF sess[s].event = filing
             THEN appeals[a] = 0 /\ appeals'[a] = 1 ELSE appeals'[a] = appeals[a]
      PROVE  appeals'[a] = Filings(events'[a]) /\ appeals'[a] <= 1
  <2>1. /\ events[a] \in Seq(Event) /\ Recorded(s) \in Event
        /\ events'[a] = Append(events[a], Recorded(s))
        /\ Recorded(s).type = sess[s].event
    BY <1>2, Commitment
  <2>2. Filings(events'[a]) = Filings(events[a]) + (IF sess[s].event = filing THEN 1 ELSE 0)
    BY <2>1, OccurrencesAppend
  <2> QED
    BY <1>0, <1>2, <2>2
<1>3. CASE events'[a] = events[a] /\ appeals'[a] = appeals[a]
  BY <1>0, <1>3
<1> QED
  BY <1>1, <1>2, <1>3, AppealStep

\* The log tells of as many filings as there are first appeals, and of one at
\* most, for any number of racing submissions.
THEOREM AppealsMatch == Spec => []AppealsMatchFilings
<1>1. Init => AppealsMatchFilings
  <2> SUFFICES ASSUME Init, NEW a \in Apps
               PROVE  appeals[a] = Occurrences(a, "FIRST_APPEAL_FILED") /\ appeals[a] <= 1
    BY DEF AppealsMatchFilings
  <2>1. { i \in DOMAIN events[a] : events[a][i].type = "FIRST_APPEAL_FILED" } = {}
    BY DEF Init
  <2> QED
    BY <2>1, FS_EmptySet DEF Init, Occurrences
<1>2. TypeOK /\ SessionsSound /\ StatusesAreLogged /\ AppealsMatchFilings /\ [Next]_vars
        => AppealsMatchFilings'
  BY NextAppeals
<1> QED
  BY <1>1, <1>2, TypeCorrect, HistoryFounded, PTL DEF Spec
-----------------------------------------------------------------------------
(* The dates of the row.                                                   *)

\* A date a row or a copy carries has its event in the log.
Dated(r, past) ==
  /\ r.submitted_at # Null => "SUBMITTED" \in past
  /\ r.received_at # Null => "ACKNOWLEDGED" \in past
  /\ r.response_due_at # Null => "UNDER_PROCESSING" \in past
  /\ r.response_received_at # Null => "RESPONSE_RECEIVED" \in past

\* And the events of the log have left their dates in the row.
Stamped(r, past) ==
  /\ "SUBMITTED" \in past => r.submitted_at # Null
  /\ "ACKNOWLEDGED" \in past => r.received_at # Null
  /\ "UNDER_PROCESSING" \in past => r.response_due_at # Null
  /\ "RESPONSE_RECEIVED" \in past => r.response_received_at # Null

LEMMA StampsAreDates ==
  StampsMatchHistory <=>
    \A a \in Apps : Dated(row[a], History(a)) /\ Stamped(row[a], History(a))
BY DEF StampsMatchHistory, Dated, Stamped

CopiesDated ==
  \A s \in Sessions : \A a \in Apps : Dated(sess[s].loaded[a], History(a))

\* What a transition writes in the dated columns of a copy.
LEMMA TransitionedDates ==
  ASSUME NEW r \in AppRow, NEW e \in EventType, clock \in Nat \ {0}
  PROVE  LET new == Transitioned(r, e)
         IN /\ e # "SUBMITTED" => new.submitted_at = r.submitted_at
            /\ e = "SUBMITTED" => new.submitted_at # Null
            /\ e # "ACKNOWLEDGED" => new.received_at = r.received_at
            /\ e = "ACKNOWLEDGED" => new.received_at # Null
            /\ e # "UNDER_PROCESSING" => new.response_due_at = r.response_due_at
            /\ e = "UNDER_PROCESSING" => new.response_due_at # Null
            /\ e # "RESPONSE_RECEIVED" => new.response_received_at = r.response_received_at
            /\ e = "RESPONSE_RECEIVED" => new.response_received_at # Null
<1>1. \A x \in Nat : OrNow(x) # Null /\ StandardResponseDue(OrNow(x)) # Null
  BY PeriodAssumption DEF OrNow, Null, StandardResponseDue
<1>2. /\ r.submitted_at \in Nat /\ r.received_at \in Nat /\ r.response_received_at \in Nat
  BY DEF AppRow, Time
<1>3. CASE e = "SUBMITTED"
  <2>1. Transitioned(r, e) = [r EXCEPT !.status = e, !.submitted_at = OrNow(@)]
    BY <1>3 DEF Transitioned
  <2>2. /\ Transitioned(r, e).submitted_at = OrNow(r.submitted_at)
        /\ Transitioned(r, e).received_at = r.received_at
        /\ Transitioned(r, e).response_due_at = r.response_due_at
        /\ Transitioned(r, e).response_received_at = r.response_received_at
    BY <2>1 DEF AppRow
  <2> QED
    BY <1>1, <1>2, <1>3, <2>2
<1>4. CASE e = "ACKNOWLEDGED"
  <2>1. Transitioned(r, e) = [r EXCEPT !.status = e, !.received_at = OrNow(@)]
    BY <1>4 DEF Transitioned
  <2>2. /\ Transitioned(r, e).submitted_at = r.submitted_at
        /\ Transitioned(r, e).received_at = OrNow(r.received_at)
        /\ Transitioned(r, e).response_due_at = r.response_due_at
        /\ Transitioned(r, e).response_received_at = r.response_received_at
    BY <2>1 DEF AppRow
  <2> QED
    BY <1>1, <1>2, <1>4, <2>2
<1>5. CASE e = "UNDER_PROCESSING"
  <2>1. Transitioned(r, e) =
          [r EXCEPT !.status = e, !.response_due_at = StandardResponseDue(OrNow(r.received_at))]
    BY <1>5 DEF Transitioned
  <2>2. /\ Transitioned(r, e).submitted_at = r.submitted_at
        /\ Transitioned(r, e).received_at = r.received_at
        /\ Transitioned(r, e).response_due_at = StandardResponseDue(OrNow(r.received_at))
        /\ Transitioned(r, e).response_received_at = r.response_received_at
    BY <2>1 DEF AppRow
  <2> QED
    BY <1>1, <1>2, <1>5, <2>2
<1>6. CASE e = "RESPONSE_RECEIVED"
  <2>1. Transitioned(r, e) = [r EXCEPT !.status = e, !.response_received_at = OrNow(@)]
    BY <1>6 DEF Transitioned
  <2>2. /\ Transitioned(r, e).submitted_at = r.submitted_at
        /\ Transitioned(r, e).received_at = r.received_at
        /\ Transitioned(r, e).response_due_at = r.response_due_at
        /\ Transitioned(r, e).response_received_at = OrNow(r.response_received_at)
    BY <2>1 DEF AppRow
  <2> QED
    BY <1>1, <1>2, <1>6, <2>2
<1>7. CASE e \notin {"SUBMITTED", "ACKNOWLEDGED", "RESPONSE_RECEIVED", "UNDER_PROCESSING"}
  <2>1. Transitioned(r, e) \in {r, [r EXCEPT !.status = e]}
    BY <1>7 DEF Transitioned
  <2>2. /\ Transitioned(r, e).submitted_at = r.submitted_at
        /\ Transitioned(r, e).received_at = r.received_at
        /\ Transitioned(r, e).response_due_at = r.response_due_at
        /\ Transitioned(r, e).response_received_at = r.response_received_at
    BY <2>1 DEF AppRow
  <2> QED
    BY <1>7, <2>2
<1> QED
  BY <1>3, <1>4, <1>5, <1>6, <1>7

\* However old the copy r a commit writes from, it loses no date the stored
\* row has and sets none but its own event's.
LEMMA FlushKeepsDates ==
  ASSUME NEW r \in AppRow, NEW stored \in AppRow, NEW e \in EventType, NEW past,
         clock \in Nat \ {0},
         Dated(r, past), Dated(stored, past), Stamped(stored, past)
  PROVE  LET flushed == FlushedRow(r, Transitioned(r, e), stored)
         IN Dated(flushed, past \cup {e}) /\ Stamped(flushed, past \cup {e})
<1> DEFINE new == Transitioned(r, e)
           flushed == FlushedRow(r, new, stored)
<1>1. /\ flushed.submitted_at = Written(r.submitted_at, new.submitted_at, stored.submitted_at)
      /\ flushed.received_at = Written(r.received_at, new.received_at, stored.received_at)
      /\ flushed.response_due_at =
           Written(r.response_due_at, new.response_due_at, stored.response_due_at)
      /\ flushed.response_received_at =
           Written(r.response_received_at, new.response_received_at, stored.response_received_at)
  BY DEF FlushedRow
<1>2. /\ e # "SUBMITTED" => new.submitted_at = r.submitted_at
      /\ e = "SUBMITTED" => new.submitted_at # Null
      /\ e # "ACKNOWLEDGED" => new.received_at = r.received_at
      /\ e = "ACKNOWLEDGED" => new.received_at # Null
      /\ e # "UNDER_PROCESSING" => new.response_due_at = r.response_due_at
      /\ e = "UNDER_PROCESSING" => new.response_due_at # Null
      /\ e # "RESPONSE_RECEIVED" => new.response_received_at = r.response_received_at
      /\ e = "RESPONSE_RECEIVED" => new.response_received_at # Null
  BY TransitionedDates
<1> HIDE DEF flushed, new
<1>3. flushed.submitted_at # Null <=> "SUBMITTED" \in past \cup {e}
  <2>1. /\ r.submitted_at # Null => "SUBMITTED" \in past
        /\ stored.submitted_at # Null <=> "SUBMITTED" \in past
    BY DEF Dated, Stamped
  <2>2. /\ e # "SUBMITTED" => new.submitted_at = r.submitted_at
        /\ e = "SUBMITTED" => new.submitted_at # Null
    BY <1>2
  <2>3. flushed.submitted_at = Written(r.submitted_at, new.submitted_at, stored.submitted_at)
    BY <1>1
  <2> QED
    BY <2>1, <2>2, <2>3 DEF Written
<1>4. flushed.received_at # Null <=> "ACKNOWLEDGED" \in past \cup {e}
  <2>1. /\ r.received_at # Null => "ACKNOWLEDGED" \in past
        /\ stored.received_at # Null <=> "ACKNOWLEDGED" \in past
    BY DEF Dated, Stamped
  <2>2. /\ e # "ACKNOWLEDGED" => new.received_at = r.received_at
        /\ e = "ACKNOWLEDGED" => new.received_at # Null
    BY <1>2
  <2>3. flushed.received_at = Written(r.received_at, new.received_at, stored.received_at)
    BY <1>1
  <2> QED
    BY <2>1, <2>2, <2>3 DEF Written
<1>5. flushed.response_due_at # Null <=> "UNDER_PROCESSING" \in past \cup {e}
  <2>1. /\ r.response_due_at # Null => "UNDER_PROCESSING" \in past
        /\ stored.response_due_at # Null <=> "UNDER_PROCESSING" \in past
    BY DEF Dated, Stamped
  <2>2. /\ e # "UNDER_PROCESSING" => new.response_due_at = r.response_due_at
        /\ e = "UNDER_PROCESSING" => new.response_due_at # Null
    BY <1>2
  <2>3. flushed.response_due_at = Written(r.response_due_at, new.response_due_at, stored.response_due_at)
    BY <1>1
  <2> QED
    BY <2>1, <2>2, <2>3 DEF Written
<1>6. flushed.response_received_at # Null <=> "RESPONSE_RECEIVED" \in past \cup {e}
  <2>1. /\ r.response_received_at # Null => "RESPONSE_RECEIVED" \in past
        /\ stored.response_received_at # Null <=> "RESPONSE_RECEIVED" \in past
    BY DEF Dated, Stamped
  <2>2. /\ e # "RESPONSE_RECEIVED" => new.response_received_at = r.response_received_at
        /\ e = "RESPONSE_RECEIVED" => new.response_received_at # Null
    BY <1>2
  <2>3. flushed.response_received_at = Written(r.response_received_at, new.response_received_at, stored.response_received_at)
    BY <1>1
  <2> QED
    BY <2>1, <2>2, <2>3 DEF Written
<1>7. Dated(flushed, past \cup {e}) /\ Stamped(flushed, past \cup {e})
  BY <1>3, <1>4, <1>5, <1>6 DEF Dated, Stamped
<1> QED
  BY <1>7 DEF flushed, new

LEMMA NextStamps ==
  ASSUME TypeOK, SessionsSound, StatusesAreLogged, CopiesDated, StampsMatchHistory, [Next]_vars
  PROVE  StampsMatchHistory'
<1> SUFFICES ASSUME NEW a \in Apps
             PROVE  Dated(row'[a], History(a)') /\ Stamped(row'[a], History(a)')
  BY DEF StampsMatchHistory, Dated, Stamped
<1>0. Dated(row[a], History(a)) /\ Stamped(row[a], History(a))
  BY StampsAreDates
<1>1. CASE CreateApplication(a)
  <2>1. row'[a] = [row[a] EXCEPT !.status = INITIAL_STATE] /\ row[a] \in AppRow
    BY <1>1, Creation DEF TypeOK
  <2>2. History(a) = {} /\ History(a)' = {"DRAFT_CREATED"}
    BY <1>1, Creation, NoRowNoLog, HistoryAfterCreation
  <2> QED
    BY <1>0, <2>1, <2>2 DEF Dated, Stamped, AppRow
<1>2. ASSUME NEW s \in Sessions, CommitsOn(s, a)
      PROVE  Dated(row'[a], History(a)') /\ Stamped(row'[a], History(a)')
  <2> DEFINE r == sess[s].loaded[a]
             e == sess[s].event
  <2>1. r \in AppRow /\ e \in EventType /\ row[a] \in AppRow /\ clock \in Nat \ {0}
    BY DEF TypeOK, Session
  <2>2. row'[a] = FlushedRow(r, Transitioned(r, e), row[a])
    BY <1>2 DEF CommitsOn, RecordEvent, TypeOK
  <2>3. Dated(r, History(a))
    BY DEF CopiesDated
  <2>4. History(a)' = History(a) \cup {e}
    BY <1>2, HistoryAfterCommit
  <2> HIDE DEF r, e
  <2> QED
    BY <1>0, <2>1, <2>2, <2>3, <2>4, FlushKeepsDates
<1>3. CASE row'[a] = row[a] /\ events'[a] = events[a]
  <2>1. History(a)' = History(a)
    BY <1>3 DEF History
  <2> QED
    BY <1>0, <1>3, <2>1
<1> QED
  BY <1>1, <1>2, <1>3, LogStep

LEMMA NextCopiesDated ==
  ASSUME TypeOK, SessionsSound, StatusesAreLogged, CopiesDated, StampsMatchHistory, [Next]_vars
  PROVE  CopiesDated'
<1> SUFFICES ASSUME NEW s \in Sessions, NEW a \in Apps
             PROVE  Dated(sess'[s].loaded[a], History(a)')
  BY DEF CopiesDated, Dated
<1>1. sess'[s].loaded[a] \in {NoRow, row[a], sess[s].loaded[a]}
  BY CopiesAreRead
<1>2. Dated(row[a], History(a)) /\ Dated(sess[s].loaded[a], History(a))
  BY StampsAreDates DEF CopiesDated
<1>3. Dated(NoRow, History(a))
  BY DEF Dated, NoRow
<1>4. Dated(sess'[s].loaded[a], History(a))
  BY <1>1, <1>2, <1>3
<1> QED
  BY <1>4, HistoryGrows DEF Dated

\* The dated columns are set exactly when their events are in the log, for
\* any number of overlapping requests and sweeps: writing from an old copy
\* may restamp a date but never loses or invents one.
THEOREM StampsMatch == Spec => []StampsMatchHistory
<1>1. Init => CopiesDated /\ StampsMatchHistory
  <2> SUFFICES ASSUME Init PROVE CopiesDated /\ StampsMatchHistory
    OBVIOUS
  <2>1. \A a \in Apps : History(a) = {} /\ row[a] = NoRow
    BY DEF Init, History
  <2>2. \A s \in Sessions : \A a \in Apps : sess[s].loaded[a] = NoRow
    BY DEF Init, IdleSession, NothingLoaded
  <2> QED
    BY <2>1, <2>2 DEF CopiesDated, StampsMatchHistory, Dated, NoRow
<1>2. TypeOK /\ SessionsSound /\ StatusesAreLogged /\ CopiesDated /\ StampsMatchHistory
        /\ [Next]_vars => (CopiesDated /\ StampsMatchHistory)'
  BY NextCopiesDated, NextStamps
<1> QED
  BY <1>1, <1>2, TypeCorrect, HistoryFounded, PTL DEF Spec
-----------------------------------------------------------------------------
(* The ledger of information items.                                        *)

\* No item carries evidence the response does not contain.
Quotes(items) == \A i \in Items : items[i].excerpt \in {"absent", "verbatim"}

CopiesQuote == \A s \in Sessions : Quotes(sess[s].items)

LEMMA LedgerStep ==
  ASSUME TypeOK, SessionsSound, [Next]_vars
  PROVE  \/ UNCHANGED ledger
         \/ \E s \in Sessions : \E output \in AiOutput : CommitResponse(s, output)
BY DEF Next, vars, Database, Tick, CreateApplication, Request, PostEvent, BeginAppeal,
       BeginResponse, BeginSimulate, CommitEvent, CommitAppeal, ReadItems, Backdate, Sweep,
       SweepQuery, SweepNext, SweepReadClock, CommitNoResponse, Abort, Sessions

\* The verdict on what the model classified keeps evidence only if it is in
\* the response.
LEMMA AppliedQuotes ==
  ASSUME NEW items, Quotes(items), NEW output \in AiOutput
  PROVE  Quotes(ApplyOutput(items, output))
<1> SUFFICES ASSUME NEW i \in Items
             PROVE  ApplyOutput(items, output)[i].excerpt \in {"absent", "verbatim"}
  BY DEF Quotes
<1>1. output[i].excerpt \in Excerpt
  BY DEF AiOutput, Classification, NotNamed, ItemRow, Excerpt
<1>2. Verdict(output[i]).excerpt \in {"absent", "verbatim"}
  BY <1>1 DEF Verdict, Excerpt
<1> QED
  BY <1>2 DEF ApplyOutput, Quotes

LEMMA CopiesStillQuote ==
  ASSUME TypeOK, SessionsSound, CopiesQuote, \A a \in Apps : Quotes(ledger[a]), [Next]_vars,
         NEW s \in Sessions
  PROVE  Quotes(sess'[s].items)
<1>0. sess \in [Sessions -> Session] /\ \A z \in Sessions : sess[z] \in Session
  BY DEF TypeOK
<1>1. CASE UNCHANGED sess
  BY <1>1 DEF CopiesQuote
<1>2. ASSUME NEW z \in Sessions, NEW new, Goto(z, new), Quotes(new.items)
      PROVE  Quotes(sess'[s].items)
  BY <1>0, <1>2 DEF Goto, CopiesQuote
<1>3. Quotes(IdleSession.items)
  BY DEF IdleSession, NewItem, Quotes
<1>4. ASSUME NEW z \in Sessions, Release(z) PROVE Quotes(sess'[s].items)
  BY <1>2, <1>3, <1>4 DEF Release
<1>5. ASSUME NEW z \in Workers, Request(z) PROVE Quotes(sess'[s].items)
  <2>0. z \in Sessions
    BY DEF Sessions
  <2>1. ASSUME NEW a \in Apps, NEW pc, NEW e, Goto(z, Holding(pc, a, e))
        PROVE  Quotes(sess'[s].items)
    <3>1. Holding(pc, a, e).items = IdleSession.items
      BY DEF Holding, IdleSession
    <3> QED
      BY <1>2, <1>3, <2>0, <2>1, <3>1
  <2>2. ASSUME NEW a \in Apps, BeginSimulate(z, a) PROVE Quotes(sess'[s].items)
    <3>1. PICK i \in DeadlineToMiss(a) \ {0} :
            Goto(z, [Holding("backdate", a, "INFORMATIONAL") EXCEPT !.seen = i])
      BY <2>2 DEF BeginSimulate
    <3>2. [Holding("backdate", a, "INFORMATIONAL") EXCEPT !.seen = i].items = IdleSession.items
      BY DEF Holding, IdleSession
    <3> QED
      BY <1>2, <1>3, <2>0, <3>1, <3>2
  <2>3. ASSUME ReadItems(z) PROVE Quotes(sess'[s].items)
    <3>1. [sess[z] EXCEPT !.pc = "ai", !.items = ledger[sess[z].app]].items
            = ledger[sess[z].app]
      BY <1>0, <2>0 DEF Session
    <3>2. sess[z].app \in Apps
      BY <2>0, <2>3 DEF ReadItems, SessionsSound, Sound
    <3> QED
      BY <1>2, <2>0, <2>3, <3>1, <3>2 DEF ReadItems
  <2>4. ASSUME Backdate(z) PROVE Quotes(sess'[s].items)
    <3>1. [IdleSession EXCEPT !.pc = "query"].items = IdleSession.items
      BY DEF IdleSession
    <3> QED
      BY <1>2, <1>3, <2>0, <2>4, <3>1 DEF Backdate
  <2> QED
    BY <1>4, <1>5, <2>0, <2>1, <2>2, <2>3, <2>4
       DEF Request, PostEvent, BeginAppeal, BeginResponse, CommitEvent, CommitAppeal,
           CommitResponse
<1>6. ASSUME NEW z \in Sessions, Sweep(z) PROVE Quotes(sess'[s].items)
  <2>1. ASSUME SweepQuery(z) PROVE Quotes(sess'[s].items)
    <3> DEFINE started == [IdleSession EXCEPT
                 !.pc = "sweep", !.batch = DueApplications, !.start = clock,
                 !.loaded = [c \in Apps |-> IF c \in DueApplications THEN row[c] ELSE NoRow]]
    <3>1. started.items = IdleSession.items
      BY DEF IdleSession
    <3>2. Release(z) \/ Goto(z, started)
      BY <2>1 DEF SweepQuery
    <3> HIDE DEF started
    <3> QED
      BY <1>2, <1>3, <1>4, <3>1, <3>2
  <2>2. ASSUME NEW b \in Apps, SweepNext(z, b) PROVE Quotes(sess'[s].items)
    <3> DEFINE left == sess[z].batch \ {b}
               taken == [sess[z] EXCEPT !.pc = "clock", !.app = b, !.batch = left,
                           !.event = "NO_RESPONSE", !.loaded[b] = GetById(z, b)]
               skipped == [sess[z] EXCEPT !.pc = "sweep", !.app = NoApp, !.batch = left]
    <3>1. skipped.items = sess[z].items /\ taken.items = sess[z].items
      BY <1>0 DEF Session
    <3>2. Release(z) \/ Goto(z, taken) \/ Goto(z, skipped)
      BY <2>2 DEF SweepNext, SweepOn
    <3> HIDE DEF taken, skipped
    <3> QED
      BY <1>2, <1>4, <3>1, <3>2 DEF CopiesQuote
  <2>3. ASSUME SweepReadClock(z) PROVE Quotes(sess'[s].items)
    <3>1. PICK i \in DeadlineToMiss(sess[z].app) :
            Goto(z, [sess[z] EXCEPT !.pc = "silence", !.seen = i])
      BY <2>3 DEF SweepReadClock
    <3>2. [sess[z] EXCEPT !.pc = "silence", !.seen = i].items = sess[z].items
      BY <1>0 DEF Session
    <3> QED
      BY <1>2, <3>1, <3>2 DEF CopiesQuote
  <2>4. ASSUME CommitNoResponse(z) PROVE Quotes(sess'[s].items)
    <3> DEFINE resumed == [IdleSession EXCEPT !.pc = "sweep", !.batch = sess[z].batch,
                                              !.start = clock]
    <3>1. resumed.items = IdleSession.items
      BY DEF IdleSession
    <3>2. Release(z) \/ Goto(z, resumed)
      BY <2>4 DEF CommitNoResponse
    <3> HIDE DEF resumed
    <3> QED
      BY <1>2, <1>3, <1>4, <3>1, <3>2
  <2> QED
    BY <1>6, <2>1, <2>2, <2>3, <2>4 DEF Sweep
<1>7. ASSUME NEW z \in Sessions, Abort(z) PROVE Quotes(sess'[s].items)
  BY <1>4, <1>7 DEF Abort
<1> QED
  BY <1>1, <1>5, <1>6, <1>7 DEF Next, Tick, CreateApplication, vars

LEMMA NextEvidence ==
  ASSUME TypeOK, SessionsSound, StatusesAreLogged, CopiesQuote, EvidenceIsFromAResponse,
         [Next]_vars
  PROVE  (CopiesQuote /\ EvidenceIsFromAResponse)'
<1>1. \A a \in Apps : Quotes(ledger[a])
  BY DEF EvidenceIsFromAResponse, Quotes
<1>2. CopiesQuote'
  BY <1>1, CopiesStillQuote DEF CopiesQuote, Quotes
<1>3. ASSUME NEW a \in Apps, NEW i \in Items
      PROVE  /\ ledger'[a][i].excerpt \in {"absent", "verbatim"}
             /\ ledger'[a][i] # NewItem => "RESPONSE_RECEIVED" \in History(a)'
  <2>0. /\ ledger[a][i].excerpt \in {"absent", "verbatim"}
        /\ ledger[a][i] # NewItem => "RESPONSE_RECEIVED" \in History(a)
    BY DEF EvidenceIsFromAResponse
  <2>1. CASE ledger'[a][i] = ledger[a][i]
    BY <2>0, <2>1, HistoryGrows
  <2>2. ASSUME NEW s \in Sessions, NEW output \in AiOutput, CommitResponse(s, output),
               sess[s].app = a
        PROVE  /\ ledger'[a][i].excerpt \in {"absent", "verbatim"}
               /\ "RESPONSE_RECEIVED" \in History(a)'
    <3> DEFINE old == sess[s].items[i]
               new == ApplyOutput(sess[s].items, output)[i]
    <3>1. old.excerpt \in {"absent", "verbatim"} /\ new.excerpt \in {"absent", "verbatim"}
      BY AppliedQuotes DEF CopiesQuote, Quotes
    <3>2. ledger'[a][i] = FlushedItem(old, new, ledger[a][i])
      BY <2>2 DEF CommitResponse, TypeOK
    <3>3. ledger'[a][i].excerpt = Written(old.excerpt, new.excerpt, ledger[a][i].excerpt)
      BY <3>2 DEF FlushedItem
    <3>4. sess[s].event = "RESPONSE_RECEIVED" /\ CommitsOn(s, a)
      BY <2>2 DEF CommitResponse, SessionsSound, Sound, CommitsOn, Committing
    <3> HIDE DEF old, new
    <3> QED
      BY <2>0, <3>1, <3>3, <3>4, HistoryAfterCommit DEF Written
  <2>3. ASSUME NEW s \in Sessions, NEW output \in AiOutput, CommitResponse(s, output),
               sess[s].app # a
        PROVE  ledger'[a][i] = ledger[a][i]
    BY <2>3 DEF CommitResponse, TypeOK
  <2> QED
    BY <2>1, <2>2, <2>3, LedgerStep
<1> QED
  BY <1>2, <1>3 DEF EvidenceIsFromAResponse

\* The ledger never holds evidence that is not text of a response, and no
\* item is decided before a response is in the log, whatever the model
\* answers and however old the ledger is it answered about.
THEOREM EvidenceGenuine == Spec => []EvidenceIsFromAResponse
<1>1. Init => CopiesQuote /\ EvidenceIsFromAResponse
  BY DEF Init, CopiesQuote, Quotes, EvidenceIsFromAResponse, IdleSession, NewItem
<1>2. TypeOK /\ SessionsSound /\ StatusesAreLogged /\ CopiesQuote /\ EvidenceIsFromAResponse
        /\ [Next]_vars => (CopiesQuote /\ EvidenceIsFromAResponse)'
  BY NextEvidence
<1> QED
  BY <1>1, <1>2, TypeCorrect, HistoryFounded, PTL DEF Spec
-----------------------------------------------------------------------------
(* The deadlines.                                                          *)

Missed(clocks) == { i \in DOMAIN clocks : clocks[i].status = "MISSED" }

\* A deadline for UNDER_PROCESSING, at most one missed deadline for NO_RESPONSE.
DeadlinesAgree(clocks, log) ==
  /\ Len(clocks) = Cardinality(Positions(log, "UNDER_PROCESSING"))
  /\ Cardinality(Missed(clocks)) <= Cardinality(Positions(log, "NO_RESPONSE"))

LEMMA DeadlinesAgreeIff ==
  DeadlinesMatchHistory <=> \A a \in Apps : DeadlinesAgree(deadlines[a], events[a])
BY DEF DeadlinesMatchHistory, DeadlinesAgree, Missed, Occurrences, Positions

LEMMA MissedCounted ==
  ASSUME NEW clocks \in Seq(Deadline)
  PROVE  IsFiniteSet(Missed(clocks)) /\ Cardinality(Missed(clocks)) \in Nat
<1>1. IsFiniteSet(1..Len(clocks)) /\ Missed(clocks) \in SUBSET (1..Len(clocks))
  BY FS_Interval DEF Missed
<1> QED
  BY <1>1, FS_Subset, FS_CardinalityType

LEMMA AddOne ==
  ASSUME NEW S, NEW x, IsFiniteSet(S)
  PROVE  /\ IsFiniteSet(S \cup {x}) /\ Cardinality(S \cup {x}) \in Nat
         /\ Cardinality(S \cup {x}) <= Cardinality(S) + 1
<1>1. IsFiniteSet(S \cup {x}) /\ Cardinality(S) \in Nat
  BY FS_AddElement, FS_CardinalityType
<1>2. Cardinality(S \cup {x}) = IF x \in S THEN Cardinality(S) ELSE Cardinality(S) + 1
  BY FS_AddElement
<1>3. Cardinality(S \cup {x}) \in Nat
  BY <1>1, FS_CardinalityType
<1> QED
  BY <1>1, <1>2, <1>3

\* What one event does to the deadlines of its application.
LEMMA ClockCounts ==
  ASSUME NEW clocks \in Seq(Deadline), NEW r, NEW e, NEW seen
  PROVE  LET after == ClockAfter(r, e, seen, clocks)
         IN /\ Len(after) = Len(clocks) + (IF e = "UNDER_PROCESSING" THEN 1 ELSE 0)
            /\ Cardinality(Missed(after)) <=
                 Cardinality(Missed(clocks)) + (IF e = "NO_RESPONSE" THEN 1 ELSE 0)
<1>0. /\ DOMAIN clocks = 1..Len(clocks) /\ Len(clocks) \in Nat
      /\ IsFiniteSet(Missed(clocks)) /\ Cardinality(Missed(clocks)) \in Nat
  BY MissedCounted
<1>1. CASE e = "UNDER_PROCESSING"
  <2> DEFINE new == [ starts |-> OrNow(r.received_at),
                      due |-> StandardResponseDue(OrNow(r.received_at)),
                      status |-> "ACTIVE", completed |-> Null ]
             longer == Append(clocks, new)
             n == Len(clocks) + 1
  <2>1. ClockAfter(r, e, seen, clocks) = longer /\ new.status = "ACTIVE"
    BY <1>1 DEF ClockAfter
  <2> HIDE DEF new
  <2>2. /\ Len(longer) = n /\ DOMAIN longer = 1..n /\ longer[n] = new
        /\ \A i \in DOMAIN clocks : longer[i] = clocks[i]
    BY <1>0
  <2> HIDE DEF longer
  <2>3. Missed(longer) = Missed(clocks)
    BY <1>0, <2>1, <2>2 DEF Missed
  <2> QED
    BY <1>0, <1>1, <2>1, <2>2, <2>3
<1>2. CASE e = "NO_RESPONSE" /\ seen \in DOMAIN clocks
  <2> DEFINE after == [clocks EXCEPT ![seen].status = "MISSED", ![seen].completed = clock]
  <2>1. ClockAfter(r, e, seen, clocks) = after
    BY <1>2 DEF ClockAfter
  <2>2. /\ DOMAIN after = DOMAIN clocks /\ Len(after) = Len(clocks)
        /\ \A i \in DOMAIN clocks \ {seen} : after[i] = clocks[i]
    BY <1>0
  <2> HIDE DEF after
  <2>3. Missed(after) \in SUBSET (Missed(clocks) \cup {seen})
    BY <2>2 DEF Missed
  <2>4. /\ IsFiniteSet(Missed(clocks) \cup {seen})
        /\ Cardinality(Missed(clocks) \cup {seen}) \in Nat
        /\ Cardinality(Missed(clocks) \cup {seen}) <= Cardinality(Missed(clocks)) + 1
    BY <1>0, AddOne
  <2>5. /\ Cardinality(Missed(after)) \in Nat
        /\ Cardinality(Missed(after)) <= Cardinality(Missed(clocks) \cup {seen})
    BY <2>3, <2>4, FS_Subset, FS_CardinalityType
  <2> QED
    BY <1>0, <1>2, <2>1, <2>2, <2>4, <2>5
<1>3. CASE e # "UNDER_PROCESSING" /\ ~(e = "NO_RESPONSE" /\ seen \in DOMAIN clocks)
  <2>1. ClockAfter(r, e, seen, clocks) = clocks
    BY <1>3 DEF ClockAfter
  <2> QED
    BY <1>0, <1>3, <2>1
<1> QED
  BY <1>1, <1>2, <1>3

LEMMA NextDeadlines ==
  ASSUME TypeOK, SessionsSound, StatusesAreLogged, DeadlinesMatchHistory, [Next]_vars
  PROVE  DeadlinesMatchHistory'
<1> SUFFICES ASSUME NEW a \in Apps PROVE DeadlinesAgree(deadlines'[a], events'[a])
  BY DEF DeadlinesMatchHistory, DeadlinesAgree, Missed, Occurrences, Positions
<1>0. DeadlinesAgree(deadlines[a], events[a]) /\ deadlines[a] \in Seq(Deadline)
  BY DeadlinesAgreeIff DEF TypeOK
<1>1. CASE CreateApplication(a)
  <2>1. /\ events'[a] = <<[type |-> "DRAFT_CREATED", at |-> clock]>>
        /\ events[a] = <<>> /\ deadlines'[a] = deadlines[a]
    BY <1>1, Creation, NoRowNoLog
  <2>2. DOMAIN events'[a] = {1} /\ events'[a][1].type = "DRAFT_CREATED"
    BY <2>1
  <2>3. \A type \in {"UNDER_PROCESSING", "NO_RESPONSE"} :
          Positions(events[a], type) = {} /\ Positions(events'[a], type) = {}
    BY <2>1, <2>2 DEF Positions
  <2> QED
    BY <1>0, <2>1, <2>3 DEF DeadlinesAgree
<1>2. ASSUME NEW s \in Sessions, CommitsOn(s, a)
      PROVE  DeadlinesAgree(deadlines'[a], events'[a])
  <2> DEFINE e == sess[s].event
             after == ClockAfter(sess[s].loaded[a], e, sess[s].seen, deadlines[a])
  <2>1. deadlines'[a] = after
    BY <1>2 DEF CommitsOn, RecordEvent, TypeOK
  <2>2. \A type : /\ Cardinality(Positions(events[a], type)) \in Nat
                  /\ Cardinality(Positions(events'[a], type)) =
                       Cardinality(Positions(events[a], type)) + (IF e = type THEN 1 ELSE 0)
    <3>1. /\ events[a] \in Seq(Event) /\ Recorded(s) \in Event
          /\ events'[a] = Append(events[a], Recorded(s)) /\ Recorded(s).type = e
      BY <1>2, Commitment
    <3> QED
      BY <3>1, OccurrencesAppend
  <2>3. /\ Len(after) = Len(deadlines[a]) + (IF e = "UNDER_PROCESSING" THEN 1 ELSE 0)
        /\ Cardinality(Missed(after)) <=
             Cardinality(Missed(deadlines[a])) + (IF e = "NO_RESPONSE" THEN 1 ELSE 0)
    BY <1>0, ClockCounts
  <2>4. after \in Seq(Deadline)
    BY PeriodAssumption, <1>0, ClockAfterType DEF TypeOK, Session
  <2>5. Cardinality(Missed(after)) \in Nat /\ Cardinality(Missed(deadlines[a])) \in Nat
    BY <1>0, <2>4, MissedCounted
  <2> HIDE DEF e, after
  <2> QED
    BY <1>0, <2>1, <2>2, <2>3, <2>5 DEF DeadlinesAgree
<1>3. ASSUME events'[a] = events[a], deadlines'[a] = deadlines[a]
      PROVE  DeadlinesAgree(deadlines'[a], events'[a])
  BY <1>0, <1>3
<1>4. ASSUME NEW s \in Sessions, Backdate(s)
      PROVE  DeadlinesAgree(deadlines'[a], events'[a])
  <2>0. events'[a] = events[a]
    BY <1>4 DEF Backdate
  <2>1. CASE sess[s].app # a
    <3>1. deadlines'[a] = deadlines[a]
      BY <1>4, <2>1 DEF Backdate, TypeOK
    <3> QED
      BY <1>3, <2>0, <3>1
  <2>2. CASE sess[s].app = a
    <3>1. deadlines'[a] = [deadlines[a] EXCEPT ![sess[s].seen].due = clock - 1]
      BY <1>4, <2>2 DEF Backdate, TypeOK
    <3>2. /\ DOMAIN deadlines'[a] = DOMAIN deadlines[a]
          /\ Len(deadlines'[a]) = Len(deadlines[a])
          /\ \A i \in DOMAIN deadlines[a] : deadlines'[a][i].status = deadlines[a][i].status
      BY <1>0, <3>1 DEF Deadline
    <3>3. Missed(deadlines'[a]) = Missed(deadlines[a])
      BY <3>2 DEF Missed
    <3> QED
      BY <1>0, <2>0, <3>2, <3>3 DEF DeadlinesAgree
  <2> QED
    BY <2>1, <2>2
<1>5. ASSUME NEW s \in Sessions, sess[s].pc \in Committing, RecordEvent(s), sess[s].app # a
      PROVE  events'[a] = events[a] /\ deadlines'[a] = deadlines[a]
  BY <1>5, CommitEffect DEF RecordEvent, TypeOK
<1>6. ASSUME NEW b \in Apps \ {a}, CreateApplication(b)
      PROVE  events'[a] = events[a] /\ deadlines'[a] = deadlines[a]
  BY <1>6 DEF CreateApplication, TypeOK
<1> QED
  BY <1>1, <1>2, <1>3, <1>4, <1>5, <1>6, StepKinds DEF CommitsOn

\* The rights clocks of a case agree with its log, for any number of
\* overlapping requests and sweeps: a deadline per UNDER_PROCESSING, and never
\* more missed ones than there are NO_RESPONSEs.
THEOREM DeadlinesMatch == Spec => []DeadlinesMatchHistory
<1>1. Init => DeadlinesMatchHistory
  <2> SUFFICES ASSUME Init, NEW a \in Apps PROVE DeadlinesAgree(deadlines[a], events[a])
    BY DEF DeadlinesMatchHistory, DeadlinesAgree, Missed, Occurrences, Positions
  <2>1. /\ Missed(deadlines[a]) = {} /\ Len(deadlines[a]) = 0
        /\ \A type : Positions(events[a], type) = {}
    BY DEF Init, Missed, Positions
  <2>2. Cardinality({}) = 0
    BY FS_EmptySet
  <2>3. /\ Cardinality(Missed(deadlines[a])) = 0
        /\ \A type : Cardinality(Positions(events[a], type)) = 0
    BY <2>1, <2>2
  <2> QED
    BY <2>1, <2>3 DEF DeadlinesAgree
<1>2. TypeOK /\ SessionsSound /\ StatusesAreLogged /\ DeadlinesMatchHistory /\ [Next]_vars
        => DeadlinesMatchHistory'
  BY NextDeadlines
<1> QED
  BY <1>1, <1>2, TypeCorrect, HistoryFounded, PTL DEF Spec
=============================================================================
