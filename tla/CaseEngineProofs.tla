-------------------------- MODULE CaseEngineProofs --------------------------
(***************************************************************************)
(* Proofs about the case engine for any set of applications, any number of *)
(* overlapping sessions and any bounds.                                    *)
(***************************************************************************)
EXTENDS CaseEngineProperties, TLAPS

-----------------------------------------------------------------------------
(* Types of the parts an action is built from.                             *)

\* The session an operation releases is a session.
LEMMA IdleSessionType == IdleSession \in Session
BY DEF IdleSession, Session, Pc, EventType, NothingLoaded, NoRow, AppRow, Time, Null,
       NewItem, ItemRow, ItemStatus, Classified, Excerpt

\* Loading one application yields a session.
LEMMA HoldingType ==
  ASSUME TypeOK, NEW pc \in Pc, NEW a \in Apps, NEW e \in EventType
  PROVE  /\ Holding(pc, a, e) \in Session
         /\ Holding(pc, a, e).pc = pc
         /\ Holding(pc, a, e).app = a
         /\ Holding(pc, a, e).event = e
         /\ Holding(pc, a, e).loaded = [NothingLoaded EXCEPT ![a] = row[a]]
         /\ Holding(pc, a, e).batch = {}
<1>1. IdleSession \in Session
  BY IdleSessionType
<1>2. row[a] \in AppRow /\ clock \in Time
  BY DEF TypeOK, Time
<1>3. NothingLoaded \in [Apps -> AppRow]
  BY DEF NothingLoaded, NoRow, AppRow, Time, Null
<1>4. [NothingLoaded EXCEPT ![a] = row[a]] \in [Apps -> AppRow]
  BY <1>2, <1>3
<1> QED
  BY <1>1, <1>2, <1>4 DEF Holding, IdleSession, Session

\* The transition's side effects keep the row a row.
LEMMA TransitionedType ==
  ASSUME NEW r \in AppRow, NEW e \in EventType, clock \in Nat, ResponsePeriod \in Nat
  PROVE  Transitioned(r, e) \in AppRow
<1>1. OrNow(r.submitted_at) \in Time /\ OrNow(r.received_at) \in Time
      /\ OrNow(r.response_received_at) \in Time
  BY DEF OrNow, AppRow, Time, Null
<1>2. StandardResponseDue(OrNow(r.received_at)) \in Time
  BY <1>1 DEF StandardResponseDue, Time
<1>3. CASE e \in {"DRAFT_CREATED", "INFORMATIONAL"}
  BY <1>3 DEF Transitioned
<1>4. CASE e \in ApplicationStatus
  BY <1>1, <1>2, <1>4 DEF Transitioned, AppRow, ApplicationStatus
<1> QED
  BY <1>3, <1>4 DEF EventType

\* A flush of typed copies leaves a typed row.
LEMMA FlushedRowType ==
  ASSUME NEW old \in AppRow, NEW new \in AppRow, NEW stored \in AppRow
  PROVE  FlushedRow(old, new, stored) \in AppRow
BY DEF FlushedRow, Written, AppRow

\* The Rights Clock leaves a sequence of deadlines.
LEMMA ClockAfterType ==
  ASSUME NEW r \in AppRow, NEW e, NEW seen \in Nat, NEW stored \in Seq(Deadline),
         clock \in Nat, ResponsePeriod \in Nat
  PROVE  ClockAfter(r, e, seen, stored) \in Seq(Deadline)
<1>1. OrNow(r.received_at) \in Time
  BY DEF OrNow, AppRow, Time, Null
<1>2. StandardResponseDue(OrNow(r.received_at)) \in Time
  BY <1>1 DEF StandardResponseDue, Time
<1>3. [ starts |-> OrNow(r.received_at), due |-> StandardResponseDue(OrNow(r.received_at)),
        status |-> "ACTIVE", completed |-> Null ] \in Deadline
  BY <1>1, <1>2 DEF Deadline, Time, Null
<1>4. CASE e = "UNDER_PROCESSING"
  BY <1>3, <1>4 DEF ClockAfter
<1>5. CASE e = "NO_RESPONSE" /\ seen \in DOMAIN stored
  <2>0. stored[seen] \in Deadline
    BY <1>5
  <2>1. [stored[seen] EXCEPT !.status = "MISSED", !.completed = clock] \in Deadline
    BY <2>0 DEF Deadline, Time
  <2>2. ClockAfter(r, e, seen, stored) =
          [stored EXCEPT ![seen] = [stored[seen] EXCEPT !.status = "MISSED", !.completed = clock]]
    BY <1>5 DEF ClockAfter
  <2> QED
    BY <2>1, <2>2, <1>5
<1>6. CASE e # "UNDER_PROCESSING" /\ ~ (e = "NO_RESPONSE" /\ seen \in DOMAIN stored)
  BY <1>6 DEF ClockAfter
<1> QED
  BY <1>4, <1>5, <1>6

\* Marking an item's copy as the model judged it yields an item.
LEMMA AppliedType ==
  ASSUME NEW old \in [Items -> ItemRow], NEW output \in AiOutput, NEW i \in Items
  PROVE  ApplyOutput(old, output)[i] \in ItemRow
<1>1. CASE output[i] = NotNamed
  BY <1>1 DEF ApplyOutput
<1>2. CASE output[i] # NotNamed
  <2>1. output[i] \in ItemRow
    BY <1>2 DEF AiOutput, Classification
  <2>2. Verdict(output[i]) \in ItemRow
    BY <2>1 DEF Verdict, ItemRow, ItemStatus, Classified, Excerpt
  <2> QED
    BY <1>2, <2>2 DEF ApplyOutput
<1> QED
  BY <1>1, <1>2

\* Recording an event keeps the tables it writes typed.
LEMMA RecordEventType ==
  ASSUME TypeOK, NEW s \in Sessions, RecordEvent(s)
  PROVE  /\ row' \in [Apps -> AppRow]
         /\ events' \in [Apps -> Seq(Event)]
         /\ deadlines' \in [Apps -> Seq(Deadline)]
         /\ clock' = clock
<1> DEFINE a == sess[s].app
           e == sess[s].event
           r == sess[s].loaded[a]
<1>1. sess[s] \in Session
  BY DEF TypeOK
<1>2. CASE a \in Apps
  <2>1. r \in AppRow /\ e \in EventType /\ sess[s].seen \in Nat /\ sess[s].start \in Time
    BY <1>1, <1>2 DEF Session
  <2>2. clock \in Nat /\ ResponsePeriod \in Nat
    BY PeriodAssumption DEF TypeOK
  <2>3. row[a] \in AppRow /\ events[a] \in Seq(Event) /\ deadlines[a] \in Seq(Deadline)
    BY <1>2 DEF TypeOK
  <2>4. FlushedRow(r, Transitioned(r, e), row[a]) \in AppRow
    BY <2>1, <2>2, <2>3, TransitionedType, FlushedRowType
  <2>5. ClockAfter(r, e, sess[s].seen, deadlines[a]) \in Seq(Deadline)
    BY <2>1, <2>2, <2>3, ClockAfterType
  <2>6. Append(events[a], [type |-> e, at |-> sess[s].start]) \in Seq(Event)
    <3>1. [type |-> e, at |-> sess[s].start] \in Event
      BY <2>1 DEF Event
    <3> QED
      BY <2>3, <3>1
  <2>7. row' = [row EXCEPT ![a] = FlushedRow(r, Transitioned(r, e), @)]
    BY DEF RecordEvent
  <2>8. deadlines' = [deadlines EXCEPT ![a] = ClockAfter(r, e, sess[s].seen, @)]
    BY DEF RecordEvent
  <2>9. events' = [events EXCEPT ![a] = Append(@, [type |-> e, at |-> sess[s].start])]
    BY DEF RecordEvent
  <2> HIDE DEF a, e, r
  <2>10. row' \in [Apps -> AppRow]
    BY <1>2, <2>4, <2>7 DEF TypeOK
  <2>11. deadlines' \in [Apps -> Seq(Deadline)]
    BY <1>2, <2>5, <2>8 DEF TypeOK
  <2>12. events' \in [Apps -> Seq(Event)]
    BY <1>2, <2>6, <2>9 DEF TypeOK
  <2> QED
    BY <2>10, <2>11, <2>12 DEF RecordEvent
<1>3. CASE a \notin Apps
  BY <1>3 DEF RecordEvent, TypeOK
<1> QED
  BY <1>2, <1>3

\* Replacing one session by another keeps the sessions typed.
LEMMA GotoType ==
  ASSUME TypeOK, NEW s \in Sessions, NEW new \in Session, Goto(s, new)
  PROVE  sess' \in [Sessions -> Session]
BY DEF TypeOK, Goto

LEMMA ReleaseType ==
  ASSUME TypeOK, NEW s \in Sessions, Release(s)
  PROVE  sess' \in [Sessions -> Session]
BY GotoType, IdleSessionType DEF Release
-----------------------------------------------------------------------------
(* Type correctness.                                                       *)

LEMMA InitType == Init => TypeOK
<1> SUFFICES ASSUME Init PROVE TypeOK
  OBVIOUS
<1>1. NoRow \in AppRow /\ NewItem \in ItemRow
  BY DEF NoRow, AppRow, Time, Null, NewItem, ItemRow, ItemStatus, Classified, Excerpt
<1>2. IdleSession \in Session
  BY IdleSessionType
<1>3. events \in [Apps -> Seq(Event)] /\ deadlines \in [Apps -> Seq(Deadline)]
  BY DEF Init
<1> QED
  BY <1>1, <1>2, <1>3 DEF Init, TypeOK

\* Every step of a request keeps the types.
LEMMA RequestType ==
  ASSUME TypeOK, SessionsSound, NEW s \in Sessions, Request(s)
  PROVE  TypeOK'
<1>0. sess[s] \in Session /\ Sound(sess[s])
  BY DEF TypeOK, SessionsSound
<1>1. ASSUME NEW a \in Apps, NEW e \in EventType, PostEvent(s, a, e) PROVE TypeOK'
  <2>1. Holding("event", a, e) \in Session
    BY HoldingType DEF Pc
  <2> QED
    BY <1>1, <2>1, GotoType DEF PostEvent, Database, TypeOK
<1>2. ASSUME NEW a \in Apps, BeginAppeal(s, a) PROVE TypeOK'
  <2>1. Holding("appeal", a, "FIRST_APPEAL_FILED") \in Session
    BY HoldingType DEF Pc, EventType, ApplicationStatus
  <2> QED
    BY <1>2, <2>1, GotoType DEF BeginAppeal, Database, TypeOK
<1>3. ASSUME NEW a \in Apps, BeginResponse(s, a) PROVE TypeOK'
  <2>1. Holding("items", a, "RESPONSE_RECEIVED") \in Session
    BY HoldingType DEF Pc, EventType, ApplicationStatus
  <2> QED
    BY <1>3, <2>1, GotoType DEF BeginResponse, Database, TypeOK
<1>4. ASSUME NEW a \in Apps, BeginSimulate(s, a) PROVE TypeOK'
  <2>1. PICK i \in DeadlineToMiss(a) \ {0} :
          Goto(s, [Holding("backdate", a, "INFORMATIONAL") EXCEPT !.seen = i])
    BY <1>4 DEF BeginSimulate
  <2>2. i \in Nat
    BY <2>1 DEF DeadlineToMiss, LatestDeadlines, TypeOK
  <2>3. Holding("backdate", a, "INFORMATIONAL") \in Session
    BY HoldingType DEF Pc, EventType
  <2>4. [Holding("backdate", a, "INFORMATIONAL") EXCEPT !.seen = i] \in Session
    BY <2>2, <2>3 DEF Session
  <2> QED
    BY <1>4, <2>1, <2>4, GotoType DEF BeginSimulate, Database, TypeOK
<1>5. ASSUME CommitEvent(s) PROVE TypeOK'
  BY <1>5, RecordEventType, ReleaseType DEF CommitEvent, TypeOK
<1>6. ASSUME CommitAppeal(s) PROVE TypeOK'
  <2>1. sess[s].app \in Apps
    BY <1>0, <1>6 DEF CommitAppeal, Sound
  <2>2. appeals' \in [Apps -> Nat]
    BY <1>6, <2>1 DEF CommitAppeal, TypeOK
  <2> QED
    BY <1>6, <2>2, RecordEventType, ReleaseType DEF CommitAppeal, TypeOK
<1>7. ASSUME ReadItems(s) PROVE TypeOK'
  <2>1. sess[s].app \in Apps
    BY <1>0, <1>7 DEF ReadItems, Sound
  <2>2. ledger[sess[s].app] \in [Items -> ItemRow]
    BY <2>1 DEF TypeOK
  <2>3. [sess[s] EXCEPT !.pc = "ai", !.items = ledger[sess[s].app]] \in Session
    BY <1>0, <2>2 DEF Session, Pc
  <2> QED
    BY <1>7, <2>3, GotoType DEF ReadItems, Database, TypeOK
<1>8. ASSUME NEW output \in AiOutput, CommitResponse(s, output) PROVE TypeOK'
  <2> DEFINE new == ApplyOutput(sess[s].items, output)
             flushed == [i \in Items |->
               FlushedItem(sess[s].items[i], new[i], ledger[sess[s].app][i])]
  <2>1. sess[s].app \in Apps
    BY <1>0, <1>8 DEF CommitResponse, Sound
  <2>2. ASSUME NEW i \in Items PROVE flushed[i] \in ItemRow
    <3>1. sess[s].items \in [Items -> ItemRow]
      BY <1>0 DEF Session
    <3>2. new[i] \in ItemRow
      BY <3>1, AppliedType
    <3>3. sess[s].items[i] \in ItemRow /\ ledger[sess[s].app][i] \in ItemRow
      BY <2>1, <3>1 DEF TypeOK
    <3> HIDE DEF new
    <3> QED
      BY <3>2, <3>3 DEF FlushedItem, Written, ItemRow
  <2>3. flushed \in [Items -> ItemRow]
    BY <2>2
  <2>4. ledger' = [ledger EXCEPT ![sess[s].app] = flushed]
    BY <1>8 DEF CommitResponse
  <2> HIDE DEF flushed
  <2>5. ledger' \in [Apps -> [Items -> ItemRow]]
    BY <2>3, <2>4 DEF TypeOK
  <2> QED
    BY <1>8, <2>5, RecordEventType, ReleaseType DEF CommitResponse, TypeOK
<1>9. ASSUME Backdate(s) PROVE TypeOK'
  <2> DEFINE a == sess[s].app
             n == sess[s].seen
  <2>1. a \in Apps
    BY <1>0, <1>9 DEF Backdate, Sound
  <2>2. clock - 1 \in Time
    BY DEF TypeOK, Time
  <2>3. deadlines[a] \in Seq(Deadline)
    BY <2>1 DEF TypeOK
  <2>4. [deadlines[a] EXCEPT ![n].due = clock - 1] \in Seq(Deadline)
    <3>1. CASE n \in DOMAIN deadlines[a]
      <4>1. deadlines[a][n] \in Deadline
        BY <2>3, <3>1
      <4>2. [deadlines[a][n] EXCEPT !.due = clock - 1] \in Deadline
        BY <2>2, <4>1 DEF Deadline
      <4> QED
        BY <2>3, <3>1, <4>2
    <3>2. CASE n \notin DOMAIN deadlines[a]
      <4>1. DOMAIN [deadlines[a] EXCEPT ![n].due = clock - 1] = DOMAIN deadlines[a]
        OBVIOUS
      <4>2. \A i \in DOMAIN deadlines[a] :
              [deadlines[a] EXCEPT ![n].due = clock - 1][i] = deadlines[a][i]
        BY <3>2
      <4>3. [deadlines[a] EXCEPT ![n].due = clock - 1] = deadlines[a]
        BY <4>1, <4>2, <2>3
      <4> QED
        BY <2>3, <4>3
    <3> QED
      BY <3>1, <3>2
  <2>5. deadlines' = [deadlines EXCEPT ![a] = [deadlines[a] EXCEPT ![n].due = clock - 1]]
    BY <1>9 DEF Backdate
  <2> HIDE DEF a, n
  <2>6. deadlines' \in [Apps -> Seq(Deadline)]
    BY <2>1, <2>4, <2>5 DEF TypeOK
  <2>7. [IdleSession EXCEPT !.pc = "query"] \in Session
    BY IdleSessionType DEF Session, Pc
  <2> QED
    BY <1>9, <2>6, <2>7, GotoType DEF Backdate, TypeOK
<1> QED
  BY <1>1, <1>2, <1>3, <1>4, <1>5, <1>6, <1>7, <1>8, <1>9 DEF Request

\* Every step of a sweep keeps the types.
LEMMA SweepType ==
  ASSUME TypeOK, SessionsSound, NEW s \in Sessions, Sweep(s)
  PROVE  TypeOK'
<1>0. sess[s] \in Session
  BY DEF TypeOK
<1>1. ASSUME SweepQuery(s) PROVE TypeOK'
  <2> DEFINE started == [IdleSession EXCEPT
                 !.pc = "sweep", !.batch = DueApplications, !.start = clock,
                 !.loaded = [a \in Apps |-> IF a \in DueApplications THEN row[a] ELSE NoRow]]
  <2>1. [a \in Apps |-> IF a \in DueApplications THEN row[a] ELSE NoRow] \in [Apps -> AppRow]
    BY DEF TypeOK, NoRow, AppRow, Time, Null
  <2>2. DueApplications \subseteq Apps /\ clock \in Time
    BY DEF DueApplications, TypeOK, Time
  <2>3. started \in Session
    BY <2>1, <2>2, IdleSessionType DEF Session, Pc
  <2>4. Release(s) \/ Goto(s, started)
    BY <1>1 DEF SweepQuery
  <2> HIDE DEF started
  <2>5. sess' \in [Sessions -> Session]
    BY <2>3, <2>4, GotoType, ReleaseType
  <2> QED
    BY <1>1, <2>5 DEF SweepQuery, Database, TypeOK
<1>2. ASSUME NEW a \in Apps, SweepNext(s, a) PROVE TypeOK'
  <2> DEFINE left == sess[s].batch \ {a}
             r == GetById(s, a)
             taken == [sess[s] EXCEPT !.pc = "clock", !.app = a, !.batch = left,
                                      !.event = "NO_RESPONSE", !.loaded[a] = r]
             skipped == [sess[s] EXCEPT !.pc = "sweep", !.app = NoApp, !.batch = left]
  <2>1. r \in AppRow
    BY <1>0 DEF GetById, Session, TypeOK
  <2>2. left \subseteq Apps
    BY <1>0 DEF Session
  <2>3. skipped \in Session
    BY <1>0, <2>2 DEF Session, Pc
  <2>4. [sess[s].loaded EXCEPT ![a] = r] \in [Apps -> AppRow]
    BY <1>0, <2>1 DEF Session
  <2>5. taken \in Session
    BY <1>0, <2>2, <2>4 DEF Session, Pc, EventType, ApplicationStatus
  <2>6. Goto(s, taken) \/ Release(s) \/ Goto(s, skipped)
    BY <1>2 DEF SweepNext, SweepOn
  <2> HIDE DEF taken, skipped
  <2>7. sess' \in [Sessions -> Session]
    BY <2>3, <2>5, <2>6, GotoType, ReleaseType
  <2> QED
    BY <1>2, <2>7 DEF SweepNext, Database, TypeOK
<1>3. ASSUME SweepReadClock(s) PROVE TypeOK'
  <2>1. PICK i \in DeadlineToMiss(sess[s].app) :
          Goto(s, [sess[s] EXCEPT !.pc = "silence", !.seen = i])
    BY <1>3 DEF SweepReadClock
  <2>2. i \in Nat
    <3>1. sess[s].app \in Apps
      BY <1>3 DEF SweepReadClock, SessionsSound, Sound
    <3> QED
      BY <2>1, <3>1 DEF DeadlineToMiss, LatestDeadlines, TypeOK
  <2>3. [sess[s] EXCEPT !.pc = "silence", !.seen = i] \in Session
    BY <1>0, <2>2 DEF Session, Pc
  <2> QED
    BY <1>3, <2>1, <2>3, GotoType DEF SweepReadClock, Database, TypeOK
<1>4. ASSUME CommitNoResponse(s) PROVE TypeOK'
  <2> DEFINE resumed == [IdleSession EXCEPT !.pc = "sweep", !.batch = sess[s].batch,
                                            !.start = clock]
  <2>1. resumed \in Session
    BY <1>0, IdleSessionType DEF Session, Pc, TypeOK, Time
  <2>2. Release(s) \/ Goto(s, resumed)
    BY <1>4 DEF CommitNoResponse
  <2> HIDE DEF resumed
  <2>3. sess' \in [Sessions -> Session]
    BY <2>1, <2>2, GotoType, ReleaseType
  <2> QED
    BY <1>4, <2>3, RecordEventType DEF CommitNoResponse, TypeOK
<1> QED
  BY <1>1, <1>2, <1>3, <1>4 DEF Sweep

\* Every step keeps the types.
LEMMA NextType ==
  ASSUME TypeOK, SessionsSound, [Next]_vars
  PROVE  TypeOK'
<1>1. ASSUME Tick PROVE TypeOK'
  BY <1>1 DEF Tick, Database, TypeOK
<1>2. ASSUME NEW a \in Apps, CreateApplication(a) PROVE TypeOK'
  <2>1. [row[a] EXCEPT !.status = INITIAL_STATE] \in AppRow
    BY DEF TypeOK, AppRow, INITIAL_STATE, ApplicationStatus
  <2>2. row' = [row EXCEPT ![a] = [row[a] EXCEPT !.status = INITIAL_STATE]]
    BY <1>2 DEF CreateApplication
  <2>3. row' \in [Apps -> AppRow]
    BY <2>1, <2>2 DEF TypeOK
  <2>4. [type |-> "DRAFT_CREATED", at |-> clock] \in Event
    BY DEF Event, EventType, TypeOK, Time
  <2>5. <<[type |-> "DRAFT_CREATED", at |-> clock]>> \in Seq(Event)
    BY <2>4
  <2>6. events' \in [Apps -> Seq(Event)]
    BY <1>2, <2>5 DEF CreateApplication, TypeOK
  <2> QED
    BY <1>2, <2>3, <2>6 DEF CreateApplication, TypeOK
<1>3. ASSUME NEW s \in Workers, Request(s) PROVE TypeOK'
  BY <1>3, RequestType DEF Sessions
<1>4. ASSUME NEW s \in Sessions, Sweep(s) PROVE TypeOK'
  BY <1>4, SweepType
<1>5. ASSUME NEW s \in Sessions, Abort(s) PROVE TypeOK'
  BY <1>5, ReleaseType DEF Abort, Database, TypeOK
<1>6. ASSUME UNCHANGED vars PROVE TypeOK'
  BY <1>6 DEF vars, TypeOK
<1> QED
  BY <1>1, <1>2, <1>3, <1>4, <1>5, <1>6 DEF Next
-----------------------------------------------------------------------------
(* Soundness of the sessions.                                              *)

LEMMA IdleSound == Sound(IdleSession)
BY DEF Sound, IdleSession

\* A step that replaces one session by a sound one keeps all sound.
LEMMA GotoSound ==
  ASSUME TypeOK, SessionsSound, NEW s \in Sessions, NEW new, Sound(new), Goto(s, new)
  PROVE  SessionsSound'
<1>1. \A z \in Sessions : sess'[z] = IF z = s THEN new ELSE sess[z]
  BY DEF Goto, TypeOK
<1> QED
  BY <1>1 DEF SessionsSound, Sound

LEMMA ReleaseSound ==
  ASSUME TypeOK, SessionsSound, NEW s \in Sessions, Release(s)
  PROVE  SessionsSound'
BY GotoSound, IdleSound DEF Release

\* What a request or a sweep has just loaded is sound.
LEMMA HoldingSound ==
  ASSUME TypeOK, NEW pc \in {"event", "appeal", "items", "backdate"},
         NEW a \in Apps, NEW e \in EventType \ {"DRAFT_CREATED"}, Exists(a),
         e \in ApplicationStatus => IsTransitionAllowed(row[a].status, e),
         pc = "event" => e \notin DedicatedEvents,
         pc = "appeal" => e = "FIRST_APPEAL_FILED",
         pc = "items" => e = "RESPONSE_RECEIVED"
  PROVE  Sound(Holding(pc, a, e))
<1>1. /\ Holding(pc, a, e).pc = pc
      /\ Holding(pc, a, e).app = a
      /\ Holding(pc, a, e).event = e
      /\ Holding(pc, a, e).loaded = [NothingLoaded EXCEPT ![a] = row[a]]
  BY HoldingType DEF Pc
<1>2. Holding(pc, a, e).loaded[a] = row[a]
  BY <1>1 DEF NothingLoaded
<1> QED
  BY <1>1, <1>2 DEF Sound, Exists

LEMMA RequestSound ==
  ASSUME TypeOK, SessionsSound, NEW s \in Sessions, Request(s)
  PROVE  SessionsSound'
<1>0. sess[s] \in Session /\ Sound(sess[s])
  BY DEF TypeOK, SessionsSound
<1>1. ASSUME NEW a \in Apps, NEW e \in EventType \ {"DRAFT_CREATED"}, PostEvent(s, a, e)
      PROVE  SessionsSound'
  <2>1. Sound(Holding("event", a, e))
    BY <1>1, HoldingSound DEF PostEvent, CanBegin
  <2> QED
    BY <1>1, <2>1, GotoSound DEF PostEvent
<1>2. ASSUME NEW a \in Apps, BeginAppeal(s, a) PROVE SessionsSound'
  <2>1. Sound(Holding("appeal", a, "FIRST_APPEAL_FILED"))
    BY <1>2, HoldingSound DEF BeginAppeal, CanBegin, EventType, ApplicationStatus
  <2> QED
    BY <1>2, <2>1, GotoSound DEF BeginAppeal
<1>3. ASSUME NEW a \in Apps, BeginResponse(s, a) PROVE SessionsSound'
  <2>1. Sound(Holding("items", a, "RESPONSE_RECEIVED"))
    BY <1>3, HoldingSound DEF BeginResponse, CanBegin, EventType, ApplicationStatus
  <2> QED
    BY <1>3, <2>1, GotoSound DEF BeginResponse
<1>4. ASSUME NEW a \in Apps, BeginSimulate(s, a) PROVE SessionsSound'
  <2>1. PICK i \in DeadlineToMiss(a) \ {0} :
          Goto(s, [Holding("backdate", a, "INFORMATIONAL") EXCEPT !.seen = i])
    BY <1>4 DEF BeginSimulate
  <2> DEFINE held == Holding("backdate", a, "INFORMATIONAL")
  <2>2. held \in Session /\ held.pc = "backdate" /\ held.app = a
    <3>1. "backdate" \in Pc /\ "INFORMATIONAL" \in EventType
      BY DEF Pc, EventType
    <3>2. held \in Session
      BY <3>1, HoldingType
    <3>3. held.pc = "backdate" /\ held.app = a
      BY DEF Holding, IdleSession
    <3> QED
      BY <3>2, <3>3
  <2>3. Sound([Holding("backdate", a, "INFORMATIONAL") EXCEPT !.seen = i])
    BY <2>2 DEF Sound, Session
  <2> QED
    BY <2>1, <2>3, GotoSound
<1>5. ASSUME ReadItems(s) PROVE SessionsSound'
  <2>1. Sound([sess[s] EXCEPT !.pc = "ai", !.items = ledger[sess[s].app]])
    BY <1>0, <1>5 DEF ReadItems, Sound, Session
  <2> QED
    BY <1>5, <2>1, GotoSound DEF ReadItems
<1>6. ASSUME Backdate(s) PROVE SessionsSound'
  <2>1. Sound([IdleSession EXCEPT !.pc = "query"])
    BY DEF Sound, IdleSession
  <2> QED
    BY <1>6, <2>1, GotoSound DEF Backdate
<1>7. ASSUME Release(s) PROVE SessionsSound'
  BY <1>7, ReleaseSound
<1> QED
  BY <1>1, <1>2, <1>3, <1>4, <1>5, <1>6, <1>7
     DEF Request, CommitEvent, CommitAppeal, CommitResponse

LEMMA SweepSound ==
  ASSUME TypeOK, SessionsSound, NEW s \in Sessions, Sweep(s)
  PROVE  SessionsSound'
<1>0. sess[s] \in Session /\ Sound(sess[s])
  BY DEF TypeOK, SessionsSound
<1>1. ASSUME SweepQuery(s) PROVE SessionsSound'
  <2> DEFINE started == [IdleSession EXCEPT
                 !.pc = "sweep", !.batch = DueApplications, !.start = clock,
                 !.loaded = [a \in Apps |-> IF a \in DueApplications THEN row[a] ELSE NoRow]]
  <2>1. Sound(started)
    BY DEF Sound, IdleSession
  <2>2. Release(s) \/ Goto(s, started)
    BY <1>1 DEF SweepQuery
  <2> HIDE DEF started
  <2> QED
    BY <2>1, <2>2, GotoSound, ReleaseSound
<1>2. ASSUME NEW a \in Apps, SweepNext(s, a) PROVE SessionsSound'
  <2> DEFINE left == sess[s].batch \ {a}
             r == GetById(s, a)
             taken == [sess[s] EXCEPT !.pc = "clock", !.app = a, !.batch = left,
                                      !.event = "NO_RESPONSE", !.loaded[a] = r]
             skipped == [sess[s] EXCEPT !.pc = "sweep", !.app = NoApp, !.batch = left]
  <2>1. CASE IsTransitionAllowed(r.status, "NO_RESPONSE")
    <3>1. r.status # "NONE"
      BY <2>1 DEF IsTransitionAllowed, TRANSITIONS
    <3>2. taken.loaded[a] = r
      BY <1>0 DEF Session
    <3>3. taken.pc = "clock" /\ taken.app = a /\ taken.event = "NO_RESPONSE"
      BY <1>0 DEF Session
    <3>4. Sound(taken)
      BY <2>1, <3>1, <3>2, <3>3 DEF Sound
    <3>5. Goto(s, taken)
      BY <1>2, <2>1 DEF SweepNext
    <3> HIDE DEF taken
    <3> QED
      BY <3>4, <3>5, GotoSound
  <2>2. CASE ~ IsTransitionAllowed(r.status, "NO_RESPONSE")
    <3>1. Sound(skipped)
      BY <1>0 DEF Sound, Session
    <3>2. Release(s) \/ Goto(s, skipped)
      BY <1>2, <2>2 DEF SweepNext, SweepOn
    <3> HIDE DEF skipped
    <3> QED
      BY <3>1, <3>2, GotoSound, ReleaseSound
  <2> QED
    BY <2>1, <2>2
<1>3. ASSUME SweepReadClock(s) PROVE SessionsSound'
  <2>1. PICK i \in DeadlineToMiss(sess[s].app) :
          Goto(s, [sess[s] EXCEPT !.pc = "silence", !.seen = i])
    BY <1>3 DEF SweepReadClock
  <2>2. Sound([sess[s] EXCEPT !.pc = "silence", !.seen = i])
    BY <1>0, <1>3 DEF SweepReadClock, Sound, Session
  <2> QED
    BY <2>1, <2>2, GotoSound
<1>4. ASSUME CommitNoResponse(s) PROVE SessionsSound'
  <2> DEFINE resumed == [IdleSession EXCEPT !.pc = "sweep", !.batch = sess[s].batch,
                                            !.start = clock]
  <2>1. Sound(resumed)
    BY DEF Sound, IdleSession
  <2>2. Release(s) \/ Goto(s, resumed)
    BY <1>4 DEF CommitNoResponse
  <2> HIDE DEF resumed
  <2> QED
    BY <2>1, <2>2, GotoSound, ReleaseSound
<1> QED
  BY <1>1, <1>2, <1>3, <1>4 DEF Sweep

\* Every step keeps the sessions sound.
LEMMA NextSound ==
  ASSUME TypeOK, SessionsSound, [Next]_vars
  PROVE  SessionsSound'
<1>1. CASE UNCHANGED sess
  BY <1>1 DEF SessionsSound, Sound
<1>2. ASSUME NEW s \in Workers, Request(s) PROVE SessionsSound'
  BY <1>2, RequestSound DEF Sessions
<1>3. ASSUME NEW s \in Sessions, Sweep(s) PROVE SessionsSound'
  BY <1>3, SweepSound
<1>4. ASSUME NEW s \in Sessions, Abort(s) PROVE SessionsSound'
  BY <1>4, ReleaseSound DEF Abort
<1> QED
  BY <1>1, <1>2, <1>3, <1>4 DEF Next, Tick, CreateApplication, vars

\* The variables have their types in every reachable state, and every session
\* between load and commit holds a copy its event is legal for.
THEOREM TypeCorrect == Spec => [](TypeOK /\ SessionsSound)
<1>1. Init => TypeOK /\ SessionsSound
  BY InitType, IdleSound DEF Init, SessionsSound
<1>2. TypeOK /\ SessionsSound /\ [Next]_vars => (TypeOK /\ SessionsSound)'
  BY NextType, NextSound
<1> QED
  BY <1>1, <1>2, PTL DEF Spec
-----------------------------------------------------------------------------
(* What a step does to the rows and the log.                               *)

Committing == {"event", "appeal", "ai", "silence"}

\* The table has no edge from a status to itself.
LEMMA NoSelfLoop ==
  ASSUME NEW from, NEW to, IsTransitionAllowed(from, to)
  PROVE  from # to /\ from \in ApplicationStatus /\ to \in ApplicationStatus
BY DEF IsTransitionAllowed, TRANSITIONS, ApplicationStatus

\* A commit appends its event and moves the row's status to it if it names
\* one; it touches no other application.
LEMMA CommitEffect ==
  ASSUME TypeOK, SessionsSound, NEW s \in Sessions, sess[s].pc \in Committing, RecordEvent(s)
  PROVE  LET a == sess[s].app
             e == sess[s].event
         IN /\ a \in Apps
            /\ e \in EventType \ {"DRAFT_CREATED"}
            /\ events' = [events EXCEPT ![a] = Append(@, [type |-> e, at |-> sess[s].start])]
            /\ row'[a].status = IF e \in ApplicationStatus THEN e ELSE row[a].status
            /\ \A b \in Apps \ {a} : row'[b] = row[b] /\ deadlines'[b] = deadlines[b]
<1> DEFINE a == sess[s].app
           e == sess[s].event
           r == sess[s].loaded[a]
<1>1. /\ a \in Apps
      /\ e \in EventType \ {"DRAFT_CREATED"}
      /\ e \in ApplicationStatus => IsTransitionAllowed(r.status, e)
      /\ r \in AppRow
  BY DEF SessionsSound, Sound, Committing, TypeOK, Session
<1>2. row' = [row EXCEPT ![a] = FlushedRow(r, Transitioned(r, e), row[a])]
  BY DEF RecordEvent
<1>3. deadlines' = [deadlines EXCEPT ![a] = ClockAfter(r, e, sess[s].seen, deadlines[a])]
  BY DEF RecordEvent
<1>4. events' = [events EXCEPT ![a] = Append(@, [type |-> e, at |-> sess[s].start])]
  BY DEF RecordEvent
<1> HIDE DEF a, e, r
<1>5. row'[a].status = IF e \in ApplicationStatus THEN e ELSE row[a].status
  <2>1. row'[a] = FlushedRow(r, Transitioned(r, e), row[a])
    BY <1>1, <1>2 DEF TypeOK
  <2>2. row'[a].status = Written(r.status, Transitioned(r, e).status, row[a].status)
    BY <2>1 DEF FlushedRow
  <2>3. CASE e \in ApplicationStatus
    <3>1. Transitioned(r, e).status = e
      BY <1>1, <2>3 DEF Transitioned, AppRow, ApplicationStatus
    <3>2. r.status # e
      BY <1>1, <2>3, NoSelfLoop
    <3> QED
      BY <2>2, <2>3, <3>1, <3>2 DEF Written
  <2>4. CASE e = "INFORMATIONAL"
    <3>1. Transitioned(r, e) = r
      BY <2>4 DEF Transitioned
    <3> QED
      BY <2>2, <2>4, <3>1 DEF Written, ApplicationStatus
  <2> QED
    BY <1>1, <2>3, <2>4 DEF EventType
<1>6. \A b \in Apps \ {a} : row'[b] = row[b] /\ deadlines'[b] = deadlines[b]
  BY <1>2, <1>3 DEF TypeOK
<1> QED
  BY <1>1, <1>4, <1>5, <1>6 DEF a, e

\* A step creates an application, commits an event, backdates a deadline or
\* leaves rows, log and deadlines alone.
LEMMA StepKinds ==
  ASSUME TypeOK, [Next]_vars
  PROVE  \/ \E a \in Apps : CreateApplication(a)
         \/ \E s \in Sessions : sess[s].pc \in Committing /\ RecordEvent(s)
         \/ \E s \in Sessions : Backdate(s)
         \/ UNCHANGED <<row, events, deadlines>>
<1>1. CASE Tick \/ UNCHANGED vars
  BY <1>1 DEF Tick, vars, Database
<1>2. ASSUME NEW s \in Workers, Request(s)
      PROVE  \/ sess[s].pc \in Committing /\ RecordEvent(s)
             \/ Backdate(s)
             \/ UNCHANGED <<row, events, deadlines>>
  BY <1>2 DEF Request, PostEvent, CommitEvent, BeginAppeal, CommitAppeal, BeginResponse,
       ReadItems, CommitResponse, BeginSimulate, Committing, Database
<1>3. ASSUME NEW s \in Sessions, Sweep(s) \/ Abort(s)
      PROVE  \/ sess[s].pc \in Committing /\ RecordEvent(s)
             \/ UNCHANGED <<row, events, deadlines>>
  BY <1>3 DEF Sweep, Abort, SweepQuery, SweepNext, SweepReadClock, CommitNoResponse,
       Committing, Database
<1> QED
  BY <1>1, <1>2, <1>3 DEF Next, Sessions
-----------------------------------------------------------------------------
(* The rights clock.                                                       *)

\* Every step keeps the clock of a case under processing armed.
LEMMA NextArmed ==
  ASSUME TypeOK, SessionsSound, RightsClockArmed, [Next]_vars
  PROVE  RightsClockArmed'
<1>1. ASSUME NEW b \in Apps, CreateApplication(b) PROVE RightsClockArmed'
  BY <1>1 DEF CreateApplication, RightsClockArmed, TypeOK, AppRow, INITIAL_STATE
<1>2. ASSUME NEW s \in Sessions, sess[s].pc \in Committing, RecordEvent(s)
      PROVE  RightsClockArmed'
  <2> DEFINE a == sess[s].app
             e == sess[s].event
             r == sess[s].loaded[a]
             cleared == ClockAfter(r, e, sess[s].seen, deadlines[a])
  <2>1. /\ a \in Apps
        /\ e \in EventType \ {"DRAFT_CREATED"}
        /\ row'[a].status = IF e \in ApplicationStatus THEN e ELSE row[a].status
        /\ \A b \in Apps \ {a} : row'[b] = row[b] /\ deadlines'[b] = deadlines[b]
    BY <1>2, CommitEffect
  <2>2. deadlines[a] \in Seq(Deadline)
    BY <2>1 DEF TypeOK
  <2>3. deadlines'[a] = cleared
    BY <1>2, <2>1 DEF RecordEvent, TypeOK
  <2> HIDE DEF a, r, e
  <2>4. CASE e = "UNDER_PROCESSING"
    <3> DEFINE new == [ starts |-> OrNow(r.received_at),
                        due |-> StandardResponseDue(OrNow(r.received_at)),
                        status |-> "ACTIVE", completed |-> Null ]
    <3>1. deadlines'[a] = Append(deadlines[a], new)
      BY <2>3, <2>4 DEF ClockAfter
    <3> DEFINE n == Len(deadlines[a]) + 1
    <3>2. n \in DOMAIN deadlines'[a] /\ deadlines'[a][n] = new
      BY <2>2, <3>1
    <3>3. deadlines'[a][n].status = "ACTIVE"
      BY <3>2
    <3>4. \E i \in DOMAIN deadlines'[a] : deadlines'[a][i].status = "ACTIVE"
      BY <3>2, <3>3
    <3> QED
      BY <2>1, <3>4 DEF RightsClockArmed
  <2>5. CASE e # "UNDER_PROCESSING" /\ e \in ApplicationStatus
    <3>1. row'[a].status # "UNDER_PROCESSING"
      BY <2>1, <2>5
    <3> QED
      BY <2>1, <3>1 DEF RightsClockArmed
  <2>6. CASE e = "INFORMATIONAL"
    <3>1. row'[a].status = row[a].status
      BY <2>1, <2>6 DEF ApplicationStatus
    <3>2. deadlines'[a] = deadlines[a]
      BY <2>3, <2>6 DEF ClockAfter
    <3> QED
      BY <2>1, <3>1, <3>2 DEF RightsClockArmed
  <2> QED
    BY <2>1, <2>4, <2>5, <2>6 DEF EventType
<1>3. ASSUME NEW s \in Sessions, Backdate(s) PROVE RightsClockArmed'
  <2>1. sess[s].app \in Apps
    BY <1>3 DEF Backdate, SessionsSound, Sound
  <2>2. row' = row
    BY <1>3 DEF Backdate
  <2>3. \A a \in Apps : /\ DOMAIN deadlines'[a] = DOMAIN deadlines[a]
                       /\ \A i \in DOMAIN deadlines[a] :
                            deadlines'[a][i].status = deadlines[a][i].status
    <3> SUFFICES ASSUME NEW a \in Apps
                 PROVE  /\ DOMAIN deadlines'[a] = DOMAIN deadlines[a]
                        /\ \A i \in DOMAIN deadlines[a] :
                             deadlines'[a][i].status = deadlines[a][i].status
      OBVIOUS
    <3>1. CASE a # sess[s].app
      BY <1>3, <3>1 DEF Backdate, TypeOK
    <3>2. CASE a = sess[s].app
      <4>1. deadlines'[a] = [deadlines[a] EXCEPT ![sess[s].seen].due = clock - 1]
        BY <1>3, <3>2 DEF Backdate, TypeOK
      <4>2. \A i \in DOMAIN deadlines[a] : deadlines[a][i] \in Deadline
        BY DEF TypeOK
      <4> QED
        BY <4>1, <4>2 DEF Deadline
    <3> QED
      BY <3>1, <3>2
  <2> QED
    BY <2>2, <2>3 DEF RightsClockArmed
<1>4. CASE UNCHANGED <<row, events, deadlines>>
  BY <1>4 DEF RightsClockArmed
<1> QED
  BY <1>1, <1>2, <1>3, <1>4, StepKinds

\* An application under processing always has an ACTIVE response deadline,
\* for any number of overlapping requests and sweeps.
THEOREM ClockArmed == Spec => []RightsClockArmed
<1>1. Init => RightsClockArmed
  BY DEF Init, RightsClockArmed, NoRow
<1>2. TypeOK /\ SessionsSound /\ RightsClockArmed /\ [Next]_vars => RightsClockArmed'
  BY NextArmed
<1> QED
  BY <1>1, <1>2, TypeCorrect, PTL DEF Spec
-----------------------------------------------------------------------------
(* The history.                                                            *)

\* A status the log had, it still has after a step.
LEMMA LogGrows ==
  ASSUME TypeOK, SessionsSound, [Next]_vars, NEW a \in Apps, NEW st,
         row[a].status = "NONE" => events[a] = <<>>
  PROVE  WasIn(a, st, Len(events[a])) => WasIn(a, st, Len(events[a]))'
<1> SUFFICES ASSUME WasIn(a, st, Len(events[a])) PROVE WasIn(a, st, Len(events[a]))'
  OBVIOUS
<1>1. PICK i \in 1..Len(events[a]) : StatusOf(events[a][i]) = st
  BY DEF WasIn
<1>2. events[a] \in Seq(Event)
  BY DEF TypeOK
<1>3. events'[a] = events[a] \/ \E x \in Event : events'[a] = Append(events[a], x)
  <2>1. ASSUME NEW b \in Apps, CreateApplication(b) PROVE <1>3!:
    <3>1. CASE a = b
      BY <1>1, <1>2, <2>1, <3>1 DEF CreateApplication, Exists
    <3>2. CASE a # b
      BY <2>1, <3>2 DEF CreateApplication, TypeOK
    <3> QED
      BY <3>1, <3>2
  <2>2. ASSUME NEW s \in Sessions, sess[s].pc \in Committing, RecordEvent(s) PROVE <1>3!:
    <3>1. [type |-> sess[s].event, at |-> sess[s].start] \in Event
      BY DEF TypeOK, Session, Event
    <3>2. events' = [events EXCEPT ![sess[s].app] =
                       Append(@, [type |-> sess[s].event, at |-> sess[s].start])]
      BY <2>2 DEF RecordEvent
    <3> QED
      BY <3>1, <3>2 DEF TypeOK
  <2>3. ASSUME NEW s \in Sessions, Backdate(s) PROVE <1>3!:
    BY <2>3 DEF Backdate
  <2> QED
    BY <2>1, <2>2, <2>3, StepKinds
<1>4. i \in 1..Len(events'[a]) /\ events'[a][i] = events[a][i]
  BY <1>2, <1>3
<1> QED
  BY <1>1, <1>4 DEF WasIn, StatusOf

\* After a step a session's copy of a row is empty, was already its copy, or
\* is the row as it stood before the step.
LEMMA CopiesAreRead ==
  ASSUME TypeOK, [Next]_vars, NEW s \in Sessions, NEW a \in Apps
  PROVE  sess'[s].loaded[a] \in {NoRow, row[a], sess[s].loaded[a]}
<1>0. sess \in [Sessions -> Session] /\ \A z \in Sessions : sess[z] \in Session
  BY DEF TypeOK
<1>1. CASE UNCHANGED sess
  BY <1>1
<1>2. ASSUME NEW z \in Sessions, NEW new, Goto(z, new),
             \A b \in Apps : new.loaded[b] \in {NoRow, row[b], sess[z].loaded[b]}
      PROVE  sess'[s].loaded[a] \in {NoRow, row[a], sess[s].loaded[a]}
  BY <1>0, <1>2 DEF Goto
<1>3. ASSUME NEW z \in Sessions, Release(z)
      PROVE  sess'[s].loaded[a] \in {NoRow, row[a], sess[s].loaded[a]}
  <2>1. \A b \in Apps : IdleSession.loaded[b] = NoRow
    BY DEF IdleSession, NothingLoaded
  <2> QED
    BY <1>2, <1>3, <2>1 DEF Release
<1>4. ASSUME NEW z \in Sessions, NEW pc, NEW b \in Apps, NEW e
      PROVE  \A c \in Apps : Holding(pc, b, e).loaded[c] \in {NoRow, row[c], sess[z].loaded[c]}
  BY DEF Holding, IdleSession, NothingLoaded
<1>5. ASSUME NEW z \in Workers, Request(z)
      PROVE  sess'[s].loaded[a] \in {NoRow, row[a], sess[s].loaded[a]}
  <2>0. z \in Sessions
    BY DEF Sessions
  <2>1. ASSUME NEW b \in Apps, NEW e, NEW pc, Goto(z, Holding(pc, b, e))
        PROVE  sess'[s].loaded[a] \in {NoRow, row[a], sess[s].loaded[a]}
    BY <1>2, <1>4, <2>0, <2>1
  <2>2. ASSUME NEW b \in Apps, BeginSimulate(z, b)
        PROVE  sess'[s].loaded[a] \in {NoRow, row[a], sess[s].loaded[a]}
    <3>1. PICK i \in DeadlineToMiss(b) \ {0} :
            Goto(z, [Holding("backdate", b, "INFORMATIONAL") EXCEPT !.seen = i])
      BY <2>2 DEF BeginSimulate
    <3> DEFINE held == [Holding("backdate", b, "INFORMATIONAL") EXCEPT !.seen = i]
    <3>2. held.loaded = Holding("backdate", b, "INFORMATIONAL").loaded
      BY DEF Holding, IdleSession
    <3>3. \A c \in Apps : held.loaded[c] \in {NoRow, row[c], sess[z].loaded[c]}
      BY <1>4, <2>0, <3>2
    <3>4. Goto(z, held)
      BY <3>1
    <3> HIDE DEF held
    <3> QED
      BY <1>2, <2>0, <3>3, <3>4
  <2>3. ASSUME ReadItems(z)
        PROVE  sess'[s].loaded[a] \in {NoRow, row[a], sess[s].loaded[a]}
    <3>1. [sess[z] EXCEPT !.pc = "ai", !.items = ledger[sess[z].app]].loaded = sess[z].loaded
      BY <1>0, <2>0 DEF Session
    <3> QED
      BY <1>2, <2>0, <2>3, <3>1 DEF ReadItems
  <2>4. ASSUME Backdate(z)
        PROVE  sess'[s].loaded[a] \in {NoRow, row[a], sess[s].loaded[a]}
    <3> DEFINE released == [IdleSession EXCEPT !.pc = "query"]
    <3>1. \A b \in Apps : released.loaded[b] = NoRow
      BY DEF IdleSession, NothingLoaded
    <3>2. Goto(z, released)
      BY <2>4 DEF Backdate
    <3> HIDE DEF released
    <3> QED
      BY <1>2, <2>0, <3>1, <3>2
  <2> QED
    BY <1>3, <1>5, <2>0, <2>1, <2>2, <2>3, <2>4
       DEF Request, PostEvent, BeginAppeal, BeginResponse, CommitEvent, CommitAppeal,
           CommitResponse
<1>6. ASSUME NEW z \in Sessions, Sweep(z)
      PROVE  sess'[s].loaded[a] \in {NoRow, row[a], sess[s].loaded[a]}
  <2>1. ASSUME SweepQuery(z)
        PROVE  sess'[s].loaded[a] \in {NoRow, row[a], sess[s].loaded[a]}
    <3> DEFINE started == [IdleSession EXCEPT
                 !.pc = "sweep", !.batch = DueApplications, !.start = clock,
                 !.loaded = [c \in Apps |-> IF c \in DueApplications THEN row[c] ELSE NoRow]]
    <3>1. \A b \in Apps : started.loaded[b] \in {NoRow, row[b]}
      BY DEF IdleSession
    <3>2. Release(z) \/ Goto(z, started)
      BY <2>1 DEF SweepQuery
    <3> HIDE DEF started
    <3> QED
      BY <1>2, <1>3, <3>1, <3>2
  <2>2. ASSUME NEW b \in Apps, SweepNext(z, b)
        PROVE  sess'[s].loaded[a] \in {NoRow, row[a], sess[s].loaded[a]}
    <3> DEFINE left == sess[z].batch \ {b}
               taken == [sess[z] EXCEPT !.pc = "clock", !.app = b, !.batch = left,
                           !.event = "NO_RESPONSE", !.loaded[b] = GetById(z, b)]
               skipped == [sess[z] EXCEPT !.pc = "sweep", !.app = NoApp, !.batch = left]
    <3>1. skipped.loaded = sess[z].loaded
      BY <1>0 DEF Session
    <3>2. taken.loaded = [sess[z].loaded EXCEPT ![b] = GetById(z, b)]
      BY <1>0 DEF Session
    <3>3. sess[z].loaded \in [Apps -> AppRow]
      BY <1>0 DEF Session
    <3>4. \A c \in Apps : taken.loaded[c] \in {NoRow, row[c], sess[z].loaded[c]}
      BY <3>2, <3>3 DEF GetById
    <3>5. Release(z) \/ Goto(z, taken) \/ Goto(z, skipped)
      BY <2>2 DEF SweepNext, SweepOn
    <3> HIDE DEF taken, skipped
    <3> QED
      BY <1>2, <1>3, <3>1, <3>4, <3>5
  <2>3. ASSUME SweepReadClock(z)
        PROVE  sess'[s].loaded[a] \in {NoRow, row[a], sess[s].loaded[a]}
    <3>1. PICK i \in DeadlineToMiss(sess[z].app) :
            Goto(z, [sess[z] EXCEPT !.pc = "silence", !.seen = i])
      BY <2>3 DEF SweepReadClock
    <3>2. [sess[z] EXCEPT !.pc = "silence", !.seen = i].loaded = sess[z].loaded
      BY <1>0 DEF Session
    <3> QED
      BY <1>2, <3>1, <3>2
  <2>4. ASSUME CommitNoResponse(z)
        PROVE  sess'[s].loaded[a] \in {NoRow, row[a], sess[s].loaded[a]}
    <3> DEFINE resumed == [IdleSession EXCEPT !.pc = "sweep", !.batch = sess[z].batch,
                                              !.start = clock]
    <3>1. \A b \in Apps : resumed.loaded[b] = NoRow
      BY DEF IdleSession, NothingLoaded
    <3>2. Release(z) \/ Goto(z, resumed)
      BY <2>4 DEF CommitNoResponse
    <3> HIDE DEF resumed
    <3> QED
      BY <1>2, <1>3, <3>1, <3>2
  <2> QED
    BY <1>6, <2>1, <2>2, <2>3, <2>4 DEF Sweep
<1>7. ASSUME NEW z \in Sessions, Abort(z)
      PROVE  sess'[s].loaded[a] \in {NoRow, row[a], sess[s].loaded[a]}
  BY <1>3, <1>7 DEF Abort
<1> QED
  BY <1>1, <1>5, <1>6, <1>7 DEF Next, Tick, CreateApplication, vars

\* Every step keeps every status in the log.
LEMMA NextLogged ==
  ASSUME TypeOK, SessionsSound, StatusesAreLogged, [Next]_vars
  PROVE  StatusesAreLogged'
<1> SUFFICES ASSUME NEW a \in Apps
             PROVE  /\ row'[a].status = "NONE" => events'[a] = <<>>
                    /\ row'[a].status # "NONE" => WasIn(a, row[a].status, Len(events[a]))'
                    /\ \A s \in Sessions : sess'[s].loaded[a].status # "NONE" =>
                         WasIn(a, sess[s].loaded[a].status, Len(events[a]))'
  BY DEF StatusesAreLogged
<1>1. \A st : WasIn(a, st, Len(events[a])) => \E i \in 1..Len(events'[a]) :
                                                 StatusOf(events'[a][i]) = st
  <2> SUFFICES ASSUME NEW st, WasIn(a, st, Len(events[a]))
               PROVE  \E i \in 1..Len(events'[a]) : StatusOf(events'[a][i]) = st
    OBVIOUS
  <2> QED
    BY LogGrows DEF StatusesAreLogged, WasIn, StatusOf
<1>2. /\ row'[a].status = "NONE" => events'[a] = <<>>
      /\ row'[a].status # "NONE" =>
           \E i \in 1..Len(events'[a]) : StatusOf(events'[a][i]) = row'[a].status
  <2>1. ASSUME NEW b \in Apps, CreateApplication(b) PROVE <1>2!:
    <3>1. CASE a = b
      <4>1. events'[a] = <<[type |-> "DRAFT_CREATED", at |-> clock]>>
        BY <2>1, <3>1 DEF CreateApplication, TypeOK
      <4>2. row'[a].status = INITIAL_STATE
        BY <2>1, <3>1 DEF CreateApplication, TypeOK, AppRow
      <4> QED
        BY <4>1, <4>2 DEF StatusOf, INITIAL_STATE
    <3>2. CASE a # b
      <4>1. row'[a] = row[a] /\ events'[a] = events[a]
        BY <2>1, <3>2 DEF CreateApplication, TypeOK
      <4> QED
        BY <1>1, <4>1 DEF StatusesAreLogged
    <3> QED
      BY <3>1, <3>2
  <2>2. ASSUME NEW s \in Sessions, sess[s].pc \in Committing, RecordEvent(s) PROVE <1>2!:
    <3> DEFINE b == sess[s].app
               e == sess[s].event
    <3>1. /\ b \in Apps
          /\ e \in EventType \ {"DRAFT_CREATED"}
          /\ events' = [events EXCEPT ![b] = Append(@, [type |-> e, at |-> sess[s].start])]
          /\ row'[b].status = IF e \in ApplicationStatus THEN e ELSE row[b].status
          /\ \A c \in Apps \ {b} : row'[c] = row[c]
      BY <2>2, CommitEffect
    <3>2. row[b].status # "NONE"
      <4>1. sess[s].loaded[b].status # "NONE"
        BY <2>2 DEF SessionsSound, Sound, Committing
      <4>2. WasIn(b, sess[s].loaded[b].status, Len(events[b]))
        BY <3>1, <4>1 DEF StatusesAreLogged
      <4>3. events[b] # <<>>
        BY <4>2 DEF WasIn
      <4> QED
        BY <3>1, <4>3 DEF StatusesAreLogged
    <3> HIDE DEF b, e
    <3>3. CASE a # b
      <4>1. row'[a] = row[a] /\ events'[a] = events[a]
        BY <3>1, <3>3 DEF TypeOK
      <4> QED
        BY <1>1, <4>1 DEF StatusesAreLogged
    <3>4. CASE a = b /\ e \in ApplicationStatus
      <4> DEFINE x == [type |-> e, at |-> sess[s].start]
      <4>1. events'[a] = Append(events[a], x)
        BY <3>1, <3>4 DEF TypeOK
      <4>2. events[a] \in Seq(Event)
        BY DEF TypeOK
      <4>3. Len(events'[a]) \in 1..Len(events'[a]) /\ events'[a][Len(events'[a])] = x
        BY <4>1, <4>2
      <4>4. StatusOf(x) = e
        BY <3>1 DEF StatusOf
      <4>5. row'[a].status = e /\ e # "NONE"
        BY <3>1, <3>4 DEF ApplicationStatus
      <4> HIDE DEF x
      <4> QED
        BY <4>3, <4>4, <4>5
    <3>5. CASE a = b /\ e \notin ApplicationStatus
      <4>1. row'[a].status = row[a].status /\ row[a].status # "NONE"
        BY <3>1, <3>2, <3>5
      <4> QED
        BY <1>1, <4>1 DEF StatusesAreLogged
    <3> QED
      BY <3>3, <3>4, <3>5
  <2>3. CASE UNCHANGED <<row, events>>
    BY <1>1, <2>3 DEF StatusesAreLogged
  <2> QED
    BY <2>1, <2>2, <2>3, StepKinds DEF Backdate
<1>3. ASSUME NEW s \in Sessions, sess'[s].loaded[a].status # "NONE"
      PROVE  \E i \in 1..Len(events'[a]) : StatusOf(events'[a][i]) = sess'[s].loaded[a].status
  <2>1. sess'[s].loaded[a] \in {NoRow, row[a], sess[s].loaded[a]}
    BY CopiesAreRead
  <2>2. WasIn(a, sess'[s].loaded[a].status, Len(events[a]))
    BY <1>3, <2>1 DEF StatusesAreLogged, NoRow
  <2> QED
    BY <1>1, <2>2
<1> QED
  BY <1>2, <1>3 DEF WasIn, StatusOf

\* Every step keeps the history well founded: the copy a commit validated
\* against has its status in the log, however stale it is.
LEMMA NextWellFounded ==
  ASSUME TypeOK, SessionsSound, StatusesAreLogged, HistoryWellFounded, [Next]_vars
  PROVE  HistoryWellFounded'
<1> DEFINE Founded(log, n) ==
      log[n].type \in ApplicationStatus =>
        \E i \in 1..(n - 1) : IsTransitionAllowed(StatusOf(log[i]), log[n].type)
<1>0. \A a \in Apps : \A n \in DOMAIN events[a] : Founded(events[a], n)
  BY DEF HistoryWellFounded
<1> SUFFICES ASSUME NEW a \in Apps, NEW n \in DOMAIN events'[a]
             PROVE  Founded(events'[a], n)
  BY DEF HistoryWellFounded, StatusOf
<1>1. ASSUME NEW b \in Apps, CreateApplication(b) PROVE Founded(events'[a], n)
  <2>1. CASE a = b
    <3>1. events'[a] = <<[type |-> "DRAFT_CREATED", at |-> clock]>>
      BY <1>1, <2>1 DEF CreateApplication, TypeOK
    <3> QED
      BY <3>1 DEF ApplicationStatus
  <2>2. CASE a # b
    <3>1. events'[a] = events[a]
      BY <1>1, <2>2 DEF CreateApplication, TypeOK
    <3> QED
      BY <1>0, <3>1
  <2> QED
    BY <2>1, <2>2
<1>2. ASSUME NEW s \in Sessions, sess[s].pc \in Committing, RecordEvent(s)
      PROVE  Founded(events'[a], n)
  <2> DEFINE b == sess[s].app
             e == sess[s].event
             x == [type |-> e, at |-> sess[s].start]
  <2>1. /\ b \in Apps
        /\ events' = [events EXCEPT ![b] = Append(@, x)]
    BY <1>2, CommitEffect
  <2>2. events[a] \in Seq(Event)
    BY DEF TypeOK
  <2>3. CASE a # b
    <3>1. events'[a] = events[a]
      BY <2>1, <2>3 DEF TypeOK
    <3> QED
      BY <1>0, <3>1
  <2>4. CASE a = b
    <3>1. events'[a] = Append(events[a], x)
      BY <2>1, <2>4 DEF TypeOK
    <3> HIDE DEF x
    <3>2. CASE n \in 1..Len(events[a])
      <4>1. n \in DOMAIN events[a] /\ \A i \in 1..n : events'[a][i] = events[a][i]
        BY <2>2, <3>1, <3>2
      <4>2. Founded(events[a], n)
        BY <1>0, <4>1
      <4>3. n \in 1..n /\ \A i \in 1..(n - 1) : i \in 1..n
        BY <3>2
      <4> QED
        BY <4>1, <4>2, <4>3 DEF StatusOf
    <3>3. CASE n = Len(events[a]) + 1
      <4>1. events'[a][n] = x /\ \A i \in 1..Len(events[a]) : events'[a][i] = events[a][i]
        BY <2>2, <3>1, <3>3
      <4>2. n - 1 = Len(events[a])
        BY <2>2, <3>3
      <4>3. e \in ApplicationStatus => IsTransitionAllowed(sess[s].loaded[b].status, e)
        BY <1>2 DEF SessionsSound, Sound, Committing
      <4>4. sess[s].loaded[b].status # "NONE"
        BY <1>2 DEF SessionsSound, Sound, Committing
      <4>5. WasIn(b, sess[s].loaded[b].status, Len(events[b]))
        BY <2>1, <4>4 DEF StatusesAreLogged
      <4>6. PICK i \in 1..Len(events[a]) : StatusOf(events[a][i]) = sess[s].loaded[b].status
        BY <2>4, <4>5 DEF WasIn
      <4>7. StatusOf(events'[a][i]) = sess[s].loaded[b].status
        BY <4>1, <4>6
      <4>8. x.type = e
        BY DEF x
      <4> QED
        BY <4>1, <4>2, <4>3, <4>6, <4>7, <4>8
    <3>4. n \in 1..(Len(events[a]) + 1)
      BY <2>2, <3>1
    <3> QED
      BY <2>2, <3>2, <3>3, <3>4
  <2> QED
    BY <2>3, <2>4
<1>3. ASSUME events' = events PROVE Founded(events'[a], n)
  BY <1>0, <1>3
<1> QED
  BY <1>1, <1>2, <1>3, StepKinds DEF Backdate

\* Every status ever recorded follows, by one edge of the table, a status the
\* case had earlier, for any number of overlapping requests and sweeps.
THEOREM HistoryFounded == Spec => [](StatusesAreLogged /\ HistoryWellFounded)
<1>1. Init => StatusesAreLogged /\ HistoryWellFounded
  BY DEF Init, StatusesAreLogged, HistoryWellFounded, NoRow, IdleSession, NothingLoaded
<1>2. TypeOK /\ SessionsSound /\ StatusesAreLogged /\ HistoryWellFounded /\ [Next]_vars
        => (StatusesAreLogged /\ HistoryWellFounded)'
  BY NextLogged, NextWellFounded
<1> QED
  BY <1>1, <1>2, TypeCorrect, PTL DEF Spec

\* A case at an appeal stage has the event that grounds the appeal in its
\* history, for any number of overlapping requests and sweeps.
THEOREM GroundsFound == Spec => []GroundsAlwaysFound
<1>1. ASSUME TypeOK, StatusesAreLogged, HistoryWellFounded PROVE GroundsAlwaysFound
  <2> SUFFICES ASSUME NEW a \in Apps,
                      row[a].status \in {"FIRST_APPEAL_ELIGIBLE", "FIRST_APPEAL_FILED",
                                         "SECOND_APPEAL_ELIGIBLE"}
               PROVE  History(a) \cap {"NO_RESPONSE", "INCOMPLETE_RESPONSE"} # {}
    BY DEF GroundsAlwaysFound
  <2> DEFINE In(st) == \E i \in DOMAIN events[a] : StatusOf(events[a][i]) = st
  <2>1. DOMAIN events[a] = 1..Len(events[a]) /\ Len(events[a]) \in Nat
    BY <1>1 DEF TypeOK
  <2>2. ASSUME NEW st \in ApplicationStatus \ {"DRAFT"}, In(st)
        PROVE  \E from : In(from) /\ IsTransitionAllowed(from, st)
    <3>1. PICK n \in DOMAIN events[a] : StatusOf(events[a][n]) = st
      BY <2>2
    <3>2. events[a][n].type = st
      BY <3>1 DEF StatusOf, INITIAL_STATE
    <3>3. PICK i \in 1..(n - 1) : IsTransitionAllowed(StatusOf(events[a][i]), st)
      BY <1>1, <3>2 DEF HistoryWellFounded
    <3>4. i \in DOMAIN events[a]
      BY <2>1
    <3> QED
      BY <3>3, <3>4
  <2>3. In("SECOND_APPEAL_ELIGIBLE") => In("FIRST_APPEAL_FILED")
    BY <2>2 DEF IsTransitionAllowed, TRANSITIONS, ApplicationStatus
  <2>4. In("FIRST_APPEAL_FILED") => In("FIRST_APPEAL_ELIGIBLE")
    BY <2>2 DEF IsTransitionAllowed, TRANSITIONS, ApplicationStatus
  <2>5. In("FIRST_APPEAL_ELIGIBLE") => In("NO_RESPONSE") \/ In("INCOMPLETE_RESPONSE")
    BY <2>2 DEF IsTransitionAllowed, TRANSITIONS, ApplicationStatus
  <2>6. In(row[a].status)
    BY <1>1, <2>1 DEF StatusesAreLogged, WasIn
  <2>7. In("NO_RESPONSE") \/ In("INCOMPLETE_RESPONSE")
    BY <2>3, <2>4, <2>5, <2>6
  <2> QED
    BY <2>7 DEF History, StatusOf, INITIAL_STATE
<1> QED
  BY <1>1, TypeCorrect, HistoryFounded, PTL
=============================================================================
