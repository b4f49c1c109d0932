---------------------------- MODULE LifecycleProofs ----------------------------
(***************************************************************************)
(* Proofs that the case engine implements CaseLifecycle, and that its log  *)
(* read in the order of its timestamps ends in the status of the case,     *)
(* when operations do not overlap: there is one session.                   *)
(***************************************************************************)
EXTENDS CaseEngineHistoryProofs, WellFoundedInduction

-----------------------------------------------------------------------------
(* What holds when there is one session.                                   *)

\* The statuses a case has before the authority starts to process it.
BeforeProcessing ==
  {"NONE", "DRAFT", "VALIDATED", "READY_TO_FILE", "SUBMITTED", "ACKNOWLEDGED", "TRANSFERRED"}

\* A log in the order of its timestamps, and one that ends by a given time.
InOrder(log) == \A m, n \in DOMAIN log : m <= n => log[m].at <= log[n].at
AllBy(log, time) == \A n \in DOMAIN log : log[n].at <= time

\* A case has one response deadline, from UNDER_PROCESSING on, and it is
\* ACTIVE while the case is under processing; its log is in order.
CaseSerial(a) ==
  /\ row[a].status = "NONE" => row[a] = NoRow
  /\ Len(deadlines[a]) <= 1
  /\ row[a].status \in BeforeProcessing => deadlines[a] = <<>>
  /\ row[a].status = "UNDER_PROCESSING" =>
       Len(deadlines[a]) = 1 /\ deadlines[a][1].status = "ACTIVE"
  /\ InOrder(events[a])
  /\ AllBy(events[a], clock)

\* The applications a session has taken up, to record an event on them.
TakenUp(x) ==
  x.batch \cup (IF x.pc \in {"event", "appeal", "items", "ai", "clock", "silence"}
                THEN {x.app} ELSE {})

\* The copies of a session are the rows as they stand, the deadline it is to
\* mark is the only one, and it began after everything it has taken up.
Current(x) ==
  /\ \A a \in Apps : x.loaded[a] \in {NoRow, row[a]}
  /\ x.pc = "silence" => x.seen = 1
  /\ x.start <= clock
  /\ \A a \in TakenUp(x) : a \in Apps /\ Exists(a) /\ AllBy(events[a], x.start)

Serial ==
  /\ \A a \in Apps : CaseSerial(a)
  /\ \A s \in Sessions : Current(sess[s])
-----------------------------------------------------------------------------
(* What a log tells: the recursive function of StatusTrail is well defined, *)
(* and an appended event adds its status or nothing.                       *)

\* A set of naturals closed under successor holds them all.
LEMMA NatSetInduction ==
  ASSUME NEW S, 0 \in S, \A n \in Nat : n \in S => n + 1 \in S
  PROVE  \A n \in Nat : n \in S
<1> DEFINE T == Nat \ S
           R == OpToRel(<, Nat)
<1> SUFFICES ASSUME T # {} PROVE FALSE
  OBVIOUS
<1>1. \E x \in T : \A y \in T : ~ (<<y, x>> \in R)
  <2>1. IsWellFoundedOn(R, Nat)
    BY NatLessThanWellFounded
  <2>2. T \subseteq Nat
    OBVIOUS
  <2> HIDE DEF R, T
  <2> QED
    BY <2>1, <2>2, WFMin
<1>2. \A x, y \in Nat : y < x => <<y, x>> \in R
  BY DEF OpToRel
<1> HIDE DEF R
<1>3. PICK x \in T : \A y \in T : ~ (<<y, x>> \in R)
  BY <1>1
<1>4. x \in Nat /\ x # 0 /\ x - 1 \in Nat /\ (x - 1) + 1 = x
  BY <1>3
<1>5. x - 1 \in S
  <2>1. x - 1 < x
    BY <1>4
  <2>2. <<x - 1, x>> \in R
    BY <1>2, <1>4, <2>1
  <2>3. x - 1 \notin T
    BY <1>3, <2>2, Zenon
  <2> QED
    BY <1>4, <2>3
<1> QED
  BY <1>3, <1>4, <1>5

\* One step of the recursion.
Telling(log, told, n) ==
  IF n = 0 THEN <<>>
  ELSE IF log[n].type = "INFORMATIONAL" THEN told[n - 1]
  ELSE Append(told[n - 1], StatusOf(log[n]))

Tells(log, N, told) == told = [n \in 0..N |-> Telling(log, told, n)]

\* Every log tells something.
LEMMA TellsSomething ==
  ASSUME NEW log
  PROVE  \A N \in Nat : \E told : Tells(log, N, told)
<1> DEFINE S == { N \in Nat : \E told : Tells(log, N, told) }
<1>1. 0 \in S
  <2> DEFINE first == [n \in 0..0 |-> <<>>]
  <2>1. \A n \in 0..0 : Telling(log, first, n) = <<>>
    BY DEF Telling
  <2>2. Tells(log, 0, first)
    BY <2>1 DEF Tells
  <2> QED
    BY <2>2
<1>2. ASSUME NEW N \in Nat, N \in S PROVE N + 1 \in S
  <2>1. PICK told : Tells(log, N, told)
    BY <1>2
  <2> DEFINE more == [n \in 0..(N + 1) |->
                        IF n = N + 1 THEN Telling(log, told, n) ELSE told[n]]
  <2>2. \A n \in 0..N : more[n] = told[n]
    OBVIOUS
  <2>3. \A n \in 0..N : told[n] = Telling(log, told, n)
    BY <2>1 DEF Tells
  <2>4. \A n \in 0..(N + 1) : Telling(log, more, n) = Telling(log, told, n)
    <3> SUFFICES ASSUME NEW n \in 0..(N + 1), n # 0
                 PROVE  more[n - 1] = told[n - 1]
      BY DEF Telling
    <3>1. n - 1 \in 0..N
      OBVIOUS
    <3> QED
      BY <2>2, <3>1
  <2>5. \A n \in 0..(N + 1) : more[n] = Telling(log, more, n)
    BY <2>3, <2>4
  <2>6. Tells(log, N + 1, more)
    <3> HIDE DEF more
    <3>1. more = [n \in 0..(N + 1) |-> more[n]]
      BY DEF more
    <3> QED
      BY <2>5, <3>1 DEF Tells
  <2> QED
    BY <2>6
<1> HIDE DEF S
<1>3. \A N \in Nat : N \in S
  BY <1>1, <1>2, NatSetInduction
<1> QED
  BY <1>3 DEF S

\* Two logs tell the same of what they have in common.
LEMMA TellsOne ==
  ASSUME NEW log, NEW longer, NEW N \in Nat, NEW M \in Nat, N <= M,
         \A n \in 1..N : longer[n] = log[n],
         NEW told, Tells(log, N, told), NEW more, Tells(longer, M, more)
  PROVE  \A n \in 0..N : told[n] = more[n]
<1> DEFINE S == { n \in Nat : n <= N => told[n] = more[n] }
<1>1. /\ \A n \in 0..N : told[n] = Telling(log, told, n)
      /\ \A n \in 0..M : more[n] = Telling(longer, more, n)
  BY DEF Tells
<1>2. 0 \in S
  BY <1>1 DEF Telling
<1>3. ASSUME NEW n \in Nat, n \in S PROVE n + 1 \in S
  <2> SUFFICES ASSUME n + 1 <= N PROVE told[n + 1] = more[n + 1]
    OBVIOUS
  <2>1. /\ n + 1 \in 0..N /\ n + 1 \in 0..M /\ n + 1 \in 1..N /\ n + 1 # 0 /\ (n + 1) - 1 = n
        /\ told[n] = more[n]
    BY <1>3
  <2>2. Telling(log, told, n + 1) = Telling(longer, more, n + 1)
    BY <2>1 DEF Telling
  <2> QED
    BY <1>1, <2>1, <2>2
<1> HIDE DEF S
<1>4. \A n \in Nat : n \in S
  BY <1>2, <1>3, NatSetInduction
<1> QED
  BY <1>4 DEF S

LEMMA StatusTrailIs ==
  ASSUME NEW log, Len(log) \in Nat
  PROVE  \E told : Tells(log, Len(log), told) /\ StatusTrail(log) = told[Len(log)]
<1> DEFINE told == CHOOSE f : Tells(log, Len(log), f)
<1>1. Tells(log, Len(log), told)
  BY TellsSomething
<1>2. StatusTrail(log) = told[Len(log)]
  BY DEF StatusTrail, Tells, Telling
<1> QED
  BY <1>1, <1>2

\* An empty log tells nothing, and an event appended adds its status.
LEMMA StatusTrailOfNone == StatusTrail(<<>>) = <<>>
<1>1. PICK told : Tells(<<>>, Len(<<>>), told) /\ StatusTrail(<<>>) = told[Len(<<>>)]
  BY StatusTrailIs
<1>2. told[0] = Telling(<<>>, told, 0)
  BY <1>1 DEF Tells
<1> QED
  BY <1>1, <1>2 DEF Telling

LEMMA StatusTrailAppend ==
  ASSUME NEW log \in Seq(Event), NEW x \in Event
  PROVE  StatusTrail(Append(log, x)) =
           IF x.type = "INFORMATIONAL" THEN StatusTrail(log)
           ELSE Append(StatusTrail(log), StatusOf(x))
<1> DEFINE longer == Append(log, x)
           n == Len(log)
<1>1. /\ n \in Nat /\ Len(longer) = n + 1 /\ longer[n + 1] = x
      /\ \A m \in 1..n : longer[m] = log[m]
  OBVIOUS
<1> HIDE DEF longer, n
<1>2. PICK told : Tells(log, n, told) /\ StatusTrail(log) = told[n]
  BY <1>1, StatusTrailIs DEF n
<1>3. PICK more : Tells(longer, n + 1, more) /\ StatusTrail(longer) = more[n + 1]
  BY <1>1, StatusTrailIs
<1>4. told[n] = more[n]
  <2>1. n \in 0..n /\ n <= n + 1 /\ n + 1 \in Nat
    BY <1>1
  <2>2. \A m \in 0..n : told[m] = more[m]
    BY <1>1, <1>2, <1>3, <2>1, TellsOne
  <2> QED
    BY <2>1, <2>2
<1>5. more[n + 1] = Telling(longer, more, n + 1)
  BY <1>1, <1>3 DEF Tells
<1>6. n + 1 # 0 /\ (n + 1) - 1 = n
  BY <1>1
<1> QED
  BY <1>1, <1>2, <1>3, <1>4, <1>5, <1>6 DEF Telling, longer
-----------------------------------------------------------------------------
(* Steps of the only session that write nothing.                           *)

LEMMA IdleCurrent ==
  ASSUME TypeOK
  PROVE  Current(IdleSession)
BY DEF Current, IdleSession, NothingLoaded, TakenUp, Null, TypeOK

\* A step that only replaces a session by a current one keeps what holds.
LEMMA GotoSerial ==
  ASSUME TypeOK, Serial, NEW s \in Sessions, NEW new, Goto(s, new), Current(new),
         UNCHANGED <<clock, Database>>
  PROVE  Serial'
<1>1. \A z \in Sessions : sess'[z] = IF z = s THEN new ELSE sess[z]
  BY DEF Goto, TypeOK
<1>2. \A z \in Sessions : Current(sess'[z])
  BY <1>1 DEF Serial
<1>3. UNCHANGED <<clock, row, events, deadlines>>
  BY DEF Database
<1>4. \A z \in Sessions : Current(sess[z])'
  BY <1>2, <1>3 DEF Current, AllBy, Exists, TakenUp
<1>5. \A a \in Apps : CaseSerial(a)'
  BY <1>3 DEF Serial, CaseSerial, InOrder, AllBy
<1> QED
  BY <1>4, <1>5 DEF Serial

LEMMA ReleaseSerial ==
  ASSUME TypeOK, Serial, NEW s \in Sessions, Release(s), UNCHANGED <<clock, Database>>
  PROVE  Serial'
BY GotoSerial, IdleCurrent DEF Release

\* Loading a case at the present time yields a current session.
LEMMA HoldingCurrent ==
  ASSUME TypeOK, Serial, NEW pc \in Pc \ {"silence"}, NEW a \in Apps, NEW e \in EventType, Exists(a)
  PROVE  /\ Current(Holding(pc, a, e))
         /\ pc = "backdate" =>
              \A i : Current([Holding(pc, a, e) EXCEPT !.seen = i])
<1> PICK h : h = Holding(pc, a, e)
  OBVIOUS
<1>1. /\ h.pc = pc /\ h.app = a /\ h.batch = {} /\ h.start = clock
      /\ h.loaded = [NothingLoaded EXCEPT ![a] = row[a]] /\ h \in Session
  <2>1. h.start = clock
    BY DEF Holding, IdleSession
  <2> QED
    BY <2>1, HoldingType
<1>2. \A b \in Apps : h.loaded[b] \in {NoRow, row[b]}
  BY <1>1 DEF NothingLoaded
<1>3. clock \in Nat /\ AllBy(events[a], clock)
  BY DEF TypeOK, Serial, CaseSerial
<1>4. Current(h)
  BY <1>1, <1>2, <1>3 DEF Current, TakenUp
<1>5. ASSUME pc = "backdate", NEW i PROVE Current([h EXCEPT !.seen = i])
  <2> PICK k : k = [h EXCEPT !.seen = i]
    OBVIOUS
  <2>1. k.pc = "backdate" /\ k.batch = {} /\ k.start = clock /\ k.loaded = h.loaded
    BY <1>1, <1>5 DEF Session
  <2> QED
    BY <1>2, <1>3, <2>1 DEF Current, TakenUp
<1> QED
  BY <1>4, <1>5

LEMMA LoadSerial ==
  ASSUME TypeOK, Serial, NEW s \in Sessions, NEW a \in Apps,
         \/ \E e \in EventType \ {"DRAFT_CREATED"} : PostEvent(s, a, e)
         \/ BeginAppeal(s, a)
         \/ BeginResponse(s, a)
         \/ BeginSimulate(s, a)
  PROVE  Serial'
<1>1. ASSUME NEW e \in EventType, PostEvent(s, a, e) PROVE Serial'
  BY <1>1, HoldingCurrent, GotoSerial DEF PostEvent, CanBegin, Pc
<1>2. CASE BeginAppeal(s, a)
  BY <1>2, HoldingCurrent, GotoSerial DEF BeginAppeal, CanBegin, Pc, EventType, ApplicationStatus
<1>3. CASE BeginResponse(s, a)
  BY <1>3, HoldingCurrent, GotoSerial DEF BeginResponse, CanBegin, Pc, EventType, ApplicationStatus
<1>4. CASE BeginSimulate(s, a)
  <2>1. PICK i : Goto(s, [Holding("backdate", a, "INFORMATIONAL") EXCEPT !.seen = i])
    BY <1>4 DEF BeginSimulate
  <2>2. Exists(a) /\ UNCHANGED <<clock, Database>>
    BY <1>4 DEF BeginSimulate, CanBegin
  <2>3. "backdate" \in Pc \ {"silence"} /\ "INFORMATIONAL" \in EventType
    BY DEF Pc, EventType
  <2>4. Current([Holding("backdate", a, "INFORMATIONAL") EXCEPT !.seen = i])
    BY <2>2, <2>3, HoldingCurrent
  <2> QED
    BY <2>1, <2>2, <2>4, GotoSerial
<1> QED
  BY <1>1, <1>2, <1>3, <1>4

LEMMA ReadItemsSerial ==
  ASSUME TypeOK, Serial, NEW s \in Sessions, ReadItems(s)
  PROVE  Serial'
<1> PICK x : x = sess[s]
  OBVIOUS
<1> PICK new : new = [x EXCEPT !.pc = "ai", !.items = ledger[x.app]]
  OBVIOUS
<1>1. x \in Session /\ Current(x) /\ x.pc = "items" /\ Goto(s, new) /\ UNCHANGED <<clock, Database>>
  BY DEF TypeOK, Serial, ReadItems
<1>2. new.pc = "ai" /\ new.app = x.app /\ new.loaded = x.loaded /\ new.batch = x.batch
      /\ new.start = x.start
  BY <1>1 DEF Session
<1>3. Current(new)
  BY <1>1, <1>2 DEF Current, TakenUp
<1> QED
  BY <1>1, <1>3, GotoSerial

LEMMA SweepQuerySerial ==
  ASSUME TypeOK, Serial, NEW s \in Sessions, SweepQuery(s)
  PROVE  Serial'
<1> PICK due : due = DueApplications
  OBVIOUS
<1> PICK new : new = [IdleSession EXCEPT
                     !.pc = "sweep", !.batch = due, !.start = clock,
                     !.loaded = [a \in Apps |-> IF a \in due THEN row[a] ELSE NoRow]]
  OBVIOUS
<1>1. /\ due = {} => Release(s)
      /\ due # {} => Goto(s, new)
      /\ UNCHANGED <<clock, Database>>
  BY DEF SweepQuery
<1>2. /\ new.pc = "sweep" /\ new.batch = due /\ new.start = clock
      /\ new.loaded = [a \in Apps |-> IF a \in due THEN row[a] ELSE NoRow]
  BY DEF IdleSession
<1>3. \A a \in due : a \in Apps /\ Exists(a)
  BY DEF DueApplications, Exists
<1>4. Current(new)
  BY <1>2, <1>3 DEF Current, TakenUp, Serial, CaseSerial, TypeOK
<1> QED
  BY <1>1, <1>4, GotoSerial, ReleaseSerial

LEMMA SweepNextSerial ==
  ASSUME TypeOK, Serial, NEW s \in Sessions, NEW a \in Apps, SweepNext(s, a)
  PROVE  Serial'
<1> PICK x : x = sess[s]
  OBVIOUS
<1> PICK left : left = x.batch \ {a}
  OBVIOUS
<1> PICK r : r = GetById(s, a)
  OBVIOUS
<1> PICK on : on = [x EXCEPT !.pc = "sweep", !.app = NoApp, !.batch = left]
  OBVIOUS
<1> PICK new : new = [x EXCEPT !.pc = "clock", !.app = a, !.batch = left,
                               !.event = "NO_RESPONSE", !.loaded[a] = r]
  OBVIOUS
<1>1. /\ x \in Session /\ Current(x) /\ x.pc = "sweep" /\ a \in x.batch
      /\ UNCHANGED <<clock, Database>>
      /\ Goto(s, new) \/ Goto(s, on) \/ Release(s)
  BY DEF TypeOK, Serial, SweepNext, SweepOn
<1>2. r \in {NoRow, row[a]}
  BY <1>1 DEF GetById, Current
<1>3. /\ new.pc = "clock" /\ new.app = a /\ new.batch = left /\ new.start = x.start
      /\ new.loaded = [x.loaded EXCEPT ![a] = r]
      /\ on.pc = "sweep" /\ on.batch = left /\ on.start = x.start /\ on.loaded = x.loaded
  BY <1>1 DEF Session
<1>4. \A b \in Apps : new.loaded[b] \in {NoRow, row[b]}
  BY <1>1, <1>2, <1>3 DEF Current, Session
<1>5. TakenUp(new) \subseteq x.batch /\ TakenUp(on) \subseteq x.batch /\ TakenUp(x) = x.batch
  BY <1>1, <1>3 DEF TakenUp
<1>6. Current(new) /\ Current(on)
  BY <1>1, <1>3, <1>4, <1>5 DEF Current
<1> QED
  BY <1>1, <1>6, GotoSerial, ReleaseSerial

LEMMA SweepReadClockSerial ==
  ASSUME TypeOK, SessionsSound, Serial, NEW s \in Sessions, SweepReadClock(s)
  PROVE  Serial'
<1> PICK x : x = sess[s]
  OBVIOUS
<1> PICK i \in DeadlineToMiss(x.app) : Goto(s, [x EXCEPT !.pc = "silence", !.seen = i])
  BY DEF SweepReadClock
<1> PICK new : new = [x EXCEPT !.pc = "silence", !.seen = i]
  OBVIOUS
<1> PICK a : a = x.app
  OBVIOUS
<1>1. /\ x \in Session /\ Current(x) /\ Sound(x) /\ x.pc = "clock" /\ UNCHANGED <<clock, Database>>
  BY DEF TypeOK, Serial, SessionsSound, SweepReadClock
<1>2. a \in Apps /\ row[a].status = "UNDER_PROCESSING"
  <2>1. /\ a \in Apps /\ x.loaded[a].status # "NONE"
        /\ IsTransitionAllowed(x.loaded[a].status, "NO_RESPONSE")
    BY <1>1 DEF Sound, ApplicationStatus
  <2>2. x.loaded[a] = row[a]
    BY <1>1, <2>1 DEF Current, NoRow
  <2> QED
    BY <2>1, <2>2 DEF IsTransitionAllowed, TRANSITIONS
<1>3. Len(deadlines[a]) = 1 /\ deadlines[a][1].status = "ACTIVE" /\ deadlines[a] \in Seq(Deadline)
  BY <1>2 DEF Serial, CaseSerial, TypeOK
<1>4. DOMAIN deadlines[a] = {1} /\ deadlines[a] # <<>>
  BY <1>3
<1>5. i = 1
  BY <1>3, <1>4 DEF DeadlineToMiss, LatestDeadlines
<1>6. /\ new.pc = "silence" /\ new.seen = 1 /\ new.app = a /\ new.batch = x.batch
      /\ new.start = x.start /\ new.loaded = x.loaded
  BY <1>1, <1>5 DEF Session
<1>7. Current(new)
  BY <1>1, <1>6 DEF Current, TakenUp
<1> QED
  BY <1>1, <1>7, GotoSerial
-----------------------------------------------------------------------------
(* Steps that write.                                                       *)

ActiveAt(log) == { i \in DOMAIN log : log[i].status = "ACTIVE" }

\* A commit of the only session is a legal move of the row as it stands, and
\* does to the deadlines what the move asks for.
LEMMA SerialCommit ==
  ASSUME TypeOK, SessionsSound, Serial, NEW s \in Sessions, NEW a \in Apps, CommitsOn(s, a)
  PROVE  /\ Exists(a)
         /\ sess[s].event \in ApplicationStatus =>
              IsTransitionAllowed(row[a].status, sess[s].event)
         /\ AllBy(events[a], sess[s].start) /\ sess[s].start <= clock
         /\ sess[s].event = "NO_RESPONSE" => sess[s].pc = "silence"
         /\ \/ /\ sess[s].event = "UNDER_PROCESSING"
               /\ deadlines[a] = <<>>
               /\ Len(deadlines'[a]) = 1 /\ deadlines'[a][1].status = "ACTIVE"
            \/ /\ sess[s].event = "NO_RESPONSE"
               /\ Len(deadlines[a]) = 1 /\ deadlines[a][1].status = "ACTIVE"
               /\ Len(deadlines'[a]) = 1 /\ deadlines'[a][1].status = "MISSED"
            \/ /\ sess[s].event \notin {"UNDER_PROCESSING", "NO_RESPONSE"}
               /\ deadlines'[a] = deadlines[a]
<1> PICK x : x = sess[s]
  OBVIOUS
<1> PICK e : e = x.event
  OBVIOUS
<1>1. /\ x \in Session /\ Current(x) /\ Sound(x) /\ x.pc \in Committing /\ x.app = a
      /\ deadlines'[a] = ClockAfter(x.loaded[a], e, x.seen, deadlines[a])
  BY DEF TypeOK, Serial, SessionsSound, CommitsOn, RecordEvent
<1>2. /\ x.loaded[a].status # "NONE"
      /\ e \in ApplicationStatus => IsTransitionAllowed(x.loaded[a].status, e)
  BY <1>1 DEF Sound, Committing
<1>3. x.loaded[a] = row[a]
  BY <1>1, <1>2 DEF Current, NoRow
<1>4. e = "NO_RESPONSE" => x.pc = "silence" /\ x.seen = 1
  BY <1>1 DEF Sound, Committing, DedicatedEvents, Current
<1>5. a \in TakenUp(x)
  BY <1>1 DEF TakenUp, Committing
<1>6. Exists(a) /\ AllBy(events[a], x.start) /\ x.start <= clock
  BY <1>1, <1>5 DEF Current
<1>7. CaseSerial(a) /\ deadlines[a] \in Seq(Deadline)
  BY DEF Serial, TypeOK
<1>8. CASE e = "UNDER_PROCESSING"
  <2>1. row[a].status \in BeforeProcessing
    BY <1>2, <1>3, <1>8 DEF IsTransitionAllowed, TRANSITIONS, ApplicationStatus, BeforeProcessing
  <2>2. deadlines[a] = <<>>
    BY <1>7, <2>1 DEF CaseSerial
  <2>3. \E d : d.status = "ACTIVE" /\ deadlines'[a] = Append(deadlines[a], d)
    BY <1>1, <1>8 DEF ClockAfter
  <2>4. Len(deadlines'[a]) = 1 /\ deadlines'[a][1].status = "ACTIVE"
    BY <2>2, <2>3
  <2> QED
    BY <1>2, <1>3, <1>4, <1>6, <1>8, <2>2, <2>4
<1>9. CASE e = "NO_RESPONSE"
  <2>1. row[a].status = "UNDER_PROCESSING"
    BY <1>2, <1>3, <1>9 DEF IsTransitionAllowed, TRANSITIONS, ApplicationStatus
  <2>2. Len(deadlines[a]) = 1 /\ deadlines[a][1].status = "ACTIVE"
    BY <1>7, <2>1 DEF CaseSerial
  <2>3. 1 \in DOMAIN deadlines[a] /\ deadlines[a][1] \in Deadline
    BY <1>7, <2>2
  <2>4. deadlines'[a] = [deadlines[a] EXCEPT ![1].status = "MISSED", ![1].completed = clock]
    BY <1>1, <1>4, <1>9, <2>3 DEF ClockAfter
  <2>5. Len(deadlines'[a]) = 1 /\ deadlines'[a][1].status = "MISSED"
    BY <1>7, <2>2, <2>3, <2>4 DEF Deadline
  <2> QED
    BY <1>2, <1>3, <1>4, <1>6, <1>9, <2>2, <2>5
<1>10. CASE e \notin {"UNDER_PROCESSING", "NO_RESPONSE"}
  <2>1. deadlines'[a] = deadlines[a]
    BY <1>1, <1>10 DEF ClockAfter
  <2> QED
    BY <1>2, <1>3, <1>4, <1>6, <1>10, <2>1
<1> QED
  BY <1>8, <1>9, <1>10

\* An event at the end of a log that is over before it keeps the order.
LEMMA InOrderAppend ==
  ASSUME NEW log \in Seq(Event), NEW x \in Event, InOrder(log), AllBy(log, x.at),
         NEW now \in Nat, x.at <= now
  PROVE  InOrder(Append(log, x)) /\ AllBy(Append(log, x), now)
<1> PICK longer : longer = Append(log, x)
  OBVIOUS
<1> PICK n \in Nat : n = Len(log)
  OBVIOUS
<1>1. /\ DOMAIN log = 1..n /\ DOMAIN longer = 1..(n + 1) /\ longer[n + 1] = x
      /\ \A m \in 1..n : longer[m] = log[m]
  OBVIOUS
<1>2. \A m \in 1..(n + 1) : longer[m].at <= x.at /\ longer[m].at \in Nat
  <2>1. x.at \in Nat
    BY DEF Event, Time
  <2>2. \A m \in 1..n : log[m].at <= x.at /\ log[m].at \in Nat
    <3>1. \A m \in 1..n : log[m] \in Event
      BY <1>1
    <3> QED
      BY <1>1, <3>1 DEF AllBy, Event, Time
  <2> QED
    BY <1>1, <2>1, <2>2
<1>3. x.at \in Nat
  BY DEF Event, Time
<1>4. AllBy(longer, now)
  BY <1>1, <1>2, <1>3 DEF AllBy
<1>5. InOrder(longer)
  <2> SUFFICES ASSUME NEW m \in 1..(n + 1), NEW k \in 1..(n + 1), m <= k
               PROVE  longer[m].at <= longer[k].at
    BY <1>1 DEF InOrder
  <2>1. CASE k = n + 1
    BY <1>1, <1>2, <2>1
  <2>2. CASE k # n + 1
    <3>1. m \in 1..n /\ k \in 1..n
      BY <2>2
    <3> QED
      BY <1>1, <3>1 DEF InOrder
  <2> QED
    BY <2>1, <2>2
<1> QED
  BY <1>4, <1>5

LEMMA CommitKeepsCase ==
  ASSUME TypeOK, SessionsSound, Serial, NEW s \in Sessions, NEW a \in Apps, CommitsOn(s, a)
  PROVE  CaseSerial(a)'
<1> PICK e : e = sess[s].event
  OBVIOUS
<1>1. CaseSerial(a)
  BY DEF Serial
<1>2. /\ events[a] \in Seq(Event) /\ Recorded(s) \in Event
      /\ events'[a] = Append(events[a], Recorded(s))
      /\ e \in EventType \ {"DRAFT_CREATED"}
      /\ row'[a].status = IF e \in ApplicationStatus THEN e ELSE row[a].status
  BY Commitment
<1>3. /\ row[a].status # "NONE"
      /\ e \in ApplicationStatus => IsTransitionAllowed(row[a].status, e)
      /\ AllBy(events[a], Recorded(s).at) /\ Recorded(s).at <= clock
  BY SerialCommit DEF Exists, Recorded
<1>4. clock' = clock /\ clock \in Nat
  BY DEF CommitsOn, RecordEvent, TypeOK
<1>5. InOrder(events'[a]) /\ AllBy(events'[a], clock')
  BY <1>1, <1>2, <1>3, <1>4, InOrderAppend DEF CaseSerial
<1>6. row'[a].status # "NONE"
  BY <1>2, <1>3 DEF ApplicationStatus
<1>7. /\ Len(deadlines'[a]) <= 1
      /\ row'[a].status \in BeforeProcessing => deadlines'[a] = <<>>
      /\ row'[a].status = "UNDER_PROCESSING" =>
           Len(deadlines'[a]) = 1 /\ deadlines'[a][1].status = "ACTIVE"
  <2>1. CASE e = "UNDER_PROCESSING"
    <3>1. row'[a].status = "UNDER_PROCESSING"
      BY <1>2, <2>1 DEF ApplicationStatus
    <3>2. Len(deadlines'[a]) = 1 /\ deadlines'[a][1].status = "ACTIVE"
      BY <2>1, SerialCommit
    <3> QED
      BY <3>1, <3>2 DEF BeforeProcessing
  <2>2. CASE e = "NO_RESPONSE"
    <3>1. row'[a].status = "NO_RESPONSE"
      BY <1>2, <2>2 DEF ApplicationStatus
    <3>2. Len(deadlines'[a]) = 1
      BY <2>2, SerialCommit
    <3> QED
      BY <3>1, <3>2 DEF BeforeProcessing
  <2>3. CASE e \in ApplicationStatus \ {"UNDER_PROCESSING", "NO_RESPONSE"}
    <3>1. deadlines'[a] = deadlines[a] /\ row'[a].status = e
      BY <1>2, <2>3, SerialCommit
    <3>2. e \in BeforeProcessing => row[a].status \in BeforeProcessing
      BY <1>3, <2>3 DEF IsTransitionAllowed, TRANSITIONS, BeforeProcessing
    <3> QED
      BY <1>1, <2>3, <3>1, <3>2 DEF CaseSerial
  <2>4. CASE e = "INFORMATIONAL"
    <3>1. deadlines'[a] = deadlines[a] /\ row'[a].status = row[a].status
      BY <1>2, <2>4, SerialCommit DEF ApplicationStatus
    <3> QED
      BY <1>1, <3>1 DEF CaseSerial
  <2> QED
    BY <1>2, <2>1, <2>2, <2>3, <2>4 DEF EventType
<1> QED
  BY <1>5, <1>6, <1>7 DEF CaseSerial

\* What the session of a commit holds afterwards: nothing, or the rest of a
\* sweep's batch with the transaction begun anew.
LEMMA CommitLeaves ==
  ASSUME TypeOK, NEW s \in Sessions,
         \/ CommitEvent(s) \/ CommitAppeal(s) \/ CommitNoResponse(s)
         \/ \E output \in AiOutput : CommitResponse(s, output)
  PROVE  /\ sess[s].pc \in Committing /\ RecordEvent(s)
         /\ sess'[s].loaded = NothingLoaded
         /\ sess'[s].pc \in {"idle", "sweep"}
         /\ sess'[s].batch \subseteq sess[s].batch
         /\ sess'[s].start \in {Null, clock}
         /\ sess'[s].batch # {} => sess'[s].start = clock
<1>1. /\ IdleSession.loaded = NothingLoaded /\ IdleSession.pc = "idle"
      /\ IdleSession.batch = {} /\ IdleSession.start = Null
  BY DEF IdleSession
<1>2. ASSUME NEW B
      PROVE  LET new == [IdleSession EXCEPT !.pc = "sweep", !.batch = B, !.start = clock]
             IN /\ new.loaded = NothingLoaded /\ new.pc = "sweep"
                /\ new.batch = B /\ new.start = clock
  BY DEF IdleSession
<1>3. \A new : Goto(s, new) => sess'[s] = new
  BY DEF Goto, TypeOK
<1>4. CASE CommitEvent(s) \/ CommitAppeal(s) \/ \E output \in AiOutput : CommitResponse(s, output)
  <2>1. sess[s].pc \in Committing /\ RecordEvent(s) /\ sess'[s] = IdleSession
    BY <1>3, <1>4 DEF CommitEvent, CommitAppeal, CommitResponse, Release, Committing
  <2> QED
    BY <1>1, <2>1
<1>5. CASE CommitNoResponse(s)
  <2> PICK B : B = sess[s].batch
    OBVIOUS
  <2> PICK new : new = [IdleSession EXCEPT !.pc = "sweep", !.batch = B, !.start = clock]
    OBVIOUS
  <2>1. /\ sess[s].pc \in Committing /\ RecordEvent(s)
        /\ sess'[s] = IdleSession \/ sess'[s] = new
    BY <1>3, <1>5 DEF CommitNoResponse, Release, Committing
  <2>2. new.loaded = NothingLoaded /\ new.pc = "sweep" /\ new.batch = B /\ new.start = clock
    BY <1>2
  <2>3. CASE sess'[s] = new
    BY <2>1, <2>2, <2>3
  <2>4. CASE sess'[s] = IdleSession
    BY <1>1, <2>1, <2>4
  <2> QED
    BY <2>1, <2>3, <2>4
<1> QED
  BY <1>4, <1>5

LEMMA CommitSerial ==
  ASSUME TypeOK, SessionsSound, Serial, NEW s, Sessions = {s},
         \/ CommitEvent(s) \/ CommitAppeal(s) \/ CommitNoResponse(s)
         \/ \E output \in AiOutput : CommitResponse(s, output)
  PROVE  Serial'
<1> PICK a : a = sess[s].app
  OBVIOUS
<1> PICK x : x = sess[s]
  OBVIOUS
<1>0. s \in Sessions
  OBVIOUS
<1>1. /\ x.pc \in Committing /\ RecordEvent(s)
      /\ sess'[s].loaded = NothingLoaded /\ sess'[s].pc \in {"idle", "sweep"}
      /\ sess'[s].batch \subseteq x.batch
      /\ sess'[s].start \in {Null, clock}
      /\ sess'[s].batch # {} => sess'[s].start = clock
  BY <1>0, CommitLeaves
<1>2. /\ a \in Apps /\ CommitsOn(s, a)
      /\ \A b \in Apps \ {a} : row'[b] = row[b] /\ deadlines'[b] = deadlines[b]
      /\ \A b \in Apps \ {a} : events'[b] = events[b]
  BY <1>0, <1>1, CommitEffect DEF CommitsOn, TypeOK
<1>3. clock' = clock /\ clock \in Nat
  BY <1>1 DEF RecordEvent, TypeOK
<1>4. \A b \in Apps : CaseSerial(b)'
  <2>1. CaseSerial(a)'
    BY <1>0, <1>2, CommitKeepsCase
  <2>2. ASSUME NEW b \in Apps \ {a} PROVE CaseSerial(b)'
    <3>1. CaseSerial(b)
      BY DEF Serial
    <3> QED
      BY <1>2, <1>3, <3>1 DEF CaseSerial, InOrder, AllBy
  <2> QED
    BY <2>1, <2>2
<1>5. \A b \in x.batch : b \in Apps /\ Exists(b)'
  <2> SUFFICES ASSUME NEW b \in x.batch PROVE b \in Apps /\ Exists(b)'
    OBVIOUS
  <2>1. b \in Apps /\ Exists(b)
    BY <1>0 DEF Serial, Current, TakenUp
  <2>2. CASE b = a
    <3>1. /\ row'[a].status = IF sess[s].event \in ApplicationStatus THEN sess[s].event
                              ELSE row[a].status
      BY <1>0, <1>2, Commitment
    <3> QED
      BY <2>1, <2>2, <3>1 DEF Exists, ApplicationStatus
  <2> QED
    BY <1>2, <2>1, <2>2 DEF Exists
<1>6. Current(sess[s])'
  <2>1. \A b \in Apps : sess'[s].loaded[b] = NoRow
    BY <1>1 DEF NothingLoaded
  <2>2. sess'[s].start <= clock'
    BY <1>1, <1>3 DEF Null
  <2>3. \A b \in TakenUp(sess'[s]) : b \in sess'[s].batch
    BY <1>1 DEF TakenUp
  <2>4. \A b \in TakenUp(sess'[s]) :
          b \in Apps /\ Exists(b)' /\ AllBy(events'[b], sess'[s].start)
    BY <1>1, <1>3, <1>4, <1>5, <2>3 DEF CaseSerial, AllBy
  <2> QED
    BY <1>1, <2>1, <2>2, <2>4 DEF Current, TakenUp, AllBy
<1> QED
  BY <1>4, <1>6 DEF Serial

LEMMA CreateSerial ==
  ASSUME TypeOK, SessionsSound, Serial, NEW a \in Apps, CreateApplication(a)
  PROVE  Serial'
<1>1. /\ events' = [events EXCEPT ![a] = <<[type |-> "DRAFT_CREATED", at |-> clock]>>]
      /\ row' = [row EXCEPT ![a].status = INITIAL_STATE]
      /\ row[a].status = "NONE" /\ clock' = clock /\ deadlines' = deadlines /\ sess' = sess
  BY DEF CreateApplication, Exists
<1>2. \A b \in Apps \ {a} : events'[b] = events[b] /\ row'[b] = row[b]
  BY <1>1 DEF TypeOK
<1>3. events'[a] = <<[type |-> "DRAFT_CREATED", at |-> clock]>> /\ row'[a].status = "DRAFT"
  BY <1>1 DEF TypeOK, AppRow, INITIAL_STATE
<1>4. row[a] = NoRow /\ deadlines[a] = <<>>
  BY <1>1 DEF Serial, CaseSerial, BeforeProcessing
<1>5. CaseSerial(a)'
  <2>1. InOrder(events'[a]) /\ AllBy(events'[a], clock)
    BY <1>3 DEF InOrder, AllBy, TypeOK
  <2> QED
    BY <1>1, <1>3, <1>4, <2>1 DEF CaseSerial
<1>6. ASSUME NEW b \in Apps \ {a} PROVE CaseSerial(b)'
  BY <1>1, <1>2 DEF Serial, CaseSerial, InOrder, AllBy
<1>7. ASSUME NEW s \in Sessions PROVE Current(sess[s])'
  <2>1. Current(sess[s])
    BY DEF Serial
  <2>2. \A b \in Apps : sess[s].loaded[b] \in {NoRow, row'[b]}
    BY <1>2, <1>4, <2>1 DEF Current
  <2>3. \A b \in TakenUp(sess[s]) :
          b \in Apps \ {a} /\ Exists(b)' /\ AllBy(events'[b], sess[s].start)
    BY <1>1, <1>2, <2>1 DEF Current, Exists
  <2> QED
    BY <1>1, <2>1, <2>2, <2>3 DEF Current, TakenUp, AllBy
<1> QED
  BY <1>5, <1>6, <1>7 DEF Serial

LEMMA TickSerial ==
  ASSUME TypeOK, Serial, Tick
  PROVE  Serial'
<1>1. clock' = clock + 1 /\ clock \in Nat /\ UNCHANGED <<row, events, deadlines, sess>>
  BY DEF Tick, Database, TypeOK
<1>2. ASSUME NEW a \in Apps PROVE CaseSerial(a)'
  <2>1. CaseSerial(a) /\ events[a] \in Seq(Event)
    BY DEF Serial, TypeOK
  <2>2. \A n \in DOMAIN events[a] : events[a][n].at \in Nat
    <3>1. \A n \in DOMAIN events[a] : events[a][n] \in Event
      BY <2>1
    <3> QED
      BY <3>1 DEF Event, Time
  <2>3. AllBy(events[a], clock + 1)
    BY <1>1, <2>1, <2>2 DEF CaseSerial, AllBy
  <2> QED
    BY <1>1, <2>1, <2>3 DEF CaseSerial, InOrder, AllBy
<1>3. ASSUME NEW s \in Sessions PROVE Current(sess[s])'
  <2>1. Current(sess[s]) /\ sess[s].start \in Nat
    BY DEF Serial, TypeOK, Session, Time
  <2> QED
    BY <1>1, <2>1 DEF Current, TakenUp, AllBy, Exists
<1> QED
  BY <1>2, <1>3 DEF Serial

\* Backdating changes when a deadline is due, never how many there are nor
\* which of them are ACTIVE.
LEMMA BackdateKeeps ==
  ASSUME TypeOK, SessionsSound, NEW s \in Sessions, Backdate(s), NEW a \in Apps
  PROVE  /\ Len(deadlines'[a]) = Len(deadlines[a]) /\ DOMAIN deadlines'[a] = DOMAIN deadlines[a]
         /\ deadlines[a] = <<>> => deadlines'[a] = <<>>
         /\ \A i \in DOMAIN deadlines[a] : deadlines'[a][i].status = deadlines[a][i].status
<1>1. deadlines[a] \in Seq(Deadline) /\ \A i \in DOMAIN deadlines[a] : deadlines[a][i] \in Deadline
  BY DEF TypeOK
<1>2. CASE a # sess[s].app
  <2>1. deadlines'[a] = deadlines[a]
    BY <1>2 DEF Backdate, TypeOK
  <2> QED
    BY <1>1, <2>1
<1>3. CASE a = sess[s].app
  <2>1. deadlines'[a] = [deadlines[a] EXCEPT ![sess[s].seen].due = clock - 1]
    BY <1>3 DEF Backdate, TypeOK
  <2> QED
    BY <1>1, <2>1 DEF Deadline
<1> QED
  BY <1>2, <1>3

LEMMA BackdateSerial ==
  ASSUME TypeOK, SessionsSound, Serial, NEW s \in Sessions, Backdate(s)
  PROVE  Serial'
<1> PICK new : new = [IdleSession EXCEPT !.pc = "query"]
  OBVIOUS
<1>1. UNCHANGED <<clock, row, events>> /\ \A z \in Sessions : sess'[z] = IF z = s THEN new ELSE sess[z]
  BY DEF Backdate, Goto, TypeOK
<1>2. Current(new)
  <2>1. new.pc = "query" /\ new.batch = {} /\ new.start = Null /\ new.loaded = NothingLoaded
    BY DEF IdleSession
  <2> QED
    BY <2>1 DEF Current, TakenUp, NothingLoaded, Null, TypeOK
<1>3. \A z \in Sessions : Current(sess[z])'
  BY <1>1, <1>2 DEF Serial, Current, TakenUp, AllBy, Exists
<1>4. ASSUME NEW a \in Apps PROVE CaseSerial(a)'
  <2>1. CaseSerial(a)
    BY DEF Serial
  <2>2. deadlines[a] \in Seq(Deadline)
    BY DEF TypeOK
  <2>3. Len(deadlines[a]) = 1 => 1 \in DOMAIN deadlines[a]
    BY <2>2
  <2> QED
    BY <1>1, <2>1, <2>3, BackdateKeeps DEF CaseSerial, InOrder, AllBy
<1> QED
  BY <1>3, <1>4 DEF Serial

LEMMA InitSerial == Init => Serial
<1> SUFFICES ASSUME Init PROVE Serial
  OBVIOUS
<1>1. \A a \in Apps : CaseSerial(a)
  BY DEF Init, CaseSerial, NoRow, InOrder, AllBy
<1>2. TypeOK
  BY InitType
<1> QED
  BY <1>1, <1>2, IdleCurrent DEF Init, Serial

LEMMA NextSerial ==
  ASSUME NEW s, Sessions = {s}, TypeOK, SessionsSound, Serial, [Next]_vars
  PROVE  Serial'
<1>1. CASE Tick
  BY <1>1, TickSerial
<1>2. ASSUME NEW a \in Apps, CreateApplication(a) PROVE Serial'
  BY <1>2, CreateSerial
<1>3. ASSUME NEW w \in Workers, Request(w) PROVE Serial'
  <2>1. w = s /\ s \in Sessions
    BY DEF Sessions
  <2> QED
    BY <1>3, <2>1, LoadSerial, CommitSerial, ReadItemsSerial, BackdateSerial DEF Request
<1>4. ASSUME NEW z \in Sessions, Sweep(z) PROVE Serial'
  BY <1>4, SweepQuerySerial, SweepNextSerial, SweepReadClockSerial, CommitSerial DEF Sweep
<1>5. ASSUME NEW z \in Sessions, Abort(z) PROVE Serial'
  BY <1>5, ReleaseSerial DEF Abort
<1>6. CASE UNCHANGED vars
  BY <1>6 DEF vars, Serial, CaseSerial, Current, TakenUp, AllBy, InOrder, Exists
<1> QED
  BY <1>1, <1>2, <1>3, <1>4, <1>5, <1>6 DEF Next

\* With one session: a case has one deadline, copies are current, and logs
\* are in the order of their timestamps.
LEMMA SerialAlways ==
  ASSUME NEW s, Sessions = {s}
  PROVE  Spec => []Serial
<1>1. TypeOK /\ SessionsSound /\ Serial /\ [Next]_vars => Serial'
  BY NextSerial
<1> QED
  BY <1>1, InitSerial, TypeCorrect, PTL DEF Spec
-----------------------------------------------------------------------------
\* With one session, the log read in the order of its timestamps, as
\* list_for_application does, ends in applications.status.
THEOREM LogOrderTells ==
  ASSUME \E s : Sessions = {s}
  PROVE  Spec => []LogOrderTellsStatus
<1>1. PICK s : Sessions = {s}
  OBVIOUS
<1>2. ASSUME TypeOK, Serial, StatusIsLastCommitted PROVE LogOrderTellsStatus
  <2> SUFFICES ASSUME NEW a \in Apps, Exists(a)
               PROVE  \E n \in StatusEvents(a) :
                        /\ StatusOf(events[a][n]) = row[a].status
                        /\ \A m \in StatusEvents(a) : events[a][m].at <= events[a][n].at
    BY DEF LogOrderTellsStatus
  <2>1. PICK n \in StatusEvents(a) : /\ StatusOf(events[a][n]) = row[a].status
                                     /\ \A m \in StatusEvents(a) : m <= n
    BY <1>2 DEF StatusIsLastCommitted
  <2>2. \A m \in StatusEvents(a) : events[a][m].at <= events[a][n].at
    BY <1>2, <2>1 DEF Serial, CaseSerial, InOrder, StatusEvents
  <2> QED
    BY <2>1, <2>2
<1>3. Spec => []Serial
  BY <1>1, SerialAlways
<1> QED
  BY <1>2, <1>3, TypeCorrect, StatusIsLast, PTL
-----------------------------------------------------------------------------
(* The engine implements its lifecycle.                                    *)

Status == [a \in Apps |-> row[a].status]
Trail  == [a \in Apps |-> StatusTrail(events[a])]
Armed  == [a \in Apps |-> Cardinality(ActiveAt(deadlines[a]))]

\* The clocks that are armed in no deadline, in an ACTIVE and in a MISSED one.
LEMMA ArmedClocks ==
  ASSUME NEW log \in Seq(Deadline)
  PROVE  /\ log = <<>> => Cardinality(ActiveAt(log)) = 0
         /\ Len(log) = 1 /\ log[1].status = "ACTIVE" => Cardinality(ActiveAt(log)) = 1
         /\ Len(log) = 1 /\ log[1].status = "MISSED" => Cardinality(ActiveAt(log)) = 0
<1>1. ASSUME log = <<>> PROVE ActiveAt(log) = {}
  BY <1>1 DEF ActiveAt
<1>2. ASSUME Len(log) = 1, log[1].status = "ACTIVE" PROVE ActiveAt(log) = {1}
  <2>1. DOMAIN log = {1}
    BY <1>2
  <2> QED
    BY <1>2, <2>1 DEF ActiveAt
<1>3. ASSUME Len(log) = 1, log[1].status = "MISSED" PROVE ActiveAt(log) = {}
  <2>1. DOMAIN log = {1}
    BY <1>3
  <2> QED
    BY <1>3, <2>1 DEF ActiveAt
<1> QED
  BY <1>1, <1>2, <1>3, FS_EmptySet, FS_Singleton

\* The initial states are those of the lifecycle.
LEMMA InitImplements == Init => Lifecycle!LifecycleInit
<1> SUFFICES ASSUME Init PROVE Lifecycle!LifecycleInit
  OBVIOUS
<1>1. \A a \in Apps : /\ row[a].status = "NONE" /\ StatusTrail(events[a]) = <<>>
                     /\ Cardinality(ActiveAt(deadlines[a])) = 0
  <2>1. <<>> \in Seq(Deadline)
    OBVIOUS
  <2>2. Cardinality(ActiveAt(<<>>)) = 0
    BY <2>1, ArmedClocks
  <2> QED
    BY <2>2, StatusTrailOfNone DEF Init, NoRow
<1> QED
  BY <1>1 DEF Init, Lifecycle!LifecycleInit, ActiveAt

\* Creation opens the case.
LEMMA CreateImplements ==
  ASSUME TypeOK, NEW a \in Apps, CreateApplication(a)
  PROVE  Lifecycle!Open(a)
<1>1. /\ row[a].status = "NONE"
      /\ events'[a] = <<[type |-> "DRAFT_CREATED", at |-> clock]>>
      /\ row'[a].status = INITIAL_STATE
      /\ deadlines' = deadlines /\ appeals' = appeals
      /\ \A b \in Apps \ {a} : row'[b] = row[b] /\ events'[b] = events[b]
  BY DEF CreateApplication, Exists, TypeOK, AppRow
<1>2. StatusTrail(events'[a]) = <<INITIAL_STATE>>
  <2> PICK x : x = [type |-> "DRAFT_CREATED", at |-> clock]
    OBVIOUS
  <2>1. x \in Event /\ x.type = "DRAFT_CREATED"
    BY DEF Event, EventType, Time, TypeOK
  <2>2. <<>> \in Seq(Event) /\ Append(<<>>, x) = <<x>>
    OBVIOUS
  <2>3. StatusTrail(Append(<<>>, x)) = Append(StatusTrail(<<>>), StatusOf(x))
    BY <2>1, <2>2, StatusTrailAppend
  <2>4. StatusOf(x) = INITIAL_STATE
    BY <2>1 DEF StatusOf
  <2> QED
    BY <1>1, <2>2, <2>3, <2>4, StatusTrailOfNone
<1>3. Status' = [Status EXCEPT ![a] = INITIAL_STATE]
  BY <1>1 DEF Status
<1>4. Trail' = [Trail EXCEPT ![a] = <<INITIAL_STATE>>]
  BY <1>1, <1>2 DEF Trail
<1>5. Armed' = Armed /\ appeals' = appeals /\ Status[a] = "NONE"
  BY <1>1 DEF Armed, ActiveAt, Status
<1> QED
  BY <1>3, <1>4, <1>5 DEF Lifecycle!Open, Status, Trail, Armed, ActiveAt, INITIAL_STATE,
                          Lifecycle!INITIAL_STATE

\* The table of the lifecycle is that of the engine.
LEMMA SameTable ==
  /\ Lifecycle!ApplicationStatus = ApplicationStatus
  /\ \A from, to : Lifecycle!IsTransitionAllowed(from, to) <=> IsTransitionAllowed(from, to)
BY DEF Lifecycle!ApplicationStatus, ApplicationStatus, Lifecycle!IsTransitionAllowed,
       IsTransitionAllowed, Lifecycle!TRANSITIONS, TRANSITIONS

\* A commit of an informational event is no step of the lifecycle.
LEMMA NoteImplements ==
  ASSUME TypeOK, SessionsSound, Serial, NEW s \in Sessions, NEW a \in Apps, CommitsOn(s, a),
         sess[s].event = "INFORMATIONAL"
  PROVE  Status' = Status /\ Trail' = Trail /\ Armed' = Armed
<1>1. /\ events[a] \in Seq(Event) /\ Recorded(s) \in Event
      /\ events'[a] = Append(events[a], Recorded(s)) /\ Recorded(s).type = "INFORMATIONAL"
      /\ row'[a].status = row[a].status
  BY Commitment DEF ApplicationStatus
<1>2. \A b \in Apps \ {a} :
        row'[b] = row[b] /\ deadlines'[b] = deadlines[b] /\ events'[b] = events[b]
  BY CommitEffect DEF CommitsOn, TypeOK
<1>3. deadlines'[a] = deadlines[a]
  BY SerialCommit
<1>4. StatusTrail(events'[a]) = StatusTrail(events[a])
  BY <1>1, StatusTrailAppend
<1> QED
  BY <1>1, <1>2, <1>3, <1>4 DEF Status, Trail, Armed, ActiveAt

\* A commit of a status moves the case along an edge of the table, and its
\* clocks by one at most.
LEMMA MoveImplements ==
  ASSUME TypeOK, SessionsSound, Serial, NEW s \in Sessions, NEW a \in Apps, CommitsOn(s, a),
         NEW e \in ApplicationStatus, sess[s].event = e
  PROVE  /\ IsTransitionAllowed(Status[a], e)
         /\ Status' = [Status EXCEPT ![a] = e]
         /\ Trail' = [Trail EXCEPT ![a] = Append(Trail[a], e)]
         /\ e = "UNDER_PROCESSING" => Armed' = [Armed EXCEPT ![a] = @ + 1]
         /\ e = "NO_RESPONSE" => Armed[a] > 0 /\ Armed' = [Armed EXCEPT ![a] = @ - 1]
         /\ e \notin {"UNDER_PROCESSING", "NO_RESPONSE"} => Armed' = Armed
<1>1. /\ events[a] \in Seq(Event) /\ Recorded(s) \in Event
      /\ events'[a] = Append(events[a], Recorded(s)) /\ Recorded(s).type = e
      /\ row'[a].status = e
  BY Commitment
<1>2. \A b \in Apps \ {a} :
        row'[b] = row[b] /\ deadlines'[b] = deadlines[b] /\ events'[b] = events[b]
  BY CommitEffect DEF CommitsOn, TypeOK
<1>3. IsTransitionAllowed(Status[a], e)
  BY SerialCommit DEF Status
<1>4. Status' = [Status EXCEPT ![a] = e]
  BY <1>1, <1>2 DEF Status
<1>5. StatusTrail(events'[a]) = Append(StatusTrail(events[a]), e)
  <2>1. e \notin {"INFORMATIONAL", "DRAFT_CREATED"}
    BY DEF ApplicationStatus
  <2>2. StatusOf(Recorded(s)) = e
    BY <1>1, <2>1 DEF StatusOf
  <2> QED
    BY <1>1, <2>1, <2>2, StatusTrailAppend
<1>6. Trail' = [Trail EXCEPT ![a] = Append(Trail[a], e)]
  BY <1>2, <1>5 DEF Trail
<1>7. deadlines[a] \in Seq(Deadline) /\ deadlines'[a] \in Seq(Deadline)
  BY RecordEventType DEF TypeOK, CommitsOn
<1>8. \A b \in Apps \ {a} : ActiveAt(deadlines'[b]) = ActiveAt(deadlines[b])
  BY <1>2
<1>9. /\ Armed[a] = Cardinality(ActiveAt(deadlines[a]))
      /\ Armed' = [Armed EXCEPT ![a] = Cardinality(ActiveAt(deadlines'[a]))]
  BY <1>8 DEF Armed, ActiveAt
<1>10. CASE e = "UNDER_PROCESSING"
  <2>1. Armed[a] = 0 /\ Cardinality(ActiveAt(deadlines'[a])) = 1
    BY <1>7, <1>9, <1>10, SerialCommit, ArmedClocks
  <2> QED
    BY <1>3, <1>4, <1>6, <1>9, <1>10, <2>1
<1>11. CASE e = "NO_RESPONSE"
  <2>1. Armed[a] = 1 /\ Cardinality(ActiveAt(deadlines'[a])) = 0
    BY <1>7, <1>9, <1>11, SerialCommit, ArmedClocks
  <2> QED
    BY <1>3, <1>4, <1>6, <1>9, <1>11, <2>1
<1>12. CASE e \notin {"UNDER_PROCESSING", "NO_RESPONSE"}
  <2>1. deadlines'[a] = deadlines[a]
    BY <1>12, SerialCommit
  <2>2. Armed' = Armed
    BY <1>2, <2>1 DEF Armed, ActiveAt
  <2> QED
    BY <1>3, <1>4, <1>6, <1>12, <2>2
<1> QED
  BY <1>10, <1>11, <1>12

\* What a commit does to the appeals: only CommitAppeal touches them, and
\* only its event is a filing.
LEMMA CommitAppeals ==
  ASSUME TypeOK, SessionsSound, NEW s \in Sessions, NEW a \in Apps, CommitsOn(s, a),
         \/ CommitEvent(s) \/ CommitAppeal(s) \/ CommitNoResponse(s)
         \/ \E output \in AiOutput : CommitResponse(s, output)
  PROVE  \/ /\ sess[s].event = "FIRST_APPEAL_FILED"
            /\ appeals[a] = 0 /\ appeals' = [appeals EXCEPT ![a] = 1]
         \/ sess[s].event # "FIRST_APPEAL_FILED" /\ appeals' = appeals
<1>1. Sound(sess[s]) /\ sess[s].app = a
  BY DEF SessionsSound, CommitsOn
<1>2. CASE CommitAppeal(s)
  BY <1>1, <1>2 DEF CommitAppeal, Sound
<1>3. CASE CommitEvent(s)
  BY <1>1, <1>3 DEF CommitEvent, Sound, DedicatedEvents
<1>4. CASE CommitNoResponse(s)
  BY <1>1, <1>4 DEF CommitNoResponse, Sound
<1>5. CASE \E output \in AiOutput : CommitResponse(s, output)
  BY <1>1, <1>5 DEF CommitResponse, Sound
<1> QED
  BY <1>2, <1>3, <1>4, <1>5

\* Every commit is a move of the lifecycle, or none.
LEMMA CommitImplements ==
  ASSUME TypeOK, SessionsSound, Serial, NEW s \in Sessions,
         \/ CommitEvent(s) \/ CommitAppeal(s) \/ CommitNoResponse(s)
         \/ \E output \in AiOutput : CommitResponse(s, output)
  PROVE  Lifecycle!LifecycleNext \/ UNCHANGED Lifecycle!lifecycleVars
<1> PICK a : a = sess[s].app
  OBVIOUS
<1> PICK e : e = sess[s].event
  OBVIOUS
<1>1. CommitsOn(s, a) /\ a \in Apps /\ e \in EventType \ {"DRAFT_CREATED"}
  BY CommitLeaves, CommitEffect DEF CommitsOn
<1>2. \/ e = "FIRST_APPEAL_FILED" /\ appeals[a] = 0 /\ appeals' = [appeals EXCEPT ![a] = 1]
      \/ e # "FIRST_APPEAL_FILED" /\ appeals' = appeals
  BY <1>1, CommitAppeals
<1>3. CASE e = "INFORMATIONAL"
  <2>1. Status' = Status /\ Trail' = Trail /\ Armed' = Armed /\ appeals' = appeals
    BY <1>1, <1>2, <1>3, NoteImplements
  <2> QED
    BY <2>1 DEF Lifecycle!lifecycleVars, Status, Trail, Armed, ActiveAt
<1>4. CASE e \in ApplicationStatus
  <2>1. /\ IsTransitionAllowed(Status[a], e)
        /\ Status' = [Status EXCEPT ![a] = e]
        /\ Trail' = [Trail EXCEPT ![a] = Append(Trail[a], e)]
        /\ e = "UNDER_PROCESSING" => Armed' = [Armed EXCEPT ![a] = @ + 1]
        /\ e = "NO_RESPONSE" => Armed[a] > 0 /\ Armed' = [Armed EXCEPT ![a] = @ - 1]
        /\ e \notin {"UNDER_PROCESSING", "NO_RESPONSE"} => Armed' = Armed
    BY <1>1, <1>4, MoveImplements
  <2>2. Lifecycle!Move(a, e)
    BY <2>1, SameTable DEF Lifecycle!Move, Status, Trail
  <2>3. CASE e = "UNDER_PROCESSING"
    <3>1. Armed' = [Armed EXCEPT ![a] = @ + 1] /\ appeals' = appeals
      BY <1>2, <2>1, <2>3
    <3>2. Lifecycle!StartClock(a)
      BY <2>2, <2>3, <3>1 DEF Lifecycle!StartClock, Armed, ActiveAt
    <3> QED
      BY <1>1, <3>2 DEF Lifecycle!LifecycleNext
  <2>4. CASE e = "NO_RESPONSE"
    <3>1. Armed[a] > 0 /\ Armed' = [Armed EXCEPT ![a] = @ - 1] /\ appeals' = appeals
      BY <1>2, <2>1, <2>4
    <3>2. Lifecycle!DeclareSilence(a)
      BY <2>2, <2>4, <3>1 DEF Lifecycle!DeclareSilence, Armed, ActiveAt
    <3> QED
      BY <1>1, <3>2 DEF Lifecycle!LifecycleNext
  <2>5. CASE e = "FIRST_APPEAL_FILED"
    <3>1. Armed' = Armed /\ appeals[a] = 0 /\ appeals' = [appeals EXCEPT ![a] = 1]
      BY <1>2, <2>1, <2>5
    <3>2. Lifecycle!FileAppeal(a)
      BY <2>2, <2>5, <3>1 DEF Lifecycle!FileAppeal, Armed, ActiveAt
    <3> QED
      BY <1>1, <3>2 DEF Lifecycle!LifecycleNext
  <2>6. CASE e \notin {"UNDER_PROCESSING", "NO_RESPONSE", "FIRST_APPEAL_FILED"}
    <3>1. Armed' = Armed /\ appeals' = appeals
      BY <1>2, <2>1, <2>6
    <3>2. Lifecycle!Proceed(a, e)
      BY <2>2, <2>6, <3>1 DEF Lifecycle!Proceed, Armed, ActiveAt
    <3> QED
      BY <1>1, <1>4, <3>2, SameTable DEF Lifecycle!LifecycleNext
  <2> QED
    BY <2>3, <2>4, <2>5, <2>6
<1> QED
  BY <1>1, <1>3, <1>4 DEF EventType

\* Every step is a step of the lifecycle or leaves it alone.
LEMMA NextImplements ==
  ASSUME TypeOK, SessionsSound, Serial, [Next]_vars
  PROVE  Lifecycle!LifecycleNext \/ UNCHANGED Lifecycle!lifecycleVars
<1>1. ASSUME NEW a \in Apps, CreateApplication(a) PROVE Lifecycle!LifecycleNext
  BY <1>1, CreateImplements DEF Lifecycle!LifecycleNext
<1>2. ASSUME NEW s \in Sessions, Backdate(s) PROVE UNCHANGED Lifecycle!lifecycleVars
  <2>1. row' = row /\ events' = events /\ appeals' = appeals
    BY <1>2 DEF Backdate
  <2>2. \A a \in Apps : ActiveAt(deadlines'[a]) = ActiveAt(deadlines[a])
    BY <1>2, BackdateKeeps DEF ActiveAt
  <2>3. Status' = Status /\ Trail' = Trail /\ Armed' = Armed
    BY <2>1, <2>2 DEF Status, Trail, Armed, ActiveAt
  <2> QED
    BY <2>1, <2>3 DEF Lifecycle!lifecycleVars, Status, Trail, Armed, ActiveAt
<1>3. ASSUME UNCHANGED <<row, events, deadlines, appeals>>
      PROVE  UNCHANGED Lifecycle!lifecycleVars
  <2>1. Status' = Status /\ Trail' = Trail /\ Armed' = Armed /\ appeals' = appeals
    BY <1>3 DEF Status, Trail, Armed, ActiveAt
  <2> QED
    BY <2>1 DEF Lifecycle!lifecycleVars, Status, Trail, Armed, ActiveAt
<1>4. ASSUME NEW s \in Workers, Request(s)
      PROVE  Lifecycle!LifecycleNext \/ UNCHANGED Lifecycle!lifecycleVars
  <2>1. s \in Sessions
    BY DEF Sessions
  <2>2. ASSUME NEW a \in Apps,
               \/ \E e \in EventType \ {"DRAFT_CREATED"} : PostEvent(s, a, e)
               \/ BeginAppeal(s, a) \/ BeginResponse(s, a) \/ BeginSimulate(s, a)
        PROVE  UNCHANGED <<row, events, deadlines, appeals>>
    BY <2>2 DEF PostEvent, BeginAppeal, BeginResponse, BeginSimulate, Database
  <2>3. ReadItems(s) => UNCHANGED <<row, events, deadlines, appeals>>
    BY DEF ReadItems, Database
  <2> QED
    BY <1>2, <1>3, <1>4, <2>1, <2>2, <2>3, CommitImplements DEF Request
<1>5. ASSUME NEW s \in Sessions, Sweep(s) \/ Abort(s)
      PROVE  Lifecycle!LifecycleNext \/ UNCHANGED Lifecycle!lifecycleVars
  <2>1. ASSUME ~ CommitNoResponse(s) PROVE UNCHANGED <<row, events, deadlines, appeals>>
    BY <1>5, <2>1 DEF Sweep, Abort, SweepQuery, SweepNext, SweepReadClock, Database
  <2> QED
    BY <1>3, <2>1, CommitImplements
<1>6. Tick \/ UNCHANGED vars => UNCHANGED <<row, events, deadlines, appeals>>
  BY DEF Tick, vars, Database
<1> QED
  BY <1>1, <1>3, <1>4, <1>5, <1>6 DEF Next

\* With one session, the engine implements CaseLifecycle: every step moves a
\* case along the table, starts, misses or keeps its one clock, files an
\* appeal once, or is invisible.
THEOREM EngineImplementsLifecycle ==
  ASSUME \E s : Sessions = {s}
  PROVE  Spec => ImplementsLifecycle
<1>1. PICK s : Sessions = {s}
  OBVIOUS
<1>2. TypeOK /\ SessionsSound /\ Serial /\ [Next]_vars
        => [Lifecycle!LifecycleNext]_(Lifecycle!lifecycleVars)
  BY NextImplements
<1>3. Spec => []Serial
  BY <1>1, SerialAlways
<1> QED
  BY <1>2, <1>3, InitImplements, TypeCorrect, PTL
     DEF Spec, ImplementsLifecycle, Lifecycle!LifecycleSpec
================================================================================
