--------------------------- MODULE CaseStoreProofs ---------------------------
(***************************************************************************)
(* Proofs about the browser's case store for any set of cases, tabs and    *)
(* overlapping operations and any bounds.                                  *)
(***************************************************************************)
EXTENDS CaseStoreProperties, SequenceTheorems, TLAPS

-----------------------------------------------------------------------------
(* Trails as sequences of contents. "which" is a set of contents here.     *)

StageEvents  == { x \in Content : IsStageEvent(x) }
StatusEvents == { x \in Content : IsStatusEvent(x) }

IsLast(s, which, n) ==
  n \in DOMAIN s /\ s[n] \in which /\ \A m \in DOMAIN s : s[m] \in which => m <= n
NoneOf(s, which) == \A n \in DOMAIN s : s[n] \notin which

FirstStage(c) == IF c = SeedCase THEN SeedRecord.govStage ELSE NewRecord(c).govStage

\* What a trail says of its case.
StageGiven(s, c, stage) ==
  \/ \E n \in DOMAIN s : IsLast(s, StageEvents, n) /\ s[n].stage = stage
  \/ NoneOf(s, StageEvents) /\ stage = FirstStage(c)
StatusGiven(s, status) ==
  \E n \in DOMAIN s : IsLast(s, StatusEvents, n) /\ StatusGivenBy(s[n]) = status
DocsNamed(s) == { s[n].doc : n \in { n \in DOMAIN s : s[n].type = "DOCUMENT_ADDED" } }

\* The last of a kind after one more event.
LEMMA LastAppend ==
  ASSUME NEW s \in Seq(Content), NEW e \in Content, NEW which
  PROVE  /\ e \in which => IsLast(Append(s, e), which, Len(s) + 1)
         /\ e \notin which => \A n : IsLast(Append(s, e), which, n) <=> IsLast(s, which, n)
         /\ e \notin which => (NoneOf(Append(s, e), which) <=> NoneOf(s, which))
<1>1. /\ DOMAIN s = 1..Len(s) /\ Len(s) \in Nat
      /\ DOMAIN Append(s, e) = 1..(Len(s) + 1)
      /\ Append(s, e)[Len(s) + 1] = e
      /\ \A n \in 1..Len(s) : Append(s, e)[n] = s[n]
  BY AppendProperties
<1> DEFINE t == Append(s, e)
<1>2. \A n \in DOMAIN t : n \in DOMAIN s \/ n = Len(s) + 1
  BY <1>1
<1> HIDE DEF t
<1>3. e \in which => IsLast(t, which, Len(s) + 1)
  BY <1>1, <1>2 DEF IsLast, t
<1>4. e \notin which => \A n : IsLast(t, which, n) <=> IsLast(s, which, n)
  BY <1>1, <1>2 DEF IsLast, t
<1>5. e \notin which => (NoneOf(t, which) <=> NoneOf(s, which))
  BY <1>1, <1>2 DEF NoneOf, t
<1> QED
  BY <1>3, <1>4, <1>5 DEF t

\* What one more event changes of what a trail says.
LEMMA GivenAppend ==
  ASSUME NEW s \in Seq(Content), NEW e \in Content
  PROVE  /\ e \in StageEvents => \A c : StageGiven(Append(s, e), c, e.stage)
         /\ e \notin StageEvents =>
              \A c, stage : StageGiven(s, c, stage) => StageGiven(Append(s, e), c, stage)
         /\ e \in StatusEvents => StatusGiven(Append(s, e), StatusGivenBy(e))
         /\ e \notin StatusEvents =>
              \A status : StatusGiven(s, status) => StatusGiven(Append(s, e), status)
         /\ DocsNamed(Append(s, e)) =
              IF e.type = "DOCUMENT_ADDED" THEN DocsNamed(s) \cup {e.doc} ELSE DocsNamed(s)
<1> DEFINE t == Append(s, e)
<1>1. /\ DOMAIN s = 1..Len(s) /\ Len(s) \in Nat
      /\ DOMAIN t = 1..(Len(s) + 1)
      /\ t[Len(s) + 1] = e
      /\ \A n \in 1..Len(s) : t[n] = s[n]
  BY AppendProperties
<1>2. \A which :
         /\ e \in which => IsLast(t, which, Len(s) + 1)
         /\ e \notin which => \A n : IsLast(t, which, n) <=> IsLast(s, which, n)
         /\ e \notin which => (NoneOf(t, which) <=> NoneOf(s, which))
  BY LastAppend
<1> HIDE DEF t
<1>3. e \in StageEvents => \A c : StageGiven(t, c, e.stage)
  BY <1>1, <1>2 DEF StageGiven
<1>4. e \notin StageEvents => \A c, stage : StageGiven(s, c, stage) => StageGiven(t, c, stage)
  BY <1>1, <1>2 DEF StageGiven
<1>5. e \in StatusEvents => StatusGiven(t, StatusGivenBy(e))
  BY <1>1, <1>2 DEF StatusGiven
<1>6. e \notin StatusEvents => \A status : StatusGiven(s, status) => StatusGiven(t, status)
  BY <1>1, <1>2 DEF StatusGiven
<1>7. \A n \in DOMAIN t : n \in DOMAIN s \/ n = Len(s) + 1
  BY <1>1
<1>8. DocsNamed(t) = IF e.type = "DOCUMENT_ADDED" THEN DocsNamed(s) \cup {e.doc} ELSE DocsNamed(s)
  BY <1>1, <1>7 DEF DocsNamed
<1> QED
  BY <1>3, <1>4, <1>5, <1>6, <1>8 DEF t
-----------------------------------------------------------------------------
(* Records.                                                                *)

\* The digest of a trail is the one of its events, and its version counts them.
Verified(trail) == VerifyTrail(trail.events) /\ trail.trailVersion = Len(trail.events)

\* What a record says agrees with its trail, "status" taken for its status.
Agrees(r, status) ==
  /\ r \in CaseRecord
  /\ StageGiven(Contents(r), r.suchnaId, r.govStage)
  /\ StatusGiven(Contents(r), status)
  /\ r.evidence = DocsNamed(Contents(r))

Good(r) == Agrees(r, r.status) /\ Verified(r)

\* A record whose last event waits for the chain.
Pending(r, status) == Agrees(r, status) /\ Len(r.events) = r.trailVersion + 1

LEMMA ContentsType ==
  ASSUME NEW r \in CaseRecord
  PROVE  Contents(r) \in Seq(Content) /\ Len(Contents(r)) = Len(r.events)
<1>1. r.events \in Seq(CaseEvent)
  BY DEF CaseRecord
<1>2. \A n \in 1..Len(r.events) : r.events[n] \in CaseEvent
  BY <1>1, ElementOfSeq
<1>3. \A n \in 1..Len(r.events) : r.events[n].content \in Content
  BY <1>2 DEF CaseEvent
<1> QED
  BY <1>1, <1>3 DEF Contents

\* What appending an event leaves.
LEMMA AppendedIs ==
  ASSUME NEW r \in CaseRecord, NEW id \in Nat, NEW type \in CaseEventType,
         NEW stage \in GovStage \cup {"NONE"}, NEW doc \in Nat
  PROVE  LET q == Appended(r, id, type, stage, doc)
             e == [id |-> id, type |-> type, stage |-> stage, doc |-> doc]
         IN /\ q \in CaseRecord /\ e \in Content
            /\ Contents(q) = Append(Contents(r), e)
            /\ Len(q.events) = Len(r.events) + 1
            /\ q.suchnaId = r.suchnaId /\ q.status = r.status /\ q.govStage = r.govStage
            /\ q.evidence = r.evidence /\ q.trailVersion = r.trailVersion
<1> DEFINE e == [id |-> id, type |-> type, stage |-> stage, doc |-> doc]
           new == [content |-> e, hash |-> <<>>]
           q == Appended(r, id, type, stage, doc)
<1>1. e \in Content
  BY DEF Content
<1>2. new \in CaseEvent
  BY <1>1 DEF CaseEvent
<1>3. q = [r EXCEPT !.events = Append(r.events, new)] /\ r.events \in Seq(CaseEvent)
  BY DEF Appended, CaseRecord
<1> HIDE DEF e, q
<1>4. /\ q.suchnaId = r.suchnaId /\ q.status = r.status /\ q.govStage = r.govStage
      /\ q.evidence = r.evidence /\ q.trailVersion = r.trailVersion
      /\ q.events = Append(r.events, new)
      /\ Append(r.events, new) \in Seq(CaseEvent)
  BY <1>2, <1>3, AppendProperties DEF CaseRecord
<1>5. q \in CaseRecord
  BY <1>3, <1>4 DEF CaseRecord
<1>6. /\ Len(q.events) = Len(r.events) + 1 /\ Len(r.events) \in Nat
      /\ DOMAIN q.events = 1..(Len(r.events) + 1) /\ DOMAIN r.events = 1..Len(r.events)
      /\ q.events[Len(r.events) + 1] = new
      /\ \A n \in 1..Len(r.events) : q.events[n] = r.events[n]
  BY <1>2, <1>3, <1>4, AppendProperties
<1>7. Contents(q) = Append(Contents(r), e)
  <2>1. Contents(q) \in Seq(Content) /\ Contents(r) \in Seq(Content)
        /\ Len(Contents(r)) = Len(r.events) /\ Len(Contents(q)) = Len(r.events) + 1
    BY <1>5, <1>6, ContentsType
  <2>2. /\ Append(Contents(r), e) \in Seq(Content)
        /\ Len(Append(Contents(r), e)) = Len(r.events) + 1
        /\ \A n \in 1..Len(r.events) : Append(Contents(r), e)[n] = Contents(r)[n]
        /\ Append(Contents(r), e)[Len(r.events) + 1] = e
    BY <1>1, <2>1, AppendProperties
  <2>3. \A n \in 1..(Len(r.events) + 1) : Contents(q)[n] = Append(Contents(r), e)[n]
    <3>1. new.content = e
      OBVIOUS
    <3>2. \A n \in 1..(Len(r.events) + 1) : n \in 1..Len(r.events) \/ n = Len(r.events) + 1
      BY <1>6
    <3> QED
      BY <1>6, <2>2, <3>1, <3>2 DEF Contents
  <2> QED
    BY <2>1, <2>2, <2>3, SeqEqual
<1> QED
  BY <1>1, <1>4, <1>5, <1>6, <1>7 DEF q, e

\* The chain is over the same contents, and verifies.
LEMMA ChainVerifies ==
  ASSUME NEW events \in Seq(CaseEvent)
  PROVE  /\ ComputeHashChain(events) \in Seq(CaseEvent)
         /\ Len(ComputeHashChain(events)) = Len(events)
         /\ \A n \in DOMAIN events : ComputeHashChain(events)[n].content = events[n].content
         /\ VerifyTrail(ComputeHashChain(events))
<1> DEFINE chain == ComputeHashChain(events)
<1>0. DOMAIN events = 1..Len(events) /\ Len(events) \in Nat
  BY LenProperties
<1>1. \A n \in 1..Len(events) : events[n] \in CaseEvent
  BY ElementOfSeq
<1>2. \A n \in 1..Len(events) : events[n].content \in Content
  BY <1>1 DEF CaseEvent
<1>a. \A n \in 1..Len(events) : [k \in 1..n |-> events[k].content] \in Seq(Content)
  <2> SUFFICES ASSUME NEW n \in 1..Len(events)
               PROVE  [k \in 1..n |-> events[k].content] \in Seq(Content)
    OBVIOUS
  <2>1. \A k \in 1..n : events[k].content \in Content
    BY <1>0, <1>2
  <2> QED
    BY <1>0, <2>1
<1>b. \A n \in 1..Len(events) :
        /\ chain[n].content = events[n].content
        /\ chain[n].hash = [k \in 1..n |-> events[k].content]
        /\ chain[n] \in CaseEvent
  BY <1>0, <1>2, <1>a DEF ComputeHashChain, CaseEvent
<1>c. chain = [n \in 1..Len(events) |-> chain[n]] /\ DOMAIN chain = 1..Len(events)
  BY <1>0 DEF ComputeHashChain
<1> HIDE DEF chain
<1>d. chain \in Seq(CaseEvent) /\ Len(chain) = Len(events)
  <2>1. chain \in [1..Len(events) -> CaseEvent]
    BY <1>b, <1>c
  <2> QED
    BY <1>0, <2>1, SeqDef
<1>3. /\ chain \in Seq(CaseEvent) /\ Len(chain) = Len(events)
      /\ DOMAIN chain = DOMAIN events
      /\ \A n \in DOMAIN events : /\ chain[n].content = events[n].content
                                  /\ chain[n].hash = [k \in 1..n |-> events[k].content]
  BY <1>0, <1>b, <1>c, <1>d
<1>4. \A n \in DOMAIN chain : [k \in 1..n |-> chain[k].content] = [k \in 1..n |-> events[k].content]
  <2> SUFFICES ASSUME NEW n \in 1..Len(events)
               PROVE  [k \in 1..n |-> chain[k].content] = [k \in 1..n |-> events[k].content]
    BY <1>0, <1>3
  <2>1. \A k \in 1..n : k \in 1..Len(events)
    BY <1>0
  <2>2. \A k \in 1..n : chain[k].content = events[k].content
    BY <1>b, <2>1
  <2> QED
    BY <2>2
<1>5. \A n \in DOMAIN chain : ComputeHashChain(chain)[n].hash = chain[n].hash
  BY <1>3, <1>4 DEF ComputeHashChain
<1>6. chain = <<>> \/ Len(chain) \in DOMAIN chain
  BY <1>3
<1> QED
  BY <1>3, <1>5, <1>6 DEF VerifyTrail, chain

\* What computing the chain of a record leaves.
LEMMA SettledIs ==
  ASSUME NEW r \in CaseRecord, Len(r.events) = r.trailVersion + 1
  PROVE  /\ Settled(r) \in CaseRecord
         /\ Contents(Settled(r)) = Contents(r)
         /\ Verified(Settled(r))
         /\ Settled(r).suchnaId = r.suchnaId /\ Settled(r).status = r.status
         /\ Settled(r).govStage = r.govStage /\ Settled(r).evidence = r.evidence
<1> DEFINE q == Settled(r)
           chain == ComputeHashChain(r.events)
<1>0. r.events \in Seq(CaseEvent) /\ r.trailVersion \in Nat
  BY DEF CaseRecord
<1>1. /\ chain \in Seq(CaseEvent) /\ Len(chain) = Len(r.events) /\ VerifyTrail(chain)
      /\ \A n \in DOMAIN r.events : chain[n].content = r.events[n].content
  BY <1>0, ChainVerifies
<1>2. q = [r EXCEPT !.events = chain, !.trailVersion = r.trailVersion + 1]
  BY DEF Settled
<1> HIDE DEF q, chain
<1>3. /\ q.suchnaId = r.suchnaId /\ q.status = r.status /\ q.govStage = r.govStage
      /\ q.evidence = r.evidence /\ q.events = chain /\ q.trailVersion = r.trailVersion + 1
  BY <1>2 DEF CaseRecord
<1>4. q \in CaseRecord
  <2>1. q = [suchnaId |-> r.suchnaId, status |-> r.status, govStage |-> r.govStage,
             events |-> chain, trailVersion |-> r.trailVersion + 1, evidence |-> r.evidence,
             audit |-> r.audit, checked |-> r.checked]
    BY <1>2 DEF CaseRecord
  <2> QED
    BY <1>0, <1>1, <2>1 DEF CaseRecord
<1>5. Contents(q) = Contents(r)
  BY <1>0, <1>1, <1>3 DEF Contents
<1>6. Verified(q)
  BY <1>1, <1>3 DEF Verified
<1> QED
  BY <1>3, <1>4, <1>5, <1>6 DEF q

\* Settling a record whose last event waits for the chain makes it good.
LEMMA SettledGood ==
  ASSUME NEW r, NEW status, Pending(r, status), status \in CaseStatus
  PROVE  /\ r.status = status => Good(Settled(r))
         /\ Good([Settled(r) EXCEPT !.status = status])
         /\ Settled(r).suchnaId = r.suchnaId /\ r.suchnaId \in Cases
         /\ [Settled(r) EXCEPT !.status = status].suchnaId = r.suchnaId
<1> DEFINE q == Settled(r)
           p == [q EXCEPT !.status = status]
<1>1. /\ q \in CaseRecord /\ Contents(q) = Contents(r) /\ Verified(q)
      /\ q.suchnaId = r.suchnaId /\ q.status = r.status /\ q.govStage = r.govStage
      /\ q.evidence = r.evidence /\ r.suchnaId \in Cases
  BY SettledIs DEF Pending, Agrees, CaseRecord
<1> HIDE DEF q
<1>2. /\ p \in CaseRecord /\ p.suchnaId = q.suchnaId /\ p.status = status
      /\ p.govStage = q.govStage /\ p.evidence = q.evidence
      /\ p.events = q.events /\ p.trailVersion = q.trailVersion
  BY <1>1 DEF CaseRecord
<1> HIDE DEF p
<1>3. Contents(p) = Contents(r) /\ Verified(p)
  BY <1>1, <1>2 DEF Contents, Verified
<1>4. r.status = status => Good(q)
  BY <1>1 DEF Good, Pending, Agrees
<1>5. Good(p)
  BY <1>1, <1>2, <1>3 DEF Good, Pending, Agrees
<1> QED
  BY <1>1, <1>2, <1>4, <1>5 DEF p, q
-----------------------------------------------------------------------------
(* The inductive invariant.                                                *)

\* Every stored record says what its trail says, under the id it is stored at.
StoreWell(saved) ==
  /\ saved \in [Cases -> CaseRecord \cup {NoRecord}]
  /\ \A c \in Cases : saved[c] # NoRecord => saved[c].suchnaId = c /\ Good(saved[c])

\* A page shows a record of its route that was once saved.
PagesOK ==
  /\ page \in [Tabs -> Page]
  /\ \A p \in Tabs :
       /\ page[p].layout # "none" => page[p].route \in Cases
       /\ page[p].record # NoRecord =>
            page[p].record.suchnaId = page[p].route /\ Verified(page[p].record)

CopiesOK ==
  /\ copies \in [Cases -> CitizenCopy]
  /\ \A c \in Cases : Verified(copies[c])

\* The status a record will have once operation x is done with it.
StatusDue(x) ==
  IF x.op = "received" \/ (x.op = "stage" /\ x.record.govStage = "RESPONSE_RELEASED")
  THEN "RESPONSE_RELEASED" ELSE x.record.status

\* An operation in flight carries a record that needs only its chain.
InFlight(x) ==
  \/ x = Idle
  \/ x.tab \in Tabs /\ x.op = "load" /\ SeedCase \in Cases
  \/ x.tab \in Tabs /\ x.op \notin {"idle", "load"} /\ Pending(x.record, StatusDue(x))
TasksOK ==
  /\ task \in [Tasks -> Task]
  /\ \A t \in Tasks : InFlight(task[t])

NotesOK ==
  /\ notifications \in Seq(Notification) /\ Len(notifications) <= NotificationLimit
  /\ \A n \in 1..Len(notifications) : Exists(notifications[n].caseId)

IInv ==
  /\ StoreWell(store)
  /\ PagesOK
  /\ CopiesOK
  /\ TasksOK
  /\ NotesOK
  /\ demo \in BOOLEAN
  /\ uuid \in Nat
-----------------------------------------------------------------------------
(* What the parts of an action leave.                                      *)

LEMMA NoRecordFacts ==
  /\ NoRecord \notin CaseRecord
  /\ \A r \in CaseRecord : r # NoRecord /\ r.suchnaId \in Cases
  /\ NoRecord.suchnaId = NoCase
  /\ NoCase \notin Cases
<1>1. NoRecord.suchnaId = NoCase
  BY DEF NoRecord
<1>2. \A r \in CaseRecord : r.suchnaId \in Cases
  BY DEF CaseRecord
<1> QED
  BY <1>1, <1>2, NoCaseAssumption

\* The audit log and the checklist are no part of what a trail says.
LEMMA GoodBeside ==
  ASSUME NEW r, Good(r), NEW q \in CaseRecord,
         q.events = r.events, q.trailVersion = r.trailVersion, q.suchnaId = r.suchnaId,
         q.status = r.status, q.govStage = r.govStage, q.evidence = r.evidence
  PROVE  Good(q)
<1>1. Contents(q) = Contents(r)
  BY DEF Contents
<1> QED
  BY <1>1 DEF Good, Agrees, Verified

LEMMA SavedWell ==
  ASSUME StoreWell(store), NEW r, Good(r)
  PROVE  /\ r \in CaseRecord /\ r.suchnaId \in Cases
         /\ StoreWell(Saved(r))
         /\ Saved(r)[r.suchnaId] = r
         /\ \A c \in Cases : store[c] # NoRecord => Saved(r)[c] # NoRecord
<1>1. r \in CaseRecord /\ r.suchnaId \in Cases /\ r # NoRecord
  BY NoRecordFacts DEF Good, Agrees
<1>2. store \in [Cases -> CaseRecord \cup {NoRecord}]
  BY DEF StoreWell
<1>3. /\ Saved(r) \in [Cases -> CaseRecord \cup {NoRecord}]
      /\ \A c \in Cases : Saved(r)[c] = IF c = r.suchnaId THEN r ELSE store[c]
  BY <1>1, <1>2 DEF Saved
<1> HIDE DEF Saved
<1>4. StoreWell(Saved(r))
  BY <1>1, <1>3 DEF StoreWell
<1> QED
  BY <1>1, <1>3, <1>4

\* An audit entry joins a record and changes nothing else of it.
LEMMA AuditIs ==
  ASSUME NEW r \in CaseRecord, NEW a \in AuditAction
  PROVE  LET q == [r EXCEPT !.audit = r.audit \cup {a}]
         IN /\ q \in CaseRecord
            /\ q.events = r.events /\ q.trailVersion = r.trailVersion
            /\ q.suchnaId = r.suchnaId /\ q.status = r.status /\ q.govStage = r.govStage
            /\ q.evidence = r.evidence
  BY DEF CaseRecord

LEMMA WithAuditWell ==
  ASSUME NEW saved, StoreWell(saved), NEW c \in Cases, saved[c] # NoRecord,
         NEW a \in AuditAction
  PROVE  /\ StoreWell(WithAudit(saved, c, a))
         /\ WithAudit(saved, c, a)[c] # NoRecord
         /\ \A d \in Cases : saved[d] # NoRecord => WithAudit(saved, c, a)[d] # NoRecord
<1> DEFINE q == [saved[c] EXCEPT !.audit = saved[c].audit \cup {a}]
           new == WithAudit(saved, c, a)
<1>1. /\ saved \in [Cases -> CaseRecord \cup {NoRecord}] /\ saved[c] \in CaseRecord
      /\ saved[c].suchnaId = c /\ Good(saved[c])
  BY DEF StoreWell
<1>2. /\ q \in CaseRecord
      /\ q.events = saved[c].events /\ q.trailVersion = saved[c].trailVersion
      /\ q.suchnaId = c /\ q.status = saved[c].status /\ q.govStage = saved[c].govStage
      /\ q.evidence = saved[c].evidence
  BY <1>1, AuditIs
<1>3. new = [saved EXCEPT ![c] = q]
  BY DEF WithAudit
<1> HIDE DEF q, new
<1>4. Good(q) /\ q # NoRecord
  BY <1>1, <1>2, GoodBeside, NoRecordFacts
<1>5. /\ new \in [Cases -> CaseRecord \cup {NoRecord}]
      /\ \A d \in Cases : new[d] = IF d = c THEN q ELSE saved[d]
  BY <1>1, <1>2, <1>3
<1>6. StoreWell(new)
  BY <1>2, <1>4, <1>5 DEF StoreWell
<1> QED
  BY <1>4, <1>5, <1>6 DEF new

\* The offline copy of a verified record verifies.
LEMMA CopyVerified ==
  ASSUME NEW r \in CaseRecord, Verified(r)
  PROVE  CopyOf(r) \in CitizenCopy /\ Verified(CopyOf(r))
<1>1. /\ CopyOf(r) \in CitizenCopy
      /\ CopyOf(r).events = r.events /\ CopyOf(r).trailVersion = r.trailVersion
  BY DEF CopyOf, CitizenCopy, CaseRecord
<1> QED
  BY <1>1 DEF Verified

\* Writing a store whose records are well leaves pages and copies well.
LEMMA WriteKeeps ==
  ASSUME NEW p \in Tabs, NEW saved, StoreWell(saved), PagesOK, CopiesOK, Write(p, saved)
  PROVE  StoreWell(store') /\ PagesOK' /\ CopiesOK' /\ store' = saved
<1> DEFINE shown == IF page[p].layout = "none" THEN NoRecord ELSE saved[page[p].route]
<1>1. /\ store' = saved
      /\ page' = [page EXCEPT ![p].record = shown]
      /\ copies' = IF page[p].layout = "citizen" /\ shown # NoRecord
                   THEN [copies EXCEPT ![shown.suchnaId] = CopyOf(shown)]
                   ELSE copies
  BY DEF Write
<1>2. /\ page \in [Tabs -> Page] /\ page[p] \in Page
      /\ page[p].layout # "none" => page[p].route \in Cases
  BY DEF PagesOK
<1>3. /\ shown \in CaseRecord \cup {NoRecord}
      /\ shown # NoRecord => /\ shown \in CaseRecord /\ Verified(shown)
                             /\ shown.suchnaId = page[p].route /\ page[p].route \in Cases
  BY <1>2 DEF StoreWell, Good
<1> HIDE DEF shown
<1>4. PagesOK'
  <2> DEFINE new == [page[p] EXCEPT !.record = shown]
  <2>1. /\ new \in Page /\ new.record = shown
        /\ new.route = page[p].route /\ new.layout = page[p].layout
    BY <1>2, <1>3 DEF Page
  <2>2. page' = [page EXCEPT ![p] = new]
    BY <1>1
  <2> HIDE DEF new
  <2>3. page' \in [Tabs -> Page] /\ \A q \in Tabs : page'[q] = IF q = p THEN new ELSE page[q]
    BY <1>2, <2>1, <2>2
  <2> QED
    BY <1>2, <1>3, <2>1, <2>3 DEF PagesOK
<1>5. CopiesOK'
  <2>1. CASE page[p].layout = "citizen" /\ shown # NoRecord
    <3>1. copies' = [copies EXCEPT ![shown.suchnaId] = CopyOf(shown)]
      BY <1>1, <2>1
    <3>2. CopyOf(shown) \in CitizenCopy /\ Verified(CopyOf(shown)) /\ shown.suchnaId \in Cases
      BY <1>3, <2>1, CopyVerified
    <3> QED
      BY <3>1, <3>2 DEF CopiesOK
  <2>2. CASE ~(page[p].layout = "citizen" /\ shown # NoRecord)
    BY <1>1, <2>2 DEF CopiesOK
  <2> QED
    BY <2>1, <2>2
<1> QED
  BY <1>1, <1>4, <1>5

\* A tab that opens a stored case shows and copies a verified record.
LEMMA PageOpens ==
  ASSUME PagesOK, NEW p \in Tabs, NEW layout \in {"citizen", "gov"}, NEW c \in Cases,
         NEW r \in CaseRecord, r.suchnaId = c, Verified(r),
         page' = [page EXCEPT ![p] = [layout |-> layout, route |-> c, record |-> r]]
  PROVE  PagesOK'
<1> DEFINE new == [layout |-> layout, route |-> c, record |-> r]
<1>1. new \in Page /\ new.layout = layout /\ new.route = c /\ new.record = r
  BY DEF Page
<1>2. page \in [Tabs -> Page] /\ page' = [page EXCEPT ![p] = new]
  BY DEF PagesOK
<1> HIDE DEF new
<1>3. page' \in [Tabs -> Page] /\ \A q \in Tabs : page'[q] = IF q = p THEN new ELSE page[q]
  BY <1>1, <1>2
<1> QED
  BY <1>1, <1>3 DEF PagesOK

LEMMA CopyTaken ==
  ASSUME CopiesOK, NEW c \in Cases, NEW r \in CaseRecord, Verified(r),
         copies' = [copies EXCEPT ![c] = CopyOf(r)]
  PROVE  CopiesOK'
  BY CopyVerified DEF CopiesOK

LEMMA PageCloses ==
  ASSUME PagesOK, NEW p \in Tabs, page' = [page EXCEPT ![p] = NoPage]
  PROVE  PagesOK'
<1>1. NoPage \in Page /\ NoPage.layout = "none" /\ NoPage.record = NoRecord
  BY DEF NoPage, Page
<1>2. page' \in [Tabs -> Page] /\ \A q \in Tabs : page'[q] = IF q = p THEN NoPage ELSE page[q]
  BY <1>1 DEF PagesOK
<1> QED
  BY <1>1, <1>2 DEF PagesOK

LEMMA PushKeeps ==
  ASSUME NotesOK, NEW c \in Cases, NEW about \in {"submitted", "released", "appeal", "overdue"},
         \A d \in Cases : Exists(d) => Exists(d)', Exists(c)', PushNotification(c, about)
  PROVE  NotesOK'
<1> DEFINE note == [caseId |-> c, about |-> about]
           all == <<note>> \o notifications
           n == IF Len(all) < NotificationLimit THEN Len(all) ELSE NotificationLimit
<1>1. note \in Notification /\ <<note>> \in Seq(Notification) /\ note.caseId = c
      /\ Len(<<note>>) = 1 /\ <<note>>[1] = note
  BY DEF Notification
<1>2. /\ notifications \in Seq(Notification)
      /\ \A m \in 1..Len(notifications) : notifications[m] \in Notification
                                          /\ Exists(notifications[m].caseId)
  BY ElementOfSeq DEF NotesOK
<1>3. notifications' = SubSeq(all, 1, n)
  BY DEF PushNotification
<1> HIDE DEF note
<1>4. /\ all \in Seq(Notification) /\ Len(all) = 1 + Len(notifications)
      /\ Len(notifications) \in Nat /\ Len(all) \in Nat
      /\ \A m \in 1..Len(all) : all[m] = IF m <= 1 THEN note ELSE notifications[m - 1]
  BY <1>1, <1>2, ConcatProperties, LenProperties
<1> HIDE DEF all
<1>5. \A m \in 1..Len(all) : all[m] \in Notification /\ store'[all[m].caseId] # NoRecord
  <2> SUFFICES ASSUME NEW m \in 1..Len(all)
               PROVE  all[m] \in Notification /\ store'[all[m].caseId] # NoRecord
    OBVIOUS
  <2>1. CASE m = 1
    BY <1>1, <1>4, <2>1 DEF Exists
  <2>2. CASE m # 1
    <3>1. m - 1 \in 1..Len(notifications) /\ all[m] = notifications[m - 1]
      BY <1>4, <2>2
    <3>2. all[m] \in Notification /\ Exists(all[m].caseId) /\ all[m].caseId \in Cases
      BY <1>2, <3>1 DEF Notification
    <3> QED
      BY <3>2 DEF Exists
  <2> QED
    BY <2>1, <2>2
<1>6. n \in Nat /\ n <= Len(all) /\ n <= NotificationLimit /\ 1 <= n
  BY <1>4, NotificationLimitAssumption
<1> HIDE DEF n
<1>7. /\ notifications' \in Seq(Notification) /\ Len(notifications') = n
      /\ \A m \in 1..n : notifications'[m] = all[m]
  <2>1. \A m \in 1..n : all[m] \in Notification /\ m \in 1..Len(all)
    BY <1>4, <1>5, <1>6
  <2>2. /\ SubSeq(all, 1, n) \in Seq(Notification)
        /\ Len(SubSeq(all, 1, n)) = IF 1 <= n THEN n - 1 + 1 ELSE 0
        /\ \A m \in 1..n - 1 + 1 : SubSeq(all, 1, n)[m] = all[1 + m - 1]
    BY <1>6, <2>1, SubSeqProperties
  <2>3. n - 1 + 1 = n /\ \A m \in 1..n : 1 + m - 1 = m
    BY <1>6
  <2> QED
    BY <1>3, <1>6, <2>2, <2>3
<1>8. \A m \in 1..n : m \in 1..Len(all)
  BY <1>4, <1>6
<1> QED
  BY <1>5, <1>6, <1>7, <1>8 DEF NotesOK, Exists

\* Notifications stay right while no case is dropped.
LEMMA NotesStay ==
  ASSUME NotesOK, \A d \in Cases : Exists(d) => Exists(d)', UNCHANGED notifications
  PROVE  NotesOK'
<1>1. \A n \in 1..Len(notifications) : notifications[n].caseId \in Cases
  <2>1. \A n \in 1..Len(notifications) : notifications[n] \in Notification
    BY ElementOfSeq DEF NotesOK
  <2> QED
    BY <2>1 DEF Notification
<1> QED
  BY <1>1 DEF NotesOK, Exists

LEMMA AwaitKeeps ==
  ASSUME TasksOK, uuid \in Nat, NEW t \in Tasks, NEW p \in Tabs,
         NEW op \in Op \ {"idle", "load"}, NEW r, NEW status, Pending(r, status),
         status = IF op = "received" \/ (op = "stage" /\ r.govStage = "RESPONSE_RELEASED")
                  THEN "RESPONSE_RELEASED" ELSE r.status,
         Await(t, p, op, r)
  PROVE  TasksOK' /\ uuid' \in Nat
<1> DEFINE x == [op |-> op, tab |-> p, record |-> r]
<1>1. x \in Task /\ x.op = op /\ x.tab = p /\ x.record = r
  BY DEF Task, Pending, Agrees
<1>2. task' = [task EXCEPT ![t] = x] /\ uuid' = uuid + 1
  BY DEF Await
<1> HIDE DEF x
<1>3. InFlight(x)
  BY <1>1 DEF InFlight, StatusDue
<1>4. task' \in [Tasks -> Task] /\ \A u \in Tasks : task'[u] = IF u = t THEN x ELSE task[u]
  BY <1>1, <1>2 DEF TasksOK
<1> QED
  BY <1>2, <1>3, <1>4 DEF TasksOK

LEMMA IdleOK == Idle \in Task /\ InFlight(Idle)
  BY DEF Idle, Task, Op, InFlight

LEMMA DoneKeeps ==
  ASSUME TasksOK, uuid \in Nat, NEW t \in Tasks, Done(t)
  PROVE  TasksOK' /\ uuid' \in Nat
<1>1. task' \in [Tasks -> Task] /\ \A u \in Tasks : task'[u] = IF u = t THEN Idle ELSE task[u]
  BY IdleOK DEF TasksOK, Done
<1> QED
  BY <1>1, IdleOK DEF TasksOK, Done

\* One more event on a good record r: b is r as changed in memory, q is b with
\* the event, and status what the trail then says.
Follows(r, b, id, type, stage, doc, status, q) ==
  LET e == [id |-> id, type |-> type, stage |-> stage, doc |-> doc]
  IN /\ Good(r) /\ b \in CaseRecord
     /\ b.events = r.events /\ b.trailVersion = r.trailVersion /\ b.suchnaId = r.suchnaId
     /\ id \in Nat /\ type \in CaseEventType /\ stage \in GovStage \cup {"NONE"} /\ doc \in Nat
     /\ q = Appended(b, id, type, stage, doc)
     /\ b.govStage = IF type = "GOV_STAGE_CHANGED" THEN stage ELSE r.govStage
     /\ b.evidence = IF type = "DOCUMENT_ADDED" THEN r.evidence \cup {doc} ELSE r.evidence
     /\ status = IF IsStatusEvent(e) THEN StatusGivenBy(e) ELSE r.status

LEMMA PendingAfter ==
  ASSUME NEW r, NEW b, NEW id, NEW type, NEW stage, NEW doc, NEW status, NEW q,
         Follows(r, b, id, type, stage, doc, status, q)
  PROVE  /\ Pending(q, status)
         /\ q.suchnaId = b.suchnaId /\ q.status = b.status /\ q.govStage = b.govStage
<1> USE DEF Follows
<1> DEFINE e == [id |-> id, type |-> type, stage |-> stage, doc |-> doc]
<1>1. /\ q \in CaseRecord /\ e \in Content
      /\ Contents(q) = Append(Contents(b), e)
      /\ Len(q.events) = Len(b.events) + 1
      /\ q.suchnaId = b.suchnaId /\ q.status = b.status /\ q.govStage = b.govStage
      /\ q.evidence = b.evidence /\ q.trailVersion = b.trailVersion
  BY AppendedIs
<1>2. e.type = type /\ e.stage = stage /\ e.doc = doc
  OBVIOUS
<1>3. status = IF IsStatusEvent(e) THEN StatusGivenBy(e) ELSE r.status
  OBVIOUS
<1>a. /\ Good(r) /\ b.events = r.events /\ b.trailVersion = r.trailVersion
      /\ b.suchnaId = r.suchnaId
      /\ b.govStage = IF type = "GOV_STAGE_CHANGED" THEN stage ELSE r.govStage
      /\ b.evidence = IF type = "DOCUMENT_ADDED" THEN r.evidence \cup {doc} ELSE r.evidence
  OBVIOUS
<1> HIDE DEF e, Follows
<1>4. /\ r \in CaseRecord /\ Contents(b) = Contents(r) /\ Contents(r) \in Seq(Content)
      /\ StageGiven(Contents(r), r.suchnaId, r.govStage)
      /\ StatusGiven(Contents(r), r.status)
      /\ r.evidence = DocsNamed(Contents(r))
      /\ r.trailVersion = Len(r.events)
  BY <1>a, ContentsType DEF Good, Agrees, Verified, Contents
<1>5. /\ e \in StageEvents <=> type = "GOV_STAGE_CHANGED"
      /\ e \in StatusEvents <=> IsStatusEvent(e)
  BY <1>1, <1>2 DEF StageEvents, IsStageEvent, StatusEvents
<1>6. StageGiven(Contents(q), q.suchnaId, q.govStage)
  BY <1>1, <1>2, <1>4, <1>5, <1>a, GivenAppend
<1>7. StatusGiven(Contents(q), status)
  BY <1>1, <1>3, <1>4, <1>5, GivenAppend
<1>8. q.evidence = DocsNamed(Contents(q))
  BY <1>1, <1>2, <1>4, <1>a, GivenAppend
<1> QED
  BY <1>1, <1>4, <1>6, <1>7, <1>8, <1>a DEF Pending, Agrees

\* The four kinds of event an operation appends to a record it has read.
LEMMA PendingStatus ==
  ASSUME NEW r, Good(r), NEW b \in CaseRecord,
         b.events = r.events, b.trailVersion = r.trailVersion, b.suchnaId = r.suchnaId,
         b.govStage = r.govStage, b.evidence = r.evidence,
         NEW id \in Nat, NEW type, NEW status,
         \/ type = "REQUEST_SUBMITTED" /\ status = "SUBMITTED"
         \/ type = "APPEAL_PREPARED" /\ status = "FIRST_APPEAL"
         \/ type = "RESPONSE_RECEIVED" /\ status = "RESPONSE_RELEASED",
         NEW q, q = Appended(b, id, type, "NONE", 0)
  PROVE  /\ Pending(q, status)
         /\ q.suchnaId = b.suchnaId /\ q.status = b.status /\ q.govStage = b.govStage
<1>1. /\ type \in CaseEventType /\ "NONE" \in GovStage \cup {"NONE"} /\ 0 \in Nat
      /\ type # "GOV_STAGE_CHANGED" /\ type # "DOCUMENT_ADDED"
  BY DEF CaseEventType
<1>2. LET e == [id |-> id, type |-> type, stage |-> "NONE", doc |-> 0]
      IN IsStatusEvent(e) /\ StatusGivenBy(e) = status
  BY DEF IsStatusEvent, StatusGivenBy
<1>3. Follows(r, b, id, type, "NONE", 0, status, q)
  BY <1>1, <1>2 DEF Follows
<1> QED
  BY <1>3, PendingAfter

LEMMA PendingPlain ==
  ASSUME NEW r, Good(r), NEW id \in Nat, NEW q, q = Appended(r, id, "APPEAL_SUBMITTED", "NONE", 0)
  PROVE  /\ Pending(q, r.status)
         /\ q.suchnaId = r.suchnaId /\ q.status = r.status /\ q.govStage = r.govStage
<1>1. /\ "APPEAL_SUBMITTED" \in CaseEventType /\ "NONE" \in GovStage \cup {"NONE"} /\ 0 \in Nat
      /\ "APPEAL_SUBMITTED" # "GOV_STAGE_CHANGED" /\ "APPEAL_SUBMITTED" # "DOCUMENT_ADDED"
      /\ r \in CaseRecord
  BY DEF CaseEventType, Good, Agrees
<1>2. ~IsStatusEvent([id |-> id, type |-> "APPEAL_SUBMITTED", stage |-> "NONE", doc |-> 0])
  BY DEF IsStatusEvent
<1>3. Follows(r, r, id, "APPEAL_SUBMITTED", "NONE", 0, r.status, q)
  BY <1>1, <1>2 DEF Follows
<1> QED
  BY <1>3, PendingAfter

LEMMA PendingStage ==
  ASSUME NEW r, Good(r), NEW next \in GovStage, NEW b, b = [r EXCEPT !.govStage = next],
         NEW id \in Nat, NEW q, q = Appended(b, id, "GOV_STAGE_CHANGED", next, 0)
  PROVE  /\ Pending(q, IF next = "RESPONSE_RELEASED" THEN "RESPONSE_RELEASED" ELSE r.status)
         /\ q.suchnaId = r.suchnaId /\ q.status = r.status /\ q.govStage = next
<1>1. /\ "GOV_STAGE_CHANGED" \in CaseEventType /\ next \in GovStage \cup {"NONE"} /\ 0 \in Nat
      /\ "GOV_STAGE_CHANGED" # "DOCUMENT_ADDED"
  BY DEF CaseEventType
<1>2. r \in CaseRecord
  BY DEF Good, Agrees
<1>3. /\ b \in CaseRecord /\ b.events = r.events /\ b.trailVersion = r.trailVersion
      /\ b.suchnaId = r.suchnaId /\ b.govStage = next /\ b.status = r.status
      /\ b.evidence = r.evidence
  BY <1>2 DEF CaseRecord
<1>4. LET e == [id |-> id, type |-> "GOV_STAGE_CHANGED", stage |-> next, doc |-> 0]
      IN /\ IsStatusEvent(e) <=> next = "RESPONSE_RELEASED"
         /\ StatusGivenBy(e) = "RESPONSE_RELEASED"
  BY DEF IsStatusEvent, StatusGivenBy
<1>5. Follows(r, b, id, "GOV_STAGE_CHANGED", next, 0,
              IF next = "RESPONSE_RELEASED" THEN "RESPONSE_RELEASED" ELSE r.status, q)
  BY <1>1, <1>3, <1>4 DEF Follows
<1>6. /\ Pending(q, IF next = "RESPONSE_RELEASED" THEN "RESPONSE_RELEASED" ELSE r.status)
      /\ q.suchnaId = b.suchnaId /\ q.status = b.status /\ q.govStage = b.govStage
  BY ONLY <1>5, PendingAfter
<1> QED
  BY <1>3, <1>6

LEMMA PendingDocument ==
  ASSUME NEW r, Good(r), NEW id \in Nat, NEW b, b = [r EXCEPT !.evidence = r.evidence \cup {id}],
         NEW q, q = Appended(b, id, "DOCUMENT_ADDED", "NONE", id)
  PROVE  /\ Pending(q, r.status)
         /\ q.suchnaId = r.suchnaId /\ q.status = r.status /\ q.govStage = r.govStage
<1>1. /\ "DOCUMENT_ADDED" \in CaseEventType /\ "NONE" \in GovStage \cup {"NONE"}
      /\ "DOCUMENT_ADDED" # "GOV_STAGE_CHANGED"
  BY DEF CaseEventType
<1>2. r \in CaseRecord
  BY DEF Good, Agrees
<1>3. /\ b \in CaseRecord /\ b.events = r.events /\ b.trailVersion = r.trailVersion
      /\ b.suchnaId = r.suchnaId /\ b.govStage = r.govStage /\ b.status = r.status
      /\ b.evidence = r.evidence \cup {id}
  BY <1>2 DEF CaseRecord
<1>4. ~IsStatusEvent([id |-> id, type |-> "DOCUMENT_ADDED", stage |-> "NONE", doc |-> id])
  BY DEF IsStatusEvent
<1>5. Follows(r, b, id, "DOCUMENT_ADDED", "NONE", id, r.status, q)
  BY <1>1, <1>3, <1>4 DEF Follows
<1>6. /\ Pending(q, r.status)
      /\ q.suchnaId = b.suchnaId /\ q.status = b.status /\ q.govStage = b.govStage
  BY ONLY <1>5, PendingAfter
<1> QED
  BY <1>3, <1>6

\* The first event of a new case.
LEMMA PendingNew ==
  ASSUME NEW c \in Cases, c # SeedCase, NEW id \in Nat
  PROVE  LET q == Appended(NewRecord(c), id, "REQUEST_CREATED", "NONE", 0)
         IN Pending(q, q.status)
<1> DEFINE b == NewRecord(c)
           e == [id |-> id, type |-> "REQUEST_CREATED", stage |-> "NONE", doc |-> 0]
           q == Appended(b, id, "REQUEST_CREATED", "NONE", 0)
<1>1. b = [NoRecord EXCEPT !.suchnaId = c]
  BY DEF NewRecord
<1>2. "RECEIVED" \in GovStage
  <2>1. GOV_STAGE_ORDER[1] = "RECEIVED" /\ 1 \in 1..7
    BY DEF GOV_STAGE_ORDER
  <2> QED
    BY <2>1 DEF GovStage
<1>3. /\ b \in CaseRecord /\ Contents(b) = <<>>
      /\ b.suchnaId = c /\ b.status = "DRAFT" /\ b.govStage = "RECEIVED" /\ b.events = <<>>
      /\ b.trailVersion = 0 /\ b.evidence = {}
  <2>1. NoRecord \in [ suchnaId : Cases \cup {NoCase}, status : CaseStatus, govStage : GovStage,
                       events : Seq(CaseEvent), trailVersion : Nat, evidence : SUBSET Nat,
                       audit : SUBSET AuditAction, checked : SUBSET ChecklistItems ]
        /\ NoRecord.status = "DRAFT" /\ NoRecord.govStage = "RECEIVED"
        /\ NoRecord.events = <<>> /\ NoRecord.trailVersion = 0 /\ NoRecord.evidence = {}
    BY <1>2 DEF NoRecord, CaseStatus
  <2> HIDE DEF b
  <2>2. /\ b \in CaseRecord
        /\ b.suchnaId = c /\ b.status = "DRAFT" /\ b.govStage = "RECEIVED" /\ b.events = <<>>
        /\ b.trailVersion = 0 /\ b.evidence = {}
    BY <1>1, <2>1 DEF CaseRecord
  <2> QED
    BY <2>2 DEF Contents
<1>4. /\ q \in CaseRecord /\ e \in Content
      /\ Contents(q) = Append(Contents(b), e)
      /\ Len(q.events) = Len(b.events) + 1
      /\ q.suchnaId = c /\ q.status = "DRAFT" /\ q.govStage = "RECEIVED"
      /\ q.evidence = {} /\ q.trailVersion = 0
  <2>1. "REQUEST_CREATED" \in CaseEventType /\ "NONE" \in GovStage \cup {"NONE"} /\ 0 \in Nat
    BY DEF CaseEventType
  <2> HIDE DEF b
  <2>2. /\ q \in CaseRecord /\ e \in Content
        /\ Contents(q) = Append(Contents(b), e)
        /\ Len(q.events) = Len(b.events) + 1
        /\ q.suchnaId = b.suchnaId /\ q.status = b.status /\ q.govStage = b.govStage
        /\ q.evidence = b.evidence /\ q.trailVersion = b.trailVersion
    <3>1. \A i \in Nat, type \in CaseEventType, stage \in GovStage \cup {"NONE"}, doc \in Nat :
             LET u == Appended(b, i, type, stage, doc)
                 x == [id |-> i, type |-> type, stage |-> stage, doc |-> doc]
             IN /\ u \in CaseRecord /\ x \in Content
                /\ Contents(u) = Append(Contents(b), x)
                /\ Len(u.events) = Len(b.events) + 1
                /\ u.suchnaId = b.suchnaId /\ u.status = b.status /\ u.govStage = b.govStage
                /\ u.evidence = b.evidence /\ u.trailVersion = b.trailVersion
      BY <1>3, AppendedIs
    <3> QED
      BY <2>1, <3>1, Zenon
  <2> QED
    BY <1>3, <2>2
<1>5. /\ FirstStage(c) = "RECEIVED"
      /\ e.type = "REQUEST_CREATED" /\ Len(b.events) = 0
  BY <1>3 DEF FirstStage
<1>6. e \notin StageEvents /\ e \in StatusEvents /\ StatusGivenBy(e) = "DRAFT"
  BY <1>4, <1>5 DEF StageEvents, IsStageEvent, StatusEvents, IsStatusEvent, StatusGivenBy
<1> HIDE DEF e, q, b
<1>7. <<>> \in Seq(Content) /\ StageGiven(<<>>, c, "RECEIVED") /\ DocsNamed(<<>>) = {}
  BY <1>5 DEF StageGiven, NoneOf, DocsNamed
<1>8. /\ StageGiven(Contents(q), c, "RECEIVED") /\ StatusGiven(Contents(q), "DRAFT")
      /\ DocsNamed(Contents(q)) = {}
  <2>1. Contents(q) = Append(<<>>, e)
    BY <1>3, <1>4
  <2>2. /\ e \notin StageEvents =>
             \A d, stage : StageGiven(<<>>, d, stage) => StageGiven(Append(<<>>, e), d, stage)
        /\ e \in StatusEvents => StatusGiven(Append(<<>>, e), StatusGivenBy(e))
        /\ DocsNamed(Append(<<>>, e)) =
             IF e.type = "DOCUMENT_ADDED" THEN DocsNamed(<<>>) \cup {e.doc} ELSE DocsNamed(<<>>)
    BY <1>4, <1>7, GivenAppend
  <2> QED
    BY <1>5, <1>6, <1>7, <2>1, <2>2
<1> QED
  BY <1>4, <1>5, <1>8 DEF Pending, Agrees, q, b

\* The seeded case says what its trail says.
LEMMA SeedGood == SeedCase \in Cases => Good(SeedRecord) /\ SeedRecord.suchnaId = SeedCase
<1> SUFFICES ASSUME SeedCase \in Cases
             PROVE  Good(SeedRecord) /\ SeedRecord.suchnaId = SeedCase
  OBVIOUS
<1> DEFINE raw == [n \in 1..4 |->
             [content |-> [id |-> 0, type |-> SeedTypes[n], stage |-> "NONE", doc |-> 0],
              hash |-> <<>>]]
<1>1. \A n \in 1..4 : SeedTypes[n] \in CaseEventType /\ SeedTypes[n] # "GOV_STAGE_CHANGED"
                      /\ SeedTypes[n] # "DOCUMENT_ADDED"
  BY DEF SeedTypes, CaseEventType
<1>2. SeedTypes[4] = "DEADLINE_MISSED"
  BY DEF SeedTypes
<1>3. \A n \in 1..4 : raw[n].content = [id |-> 0, type |-> SeedTypes[n], stage |-> "NONE", doc |-> 0]
  OBVIOUS
<1>4. \A n \in 1..4 : raw[n] \in CaseEvent
  BY <1>1 DEF CaseEvent, Content
<1>5. raw \in Seq(CaseEvent) /\ Len(raw) = 4 /\ DOMAIN raw = 1..4
  BY <1>4
<1>6. SeedEvents = ComputeHashChain(raw)
  BY DEF SeedEvents
<1> HIDE DEF raw
<1>7. /\ SeedEvents \in Seq(CaseEvent) /\ Len(SeedEvents) = 4 /\ VerifyTrail(SeedEvents)
      /\ \A n \in 1..4 : SeedEvents[n].content =
                           [id |-> 0, type |-> SeedTypes[n], stage |-> "NONE", doc |-> 0]
  BY <1>3, <1>5, <1>6, ChainVerifies
<1>8. "UNDER_REVIEW" \in GovStage
  <2>1. GOV_STAGE_ORDER[2] = "UNDER_REVIEW" /\ 2 \in 1..7
    BY DEF GOV_STAGE_ORDER
  <2> QED
    BY <2>1 DEF GovStage
<1>9. /\ SeedRecord.suchnaId = SeedCase /\ SeedRecord.status = "OVERDUE"
      /\ SeedRecord.govStage = "UNDER_REVIEW" /\ SeedRecord.events = SeedEvents
      /\ SeedRecord.trailVersion = 4 /\ SeedRecord.evidence = {}
      /\ SeedRecord \in CaseRecord
  <2> HIDE DEF SeedEvents
  <2> QED
    BY <1>7, <1>8 DEF SeedRecord, CaseRecord, CaseStatus
<1> DEFINE s == Contents(SeedRecord)
<1>10. /\ DOMAIN s = 1..4
       /\ \A n \in 1..4 : s[n] = [id |-> 0, type |-> SeedTypes[n], stage |-> "NONE", doc |-> 0]
  <2>1. DOMAIN SeedEvents = 1..4
    BY <1>7, LenProperties
  <2> QED
    BY <1>7, <1>9, <2>1 DEF Contents
<1>11. s \in Seq(Content)
  BY <1>9, ContentsType
<1> HIDE DEF s
<1>12. \A n \in 1..4 : s[n] \in Content /\ s[n].type = SeedTypes[n] /\ s[n].stage = "NONE"
  BY <1>1, <1>10 DEF Content
<1>13. StageGiven(s, SeedCase, "UNDER_REVIEW")
  BY <1>1, <1>9, <1>10, <1>12 DEF StageGiven, NoneOf, StageEvents, IsStageEvent, FirstStage
<1>14. StatusGiven(s, "OVERDUE")
  <2>1. 4 \in 1..4 /\ s[4] \in StatusEvents /\ StatusGivenBy(s[4]) = "OVERDUE"
    BY <1>2, <1>12 DEF StatusEvents, IsStatusEvent, StatusGivenBy
  <2>2. IsLast(s, StatusEvents, 4)
    BY <1>10, <2>1 DEF IsLast
  <2> QED
    BY <1>10, <2>1, <2>2 DEF StatusGiven
<1>15. DocsNamed(s) = {}
  BY <1>1, <1>10, <1>12 DEF DocsNamed
<1> QED
  BY <1>7, <1>9, <1>13, <1>14, <1>15 DEF Good, Agrees, Verified, s
-----------------------------------------------------------------------------
(* Each action keeps the inductive invariant.                              *)

LEMMA InvInit == Init => IInv
<1> SUFFICES ASSUME Init PROVE IInv
  OBVIOUS
<1>1. StoreWell(store)
  BY DEF Init, StoreWell
<1>2. PagesOK
  BY DEF Init, PagesOK, NoPage, Page
<1>3. CopiesOK
  <2>1. NoCopy \in CitizenCopy /\ NoCopy.events = <<>> /\ NoCopy.trailVersion = 0
    BY DEF NoCopy, CitizenCopy
  <2>2. Verified(NoCopy)
    BY <2>1 DEF Verified, VerifyTrail
  <2> QED
    BY <2>1, <2>2 DEF Init, CopiesOK
<1>4. TasksOK
  BY IdleOK DEF Init, TasksOK
<1>5. NotesOK
  BY NotificationLimitAssumption DEF Init, NotesOK
<1> QED
  BY <1>1, <1>2, <1>3, <1>4, <1>5 DEF Init, IInv

\* The task a Finish action takes up.
LEMMA TakenUp ==
  ASSUME TasksOK, NEW t \in Tasks, task[t].op \notin {"idle", "load"}
  PROVE  /\ task[t].tab \in Tabs /\ task[t].op \in Op
         /\ Pending(task[t].record, StatusDue(task[t]))
         /\ StatusDue(task[t]) \in CaseStatus
<1>1. task[t] \in Task /\ task[t].op \in Op /\ InFlight(task[t])
  BY DEF TasksOK, Task
<1>2. task[t] # Idle
  BY DEF Idle
<1>3. task[t].tab \in Tabs /\ Pending(task[t].record, StatusDue(task[t]))
  BY <1>1, <1>2 DEF InFlight
<1>4. task[t].record.status \in CaseStatus
  BY <1>3 DEF Pending, Agrees, CaseRecord
<1>5. StatusDue(task[t]) \in CaseStatus
  BY <1>4 DEF StatusDue, CaseStatus
<1> QED
  BY <1>1, <1>3, <1>5

\* What is stored may be read as a good record.
LEMMA StoredIs ==
  ASSUME StoreWell(store), NEW c \in Cases, Exists(c)
  PROVE  store[c] \in CaseRecord /\ Good(store[c]) /\ store[c].suchnaId = c /\ Verified(store[c])
  BY DEF StoreWell, Exists, Good

LEMMA StageAfter == \A g, next : next \in NextGovStage(g) => next \in GovStage
  BY DEF NextGovStage, GovStage

LEMMA CreateKeeps ==
  ASSUME IInv, NEW t \in Tasks, NEW p \in Tabs, NEW c \in Cases, CreateCase(t, p, c)
  PROVE  IInv'
<1>1. /\ c # SeedCase /\ uuid \in Nat
      /\ Await(t, p, "create", Appended(NewRecord(c), uuid, "REQUEST_CREATED", "NONE", 0))
      /\ UNCHANGED <<store, notifications, demo, copies, page>>
  BY DEF CreateCase, IInv
<1> DEFINE r == Appended(NewRecord(c), uuid, "REQUEST_CREATED", "NONE", 0)
<1>2. Pending(r, r.status) /\ Await(t, p, "create", r)
  BY <1>1, PendingNew
<1> HIDE DEF r
<1>3. TasksOK' /\ uuid' \in Nat
  <2>1. "create" \in Op \ {"idle", "load"}
    BY DEF Op
  <2> QED
    BY <1>2, <2>1, AwaitKeeps DEF IInv
<1>4. StoreWell(store)' /\ PagesOK' /\ CopiesOK' /\ NotesOK' /\ demo' \in BOOLEAN
  BY <1>1 DEF IInv, StoreWell, PagesOK, CopiesOK, NotesOK, Exists
<1> QED
  BY <1>3, <1>4 DEF IInv

LEMMA FinishCreateKeeps ==
  ASSUME IInv, NEW t \in Tasks, FinishCreate(t)
  PROVE  IInv'
<1> DEFINE p == task[t].tab
           r == Settled(task[t].record)
           b == [r EXCEPT !.status = "SUBMITTED"]
           q == Appended(b, uuid, "REQUEST_SUBMITTED", "NONE", 0)
<1>1. /\ task[t].op = "create" /\ Write(p, Saved(r)) /\ Await(t, p, "submit", q)
      /\ UNCHANGED <<notifications, demo>>
  BY DEF FinishCreate
<1>2. /\ p \in Tabs /\ Pending(task[t].record, task[t].record.status)
      /\ task[t].record.status \in CaseStatus
  BY <1>1, TakenUp DEF IInv, StatusDue
<1>3. Good(r)
  BY <1>2, SettledGood
<1> HIDE DEF p, r
<1>4. r \in CaseRecord /\ StoreWell(Saved(r))
      /\ \A c \in Cases : Exists(c) => Saved(r)[c] # NoRecord
  BY <1>3, SavedWell DEF IInv, Exists
<1>5. StoreWell(store') /\ PagesOK' /\ CopiesOK' /\ store' = Saved(r)
  BY <1>1, <1>2, <1>4, WriteKeeps DEF IInv
<1>6. NotesOK'
  BY <1>1, <1>4, <1>5, NotesStay DEF IInv, Exists
<1>7. Pending(q, q.status)
  <2>1. /\ b \in CaseRecord /\ b.events = r.events /\ b.trailVersion = r.trailVersion
        /\ b.suchnaId = r.suchnaId /\ b.status = "SUBMITTED" /\ b.govStage = r.govStage
        /\ b.evidence = r.evidence
    BY <1>4 DEF CaseRecord, CaseStatus
  <2> HIDE DEF b
  <2>2. uuid \in Nat /\ q = Appended(b, uuid, "REQUEST_SUBMITTED", "NONE", 0)
    BY DEF IInv
  <2> HIDE DEF q
  <2>3. Pending(q, "SUBMITTED") /\ q.status = b.status
    BY <1>3, <2>1, <2>2, PendingStatus
  <2> QED
    BY <2>1, <2>3
<1> HIDE DEF q
<1>8. TasksOK' /\ uuid' \in Nat
  <2>1. "submit" \in Op \ {"idle", "load"}
    BY DEF Op
  <2> QED
    BY <1>1, <1>2, <1>7, <2>1, AwaitKeeps DEF IInv
<1> QED
  BY <1>1, <1>5, <1>6, <1>8 DEF IInv

LEMMA FinishSubmitKeeps ==
  ASSUME IInv, NEW t \in Tasks, FinishSubmit(t)
  PROVE  IInv'
<1> DEFINE p == task[t].tab
           r == Settled(task[t].record)
<1>1. /\ task[t].op = "submit" /\ store' = Saved(r)
      /\ copies' = [copies EXCEPT ![r.suchnaId] = CopyOf(r)]
      /\ page' = [page EXCEPT ![p] = [layout |-> "citizen", route |-> r.suchnaId, record |-> r]]
      /\ PushNotification(r.suchnaId, "submitted")
      /\ Done(t) /\ UNCHANGED demo
  BY DEF FinishSubmit
<1>2. /\ p \in Tabs /\ Pending(task[t].record, task[t].record.status)
      /\ task[t].record.status \in CaseStatus
  BY <1>1, TakenUp DEF IInv, StatusDue
<1>3. Good(r) /\ Verified(r)
  BY <1>2, SettledGood DEF Good
<1> HIDE DEF p, r
<1>4. /\ r \in CaseRecord /\ r.suchnaId \in Cases /\ StoreWell(Saved(r))
      /\ Saved(r)[r.suchnaId] = r /\ r # NoRecord
      /\ \A c \in Cases : Exists(c) => Saved(r)[c] # NoRecord
  BY <1>3, SavedWell, NoRecordFacts DEF IInv, Exists
<1>5. StoreWell(store')
  BY <1>1, <1>4
<1>6. PagesOK'
  BY <1>1, <1>2, <1>3, <1>4, PageOpens DEF IInv
<1>7. CopiesOK'
  BY <1>1, <1>3, <1>4, CopyTaken DEF IInv
<1>8. NotesOK'
  BY <1>1, <1>4, PushKeeps DEF IInv, Exists
<1>9. TasksOK' /\ uuid' \in Nat
  BY <1>1, DoneKeeps DEF IInv
<1> QED
  BY <1>1, <1>5, <1>6, <1>7, <1>8, <1>9 DEF IInv

LEMMA OpenCitizenKeeps ==
  ASSUME IInv, NEW p \in Tabs, NEW c \in Cases, OpenCitizenCase(p, c)
  PROVE  IInv'
<1>1. /\ Exists(c)
      /\ page' = [page EXCEPT ![p] = [layout |-> "citizen", route |-> c, record |-> store[c]]]
      /\ copies' = [copies EXCEPT ![c] = CopyOf(store[c])]
      /\ UNCHANGED <<store, notifications, demo, task, uuid>>
  BY DEF OpenCitizenCase
<1>2. store[c] \in CaseRecord /\ store[c].suchnaId = c /\ Verified(store[c])
  BY <1>1, StoredIs DEF IInv
<1>3. PagesOK'
  BY <1>1, <1>2, PageOpens DEF IInv
<1>4. CopiesOK'
  BY <1>1, <1>2, CopyTaken DEF IInv
<1>5. StoreWell(store)' /\ TasksOK' /\ NotesOK'
  BY <1>1 DEF IInv, StoreWell, TasksOK, NotesOK, Exists
<1> QED
  BY <1>1, <1>3, <1>4, <1>5 DEF IInv

LEMMA SyncKeeps ==
  ASSUME IInv, NEW p \in Tabs, SyncOfflineRecord(p)
  PROVE  IInv'
<1>1. /\ page[p].layout = "citizen" /\ page[p].record # NoRecord
      /\ copies' = [copies EXCEPT ![page[p].route] = CopyOf(page[p].record)]
      /\ UNCHANGED <<store, notifications, demo, page, task, uuid>>
  BY DEF SyncOfflineRecord
<1>2. page[p].record \in CaseRecord /\ Verified(page[p].record) /\ page[p].route \in Cases
  BY <1>1 DEF IInv, PagesOK, Page
<1>3. CopiesOK'
  BY <1>1, <1>2, CopyTaken DEF IInv
<1>4. StoreWell(store)' /\ PagesOK' /\ TasksOK' /\ NotesOK'
  BY <1>1 DEF IInv, StoreWell, PagesOK, TasksOK, NotesOK, Exists
<1> QED
  BY <1>1, <1>3, <1>4 DEF IInv

\* An operation that begins on a stored case and writes nothing yet.
LEMMA BeginKeeps ==
  ASSUME IInv, NEW t \in Tasks, NEW p \in Tabs, NEW op \in Op \ {"idle", "load"}, NEW r,
         NEW status, Pending(r, status),
         status = IF op = "received" \/ (op = "stage" /\ r.govStage = "RESPONSE_RELEASED")
                  THEN "RESPONSE_RELEASED" ELSE r.status,
         Await(t, p, op, r), UNCHANGED <<store, notifications, demo, copies, page>>
  PROVE  IInv'
<1>1. TasksOK' /\ uuid' \in Nat
  BY AwaitKeeps DEF IInv
<1>2. StoreWell(store)' /\ PagesOK' /\ CopiesOK' /\ NotesOK' /\ demo' \in BOOLEAN
  BY DEF IInv, StoreWell, PagesOK, CopiesOK, NotesOK, Exists
<1> QED
  BY <1>1, <1>2 DEF IInv

LEMMA FileAppealKeeps ==
  ASSUME IInv, NEW t \in Tasks, NEW p \in Tabs, FileFirstAppeal(t, p)
  PROVE  IInv'
<1> DEFINE c == page[p].route
           b == [store[c] EXCEPT !.status = "FIRST_APPEAL"]
           q == Appended(b, uuid, "APPEAL_PREPARED", "NONE", 0)
<1>1. /\ page[p].layout = "citizen" /\ Exists(c) /\ Await(t, p, "appeal", q)
      /\ UNCHANGED <<store, notifications, demo, copies, page>>
  BY DEF FileFirstAppeal
<1>2. c \in Cases
  BY <1>1 DEF IInv, PagesOK
<1> HIDE DEF c
<1>3. store[c] \in CaseRecord /\ Good(store[c])
  BY <1>1, <1>2, StoredIs DEF IInv
<1>4. /\ b \in CaseRecord /\ b.events = store[c].events /\ b.trailVersion = store[c].trailVersion
      /\ b.suchnaId = store[c].suchnaId /\ b.status = "FIRST_APPEAL"
      /\ b.govStage = store[c].govStage /\ b.evidence = store[c].evidence
  BY <1>3 DEF CaseRecord, CaseStatus
<1> HIDE DEF b
<1>5. uuid \in Nat /\ q = Appended(b, uuid, "APPEAL_PREPARED", "NONE", 0) /\ "appeal" \in Op \ {"idle", "load"}
  BY DEF IInv, Op
<1> HIDE DEF q
<1>6. Pending(q, "FIRST_APPEAL") /\ q.status = b.status
  BY <1>3, <1>4, <1>5, PendingStatus
<1> QED
  BY <1>1, <1>4, <1>5, <1>6, BeginKeeps

LEMMA FinishAppealKeeps ==
  ASSUME IInv, NEW t \in Tasks, FinishAppeal(t)
  PROVE  IInv'
<1> DEFINE p == task[t].tab
           r == Settled(task[t].record)
           q == Appended(r, uuid, "APPEAL_SUBMITTED", "NONE", 0)
<1>1. /\ task[t].op = "appeal" /\ Write(p, Saved(r)) /\ PushNotification(r.suchnaId, "appeal")
      /\ Await(t, p, "appealed", q) /\ UNCHANGED demo
  BY DEF FinishAppeal
<1>2. /\ p \in Tabs /\ Pending(task[t].record, task[t].record.status)
      /\ task[t].record.status \in CaseStatus
  BY <1>1, TakenUp DEF IInv, StatusDue
<1>3. Good(r)
  BY <1>2, SettledGood
<1> HIDE DEF p, r
<1>4. /\ r.suchnaId \in Cases /\ r # NoRecord /\ StoreWell(Saved(r)) /\ Saved(r)[r.suchnaId] = r
      /\ \A d \in Cases : Exists(d) => Saved(r)[d] # NoRecord
  BY <1>3, SavedWell, NoRecordFacts DEF IInv, Exists
<1>5. StoreWell(store') /\ PagesOK' /\ CopiesOK' /\ store' = Saved(r)
  BY <1>1, <1>2, <1>4, WriteKeeps DEF IInv
<1>6. NotesOK'
  BY <1>1, <1>4, <1>5, PushKeeps DEF IInv, Exists
<1>7. uuid \in Nat /\ q = Appended(r, uuid, "APPEAL_SUBMITTED", "NONE", 0) /\ "appealed" \in Op \ {"idle", "load"}
  BY DEF IInv, Op
<1> HIDE DEF q
<1>8. Pending(q, r.status) /\ q.status = r.status
  BY <1>3, <1>7, PendingPlain
<1>9. TasksOK' /\ uuid' \in Nat
  BY <1>1, <1>2, <1>7, <1>8, AwaitKeeps DEF IInv
<1> QED
  BY <1>1, <1>5, <1>6, <1>9 DEF IInv

LEMMA OpenGovKeeps ==
  ASSUME IInv, NEW p \in Tabs, NEW c \in Cases, OpenGovCase(p, c)
  PROVE  IInv'
<1> DEFINE saved == WithAudit(store, c, "OPENED")
<1>1. /\ Exists(c) /\ store' = saved
      /\ page' = [page EXCEPT ![p] = [layout |-> "gov", route |-> c, record |-> saved[c]]]
      /\ UNCHANGED <<notifications, demo, copies, task, uuid>>
  BY DEF OpenGovCase
<1>2. /\ StoreWell(saved) /\ saved[c] # NoRecord
      /\ \A d \in Cases : Exists(d) => saved[d] # NoRecord
  BY <1>1, WithAuditWell DEF IInv, AuditAction, Exists
<1> HIDE DEF saved
<1>3. saved[c] \in CaseRecord /\ saved[c].suchnaId = c /\ Verified(saved[c])
  BY <1>2 DEF StoreWell, Good
<1>4. PagesOK'
  BY <1>1, <1>3, PageOpens DEF IInv
<1>5. NotesOK'
  BY <1>1, <1>2, NotesStay DEF IInv, Exists
<1>6. StoreWell(store') /\ CopiesOK' /\ TasksOK'
  BY <1>1, <1>2 DEF IInv, CopiesOK, TasksOK
<1> QED
  BY <1>1, <1>4, <1>5, <1>6 DEF IInv

LEMMA AdvanceKeeps ==
  ASSUME IInv, NEW t \in Tasks, NEW p \in Tabs, AdvanceStage(t, p)
  PROVE  IInv'
<1> DEFINE c == page[p].route
<1>1. PICK next \in NextGovStage(page[p].record.govStage) :
        /\ Write(p, WithAudit(store, c, next))
        /\ Await(t, p, "stage", Appended([store[c] EXCEPT !.govStage = next], uuid,
                                         "GOV_STAGE_CHANGED", next, 0))
  BY DEF AdvanceStage
<1>2. /\ page[p].layout = "gov" /\ Exists(c) /\ UNCHANGED <<notifications, demo>>
  BY DEF AdvanceStage
<1>3. c \in Cases /\ next \in GovStage /\ next \in AuditAction
  BY <1>2, StageAfter DEF IInv, PagesOK, AuditAction
<1> DEFINE b == [store[c] EXCEPT !.govStage = next]
           q == Appended(b, uuid, "GOV_STAGE_CHANGED", next, 0)
<1>4. Await(t, p, "stage", q)
  BY <1>1
<1> HIDE DEF c
<1>5. Good(store[c])
  BY <1>2, <1>3, StoredIs DEF IInv
<1>6. /\ StoreWell(WithAudit(store, c, next))
      /\ \A d \in Cases : Exists(d) => WithAudit(store, c, next)[d] # NoRecord
  BY <1>2, <1>3, WithAuditWell DEF IInv, Exists
<1>7. StoreWell(store') /\ PagesOK' /\ CopiesOK' /\ store' = WithAudit(store, c, next)
  BY <1>1, <1>6, WriteKeeps DEF IInv
<1>8. NotesOK'
  BY <1>2, <1>6, <1>7, NotesStay DEF IInv, Exists
<1>9. /\ uuid \in Nat /\ b = [store[c] EXCEPT !.govStage = next]
      /\ q = Appended(b, uuid, "GOV_STAGE_CHANGED", next, 0) /\ "stage" \in Op \ {"idle", "load"}
  BY DEF IInv, Op
<1> HIDE DEF b, q
<1>10. /\ Pending(q, IF next = "RESPONSE_RELEASED" THEN "RESPONSE_RELEASED" ELSE store[c].status)
       /\ q.status = store[c].status /\ q.govStage = next
  BY <1>3, <1>5, <1>9, PendingStage
<1>11. TasksOK' /\ uuid' \in Nat
  BY <1>4, <1>9, <1>10, AwaitKeeps DEF IInv
<1> QED
  BY <1>2, <1>7, <1>8, <1>11 DEF IInv

\* Writing a settled record and being done.
LEMMA LastWriteKeeps ==
  ASSUME IInv, NEW t \in Tasks, NEW p \in Tabs, NEW saved, StoreWell(saved),
         \A d \in Cases : Exists(d) => saved[d] # NoRecord,
         Write(p, saved), Done(t), UNCHANGED <<notifications, demo>>
  PROVE  IInv'
<1>1. StoreWell(store') /\ PagesOK' /\ CopiesOK' /\ store' = saved
  BY WriteKeeps DEF IInv
<1>2. NotesOK'
  BY <1>1, NotesStay DEF IInv, Exists
<1>3. TasksOK' /\ uuid' \in Nat
  BY DoneKeeps DEF IInv
<1> QED
  BY <1>1, <1>2, <1>3 DEF IInv

LEMMA FinishStageKeeps ==
  ASSUME IInv, NEW t \in Tasks, FinishStage(t)
  PROVE  IInv'
<1> DEFINE p == task[t].tab
           r == Settled(task[t].record)
<1>1. /\ task[t].op = "stage" /\ r.govStage # "RESPONSE_RELEASED"
      /\ Write(p, Saved(r)) /\ Done(t) /\ UNCHANGED <<notifications, demo>>
  BY DEF FinishStage
<1>2. /\ p \in Tabs /\ Pending(task[t].record, StatusDue(task[t]))
      /\ StatusDue(task[t]) \in CaseStatus
  BY <1>1, TakenUp DEF IInv
<1>3. r.govStage = task[t].record.govStage
  BY <1>2, SettledIs DEF Pending, Agrees
<1>4. StatusDue(task[t]) = task[t].record.status
  BY <1>1, <1>3 DEF StatusDue
<1>5. Good(r)
  BY <1>2, <1>4, SettledGood
<1> HIDE DEF p, r
<1>6. StoreWell(Saved(r)) /\ \A d \in Cases : Exists(d) => Saved(r)[d] # NoRecord
  BY <1>5, SavedWell DEF IInv, Exists
<1> QED
  BY <1>1, <1>2, <1>6, LastWriteKeeps

LEMMA FinishReleaseKeeps ==
  ASSUME IInv, NEW t \in Tasks, FinishRelease(t)
  PROVE  IInv'
<1> DEFINE p == task[t].tab
           r == [Settled(task[t].record) EXCEPT !.status = "RESPONSE_RELEASED"]
           q == Appended(r, uuid, "RESPONSE_RECEIVED", "NONE", 0)
<1>1. /\ task[t].op = "stage" /\ r.govStage = "RESPONSE_RELEASED"
      /\ PushNotification(r.suchnaId, "released")
      /\ Write(p, Saved(r)) /\ Await(t, p, "received", q) /\ UNCHANGED demo
  BY DEF FinishRelease
<1>2. /\ p \in Tabs /\ Pending(task[t].record, StatusDue(task[t]))
      /\ StatusDue(task[t]) \in CaseStatus
  BY <1>1, TakenUp DEF IInv
<1>3. /\ Settled(task[t].record) \in CaseRecord
      /\ Settled(task[t].record).govStage = task[t].record.govStage
  BY <1>2, SettledIs DEF Pending, Agrees
<1>4. r.govStage = Settled(task[t].record).govStage /\ r.status = "RESPONSE_RELEASED"
  BY <1>3 DEF CaseRecord
<1>5. StatusDue(task[t]) = "RESPONSE_RELEASED"
  BY <1>1, <1>3, <1>4 DEF StatusDue
<1>6. Good(r)
  BY <1>2, <1>5, SettledGood
<1> HIDE DEF p, r
<1>7. /\ r \in CaseRecord /\ r.suchnaId \in Cases /\ r # NoRecord
      /\ StoreWell(Saved(r)) /\ Saved(r)[r.suchnaId] = r
      /\ \A d \in Cases : Exists(d) => Saved(r)[d] # NoRecord
  BY <1>6, SavedWell, NoRecordFacts DEF IInv, Exists
<1>8. StoreWell(store') /\ PagesOK' /\ CopiesOK' /\ store' = Saved(r)
  BY <1>1, <1>2, <1>7, WriteKeeps DEF IInv
<1>9. NotesOK'
  BY <1>1, <1>7, <1>8, PushKeeps DEF IInv, Exists
<1>10. uuid \in Nat /\ q = Appended(r, uuid, "RESPONSE_RECEIVED", "NONE", 0) /\ "received" \in Op \ {"idle", "load"}
  BY DEF IInv, Op
<1> HIDE DEF q
<1>11. Pending(q, "RESPONSE_RELEASED")
  BY <1>6, <1>7, <1>10, PendingStatus
<1>12. TasksOK' /\ uuid' \in Nat
  BY <1>1, <1>2, <1>10, <1>11, AwaitKeeps DEF IInv
<1> QED
  BY <1>1, <1>8, <1>9, <1>12 DEF IInv

LEMMA AttachKeeps ==
  ASSUME IInv, NEW t \in Tasks, NEW p \in Tabs, AttachDocument(t, p)
  PROVE  IInv'
<1> DEFINE c == page[p].route
           b == [store[c] EXCEPT !.evidence = store[c].evidence \cup {uuid}]
           q == Appended(b, uuid, "DOCUMENT_ADDED", "NONE", uuid)
<1>1. /\ page[p].layout = "gov" /\ Exists(c) /\ Await(t, p, "attach", q)
      /\ UNCHANGED <<store, notifications, demo, copies, page>>
  BY DEF AttachDocument
<1>2. c \in Cases
  BY <1>1 DEF IInv, PagesOK
<1> HIDE DEF c
<1>3. Good(store[c])
  BY <1>1, <1>2, StoredIs DEF IInv
<1>4. /\ uuid \in Nat /\ b = [store[c] EXCEPT !.evidence = store[c].evidence \cup {uuid}]
      /\ q = Appended(b, uuid, "DOCUMENT_ADDED", "NONE", uuid) /\ "attach" \in Op \ {"idle", "load"}
  BY DEF IInv, Op
<1> HIDE DEF b, q
<1>5. Pending(q, store[c].status) /\ q.status = store[c].status
  BY <1>3, <1>4, PendingDocument
<1> QED
  BY <1>1, <1>4, <1>5, BeginKeeps

LEMMA FinishAttachKeeps ==
  ASSUME IInv, NEW t \in Tasks, FinishAttach(t)
  PROVE  IInv'
<1> DEFINE p == task[t].tab
           r == Settled(task[t].record)
           saved == WithAudit(Saved(r), r.suchnaId, "ATTACHED")
<1>1. /\ task[t].op = "attach" /\ Write(p, saved) /\ Done(t) /\ UNCHANGED <<notifications, demo>>
  BY DEF FinishAttach
<1>2. /\ p \in Tabs /\ Pending(task[t].record, task[t].record.status)
      /\ task[t].record.status \in CaseStatus
  BY <1>1, TakenUp DEF IInv, StatusDue
<1>3. Good(r)
  BY <1>2, SettledGood
<1> HIDE DEF p, r
<1>4. /\ r.suchnaId \in Cases /\ r # NoRecord /\ StoreWell(Saved(r)) /\ Saved(r)[r.suchnaId] = r
      /\ \A d \in Cases : Exists(d) => Saved(r)[d] # NoRecord
  BY <1>3, SavedWell, NoRecordFacts DEF IInv, Exists
<1>5. StoreWell(saved) /\ \A d \in Cases : Exists(d) => saved[d] # NoRecord
  BY <1>4, WithAuditWell DEF AuditAction
<1> HIDE DEF saved
<1> QED
  BY <1>1, <1>2, <1>5, LastWriteKeeps

LEMMA ToggleKeeps ==
  ASSUME IInv, NEW p \in Tabs, NEW item \in ChecklistItems, ToggleChecklist(p, item)
  PROVE  IInv'
<1> DEFINE c == page[p].route
           checked == IF item \in page[p].record.checked
                      THEN store[c].checked \ {item} ELSE store[c].checked \cup {item}
           r == [store[c] EXCEPT !.checked = checked]
           saved == WithAudit(Saved(r), c, "CHECKLIST")
<1>1. /\ page[p].layout = "gov" /\ Exists(c) /\ Write(p, saved)
      /\ UNCHANGED <<notifications, demo, task, uuid>>
  BY DEF ToggleChecklist
<1>2. c \in Cases
  BY <1>1 DEF IInv, PagesOK
<1> HIDE DEF c
<1>3. store[c] \in CaseRecord /\ Good(store[c]) /\ store[c].suchnaId = c
  BY <1>1, <1>2, StoredIs DEF IInv
<1>4. checked \in SUBSET ChecklistItems
  BY <1>3 DEF CaseRecord
<1> HIDE DEF checked
<1>5. /\ r \in CaseRecord /\ r.events = store[c].events /\ r.trailVersion = store[c].trailVersion
      /\ r.suchnaId = c /\ r.status = store[c].status /\ r.govStage = store[c].govStage
      /\ r.evidence = store[c].evidence
  BY <1>3, <1>4 DEF CaseRecord
<1> HIDE DEF r
<1>6. Good(r)
  BY <1>3, <1>5, GoodBeside
<1>7. /\ r # NoRecord /\ StoreWell(Saved(r)) /\ Saved(r)[c] = r
      /\ \A d \in Cases : Exists(d) => Saved(r)[d] # NoRecord
  BY <1>5, <1>6, SavedWell, NoRecordFacts DEF IInv, Exists
<1>8. StoreWell(saved) /\ \A d \in Cases : Exists(d) => saved[d] # NoRecord
  BY <1>2, <1>7, WithAuditWell DEF AuditAction
<1> HIDE DEF saved
<1>9. StoreWell(store') /\ PagesOK' /\ CopiesOK' /\ store' = saved
  BY <1>1, <1>8, WriteKeeps DEF IInv
<1>10. NotesOK'
  BY <1>1, <1>8, <1>9, NotesStay DEF IInv, Exists
<1>11. TasksOK' /\ uuid' \in Nat /\ demo' \in BOOLEAN
  BY <1>1 DEF IInv, TasksOK
<1> QED
  BY <1>9, <1>10, <1>11 DEF IInv

LEMMA FinishEventKeeps ==
  ASSUME IInv, NEW t \in Tasks, FinishEvent(t)
  PROVE  IInv'
<1> DEFINE p == task[t].tab
           settled == Settled(task[t].record)
           r == IF task[t].op = "received"
                THEN [settled EXCEPT !.status = "RESPONSE_RELEASED"] ELSE settled
<1>1. /\ task[t].op \in {"received", "appealed"}
      /\ Write(p, Saved(r)) /\ Done(t) /\ UNCHANGED <<notifications, demo>>
  BY DEF FinishEvent
<1>2. /\ p \in Tabs /\ Pending(task[t].record, StatusDue(task[t]))
      /\ StatusDue(task[t]) \in CaseStatus
  BY <1>1, TakenUp DEF IInv
<1>3. Good(r)
  <2>1. CASE task[t].op = "received"
    <3>1. StatusDue(task[t]) = "RESPONSE_RELEASED"
      BY <2>1 DEF StatusDue
    <3>2. Good([settled EXCEPT !.status = "RESPONSE_RELEASED"])
      BY <1>2, <3>1, SettledGood
    <3> QED
      BY <2>1, <3>2
  <2>2. CASE task[t].op = "appealed"
    <3>1. StatusDue(task[t]) = task[t].record.status
      BY <2>2 DEF StatusDue
    <3>2. Good(settled)
      BY <1>2, <3>1, SettledGood
    <3> QED
      BY <2>2, <3>2
  <2> QED
    BY <1>1, <2>1, <2>2
<1> HIDE DEF p, r
<1>4. StoreWell(Saved(r)) /\ \A d \in Cases : Exists(d) => Saved(r)[d] # NoRecord
  BY <1>3, SavedWell DEF IInv, Exists
<1> QED
  BY <1>1, <1>2, <1>4, LastWriteKeeps

LEMMA LoadKeeps ==
  ASSUME IInv, NEW t \in Tasks, NEW p \in Tabs, LoadDemoWorkspace(t, p)
  PROVE  IInv'
<1> DEFINE x == [op |-> "load", tab |-> p, record |-> NoRecord]
<1>1. /\ SeedCase \in Cases /\ task' = [task EXCEPT ![t] = x]
      /\ UNCHANGED <<store, notifications, demo, copies, page, uuid>>
  BY DEF LoadDemoWorkspace
<1>2. x \in Task /\ x.op = "load" /\ x.tab = p
  BY DEF Task, Op
<1> HIDE DEF x
<1>3. InFlight(x)
  BY <1>1, <1>2 DEF InFlight
<1>4. task' \in [Tasks -> Task] /\ \A u \in Tasks : task'[u] = IF u = t THEN x ELSE task[u]
  BY <1>1, <1>2 DEF IInv, TasksOK
<1>5. TasksOK'
  BY <1>3, <1>4 DEF IInv, TasksOK
<1>6. StoreWell(store)' /\ PagesOK' /\ CopiesOK' /\ NotesOK' /\ demo' \in BOOLEAN /\ uuid' \in Nat
  BY <1>1 DEF IInv, StoreWell, PagesOK, CopiesOK, NotesOK, Exists
<1> QED
  BY <1>5, <1>6 DEF IInv

LEMMA FinishLoadKeeps ==
  ASSUME IInv, NEW t \in Tasks, FinishLoad(t)
  PROVE  IInv'
<1> DEFINE p == task[t].tab
<1>1. /\ task[t].op = "load" /\ Write(p, Saved(SeedRecord)) /\ demo' = TRUE
      /\ PushNotification(SeedCase, "overdue") /\ Done(t)
  BY DEF FinishLoad
<1>2. p \in Tabs /\ SeedCase \in Cases
  <2>1. InFlight(task[t]) /\ task[t] # Idle
    BY <1>1 DEF IInv, TasksOK, Idle
  <2> QED
    BY <1>1, <2>1 DEF InFlight
<1> HIDE DEF p
<1>3. Good(SeedRecord) /\ SeedRecord.suchnaId = SeedCase
  BY <1>2, SeedGood
<1>4. /\ SeedRecord # NoRecord /\ StoreWell(Saved(SeedRecord)) /\ Saved(SeedRecord)[SeedCase] = SeedRecord
      /\ \A d \in Cases : Exists(d) => Saved(SeedRecord)[d] # NoRecord
  BY <1>3, SavedWell, NoRecordFacts DEF IInv, Exists
<1>5. StoreWell(store') /\ PagesOK' /\ CopiesOK' /\ store' = Saved(SeedRecord)
  BY <1>1, <1>2, <1>4, WriteKeeps DEF IInv
<1>6. NotesOK'
  BY <1>1, <1>2, <1>4, <1>5, PushKeeps DEF IInv, Exists
<1>7. TasksOK' /\ uuid' \in Nat
  BY <1>1, DoneKeeps DEF IInv
<1> QED
  BY <1>1, <1>5, <1>6, <1>7 DEF IInv

LEMMA ClearKeeps ==
  ASSUME IInv, NEW p \in Tabs, ClearWorkspace(p)
  PROVE  IInv'
<1>1. /\ store' = [c \in Cases |-> NoRecord] /\ notifications' = <<>> /\ demo' = FALSE
      /\ page' = [page EXCEPT ![p] = NoPage] /\ UNCHANGED <<copies, task, uuid>>
  BY DEF ClearWorkspace
<1>2. StoreWell(store')
  BY <1>1 DEF StoreWell
<1>3. PagesOK'
  BY <1>1, PageCloses DEF IInv
<1>4. NotesOK'
  BY <1>1, NotificationLimitAssumption DEF NotesOK
<1>5. CopiesOK' /\ TasksOK' /\ uuid' \in Nat
  BY <1>1 DEF IInv, CopiesOK, TasksOK
<1> QED
  BY <1>1, <1>2, <1>3, <1>4, <1>5 DEF IInv

LEMMA LeaveKeeps ==
  ASSUME IInv, NEW p \in Tabs, LeaveCase(p) \/ CloseTab(p)
  PROVE  IInv'
<1>1. /\ page' = [page EXCEPT ![p] = NoPage]
      /\ UNCHANGED <<store, notifications, demo, copies, uuid>>
      /\ \/ task' = task
         \/ task' = [t \in Tasks |-> IF task[t].tab = p THEN Idle ELSE task[t]]
  BY DEF LeaveCase, CloseTab
<1>2. PagesOK'
  BY <1>1, PageCloses DEF IInv
<1>3. TasksOK'
  BY <1>1, IdleOK DEF IInv, TasksOK
<1>4. StoreWell(store)' /\ CopiesOK' /\ NotesOK'
  BY <1>1 DEF IInv, StoreWell, CopiesOK, NotesOK, Exists
<1> QED
  BY <1>1, <1>2, <1>3, <1>4 DEF IInv

LEMMA InvNext == IInv /\ [Next]_vars => IInv'
<1> SUFFICES ASSUME IInv, [Next]_vars PROVE IInv'
  OBVIOUS
<1>1. CASE \E p \in Tabs : Visit(p)
  <2> SUFFICES ASSUME NEW p \in Tabs, Visit(p) PROVE IInv'
    BY <1>1
  <2> QED
    BY OpenCitizenKeeps, OpenGovKeeps, ToggleKeeps, SyncKeeps, ClearKeeps, LeaveKeeps DEF Visit
<1>2. CASE \E t \in Tasks, p \in Tabs : Begin(t, p)
  <2> SUFFICES ASSUME NEW t \in Tasks, NEW p \in Tabs, Begin(t, p) PROVE IInv'
    BY <1>2
  <2> QED
    BY CreateKeeps, FileAppealKeeps, AdvanceKeeps, AttachKeeps, LoadKeeps DEF Begin
<1>3. CASE \E t \in Tasks : Finish(t)
  <2> SUFFICES ASSUME NEW t \in Tasks, Finish(t) PROVE IInv'
    BY <1>3
  <2> QED
    BY FinishCreateKeeps, FinishSubmitKeeps, FinishAppealKeeps, FinishStageKeeps,
       FinishReleaseKeeps, FinishAttachKeeps, FinishEventKeeps, FinishLoadKeeps DEF Finish
<1>4. CASE UNCHANGED vars
  BY <1>4 DEF vars, IInv, StoreWell, PagesOK, CopiesOK, TasksOK, NotesOK, Exists
<1> QED
  BY <1>1, <1>2, <1>3, <1>4 DEF Next

LEMMA Invariant == Spec => []IInv
<1>1. Init => IInv
  BY InvInit
<1>2. IInv /\ [Next]_vars => IInv'
  BY InvNext
<1> QED
  BY <1>1, <1>2, PTL DEF Spec
-----------------------------------------------------------------------------
(* From the inductive invariant to the properties.                         *)

\* LastOf finds the event IsLast speaks of, and 0 when there is none.
LEMMA LastOfStage ==
  ASSUME NEW r \in CaseRecord
  PROVE  /\ \A n : IsLast(Contents(r), StageEvents, n) =>
                     LastOf(r, IsStageEvent) = n /\ n \in Nat \ {0}
                     /\ r.events[n].content = Contents(r)[n]
         /\ NoneOf(Contents(r), StageEvents) => LastOf(r, IsStageEvent) = 0
<1> DEFINE found == { n \in DOMAIN r.events : IsStageEvent(r.events[n].content) }
<1>1. /\ DOMAIN Contents(r) = DOMAIN r.events /\ DOMAIN r.events = 1..Len(r.events)
      /\ Len(r.events) \in Nat
      /\ \A n \in DOMAIN r.events : r.events[n].content = Contents(r)[n]
                                    /\ Contents(r)[n] \in Content
  BY ContentsType, ElementOfSeq, LenProperties DEF Contents, CaseRecord, CaseEvent
<1>2. \A n : n \in found <=> n \in DOMAIN Contents(r) /\ Contents(r)[n] \in StageEvents
  BY <1>1 DEF StageEvents
<1>3. LastOf(r, IsStageEvent) =
        IF found = {} THEN 0 ELSE CHOOSE n \in found : \A m \in found : m <= n
  BY DEF LastOf
<1>4. found \subseteq Nat
  BY <1>1
<1> HIDE DEF found
<1>5. ASSUME NEW n, IsLast(Contents(r), StageEvents, n)
      PROVE  LastOf(r, IsStageEvent) = n /\ n \in Nat \ {0} /\ r.events[n].content = Contents(r)[n]
  <2>1. n \in found /\ n \in Nat \ {0} /\ \A m \in found : m <= n
    BY <1>1, <1>2, <1>5 DEF IsLast
  <2>2. \A k \in found : (\A m \in found : m <= k) => k = n
    BY <1>4, <2>1
  <2>3. (CHOOSE k \in found : \A m \in found : m <= k) = n
    BY <2>1, <2>2
  <2>4. n \in DOMAIN r.events
    BY <1>1, <1>5 DEF IsLast
  <2> QED
    BY <1>1, <1>3, <2>1, <2>3, <2>4
<1>6. NoneOf(Contents(r), StageEvents) => LastOf(r, IsStageEvent) = 0
  BY <1>2, <1>3 DEF NoneOf
<1> QED
  BY <1>5, <1>6

LEMMA LastOfStatus ==
  ASSUME NEW r \in CaseRecord, NEW n, IsLast(Contents(r), StatusEvents, n)
  PROVE  LastOf(r, IsStatusEvent) = n /\ n \in Nat \ {0} /\ r.events[n].content = Contents(r)[n]
<1> DEFINE found == { m \in DOMAIN r.events : IsStatusEvent(r.events[m].content) }
<1>1. /\ DOMAIN Contents(r) = DOMAIN r.events /\ DOMAIN r.events = 1..Len(r.events)
      /\ Len(r.events) \in Nat
      /\ \A m \in DOMAIN r.events : r.events[m].content = Contents(r)[m]
                                    /\ Contents(r)[m] \in Content
  BY ContentsType, ElementOfSeq, LenProperties DEF Contents, CaseRecord, CaseEvent
<1>2. \A m : m \in found <=> m \in DOMAIN Contents(r) /\ Contents(r)[m] \in StatusEvents
  BY <1>1 DEF StatusEvents
<1>3. LastOf(r, IsStatusEvent) =
        IF found = {} THEN 0 ELSE CHOOSE m \in found : \A k \in found : k <= m
  BY DEF LastOf
<1>4. found \subseteq Nat
  BY <1>1
<1> HIDE DEF found
<1>5. n \in found /\ n \in Nat \ {0} /\ \A m \in found : m <= n
  BY <1>1, <1>2 DEF IsLast
<1>6. \A k \in found : (\A m \in found : m <= k) => k = n
  BY <1>4, <1>5
<1>7. (CHOOSE m \in found : \A k \in found : k <= m) = n
  BY <1>5, <1>6
<1>8. n \in DOMAIN r.events
  BY <1>1 DEF IsLast
<1> QED
  BY <1>1, <1>3, <1>5, <1>7, <1>8

LEMMA InvType == IInv => TypeOK
<1> SUFFICES ASSUME IInv PROVE TypeOK
  OBVIOUS
<1>1. /\ store \in [Cases -> CaseRecord \cup {NoRecord}]
      /\ \A c \in Cases : store[c].suchnaId \in {c, NoCase}
  BY NoRecordFacts DEF IInv, StoreWell
<1> QED
  BY <1>1 DEF IInv, PagesOK, CopiesOK, TasksOK, NotesOK, TypeOK

LEMMA InvVerify == IInv => TrailsVerify
<1> SUFFICES ASSUME IInv, NEW c \in Cases
             PROVE  Verified(store[c]) /\ Verified(copies[c])
  BY DEF TrailsVerify, Verified
<1>1. Verified(NoRecord)
  BY DEF NoRecord, Verified, VerifyTrail
<1>2. Verified(store[c])
  BY <1>1 DEF IInv, StoreWell, Good
<1> QED
  BY <1>2 DEF IInv, CopiesOK

LEMMA InvStage == IInv => StageMatchesTrail
<1> SUFFICES ASSUME IInv, NEW c \in Cases, Exists(c)
             PROVE  LET last == LastOf(store[c], IsStageEvent)
                    IN store[c].govStage = IF last # 0 THEN store[c].events[last].content.stage
                                           ELSE FirstStage(c)
  BY DEF StageMatchesTrail, FirstStage
<1>1. /\ store[c] \in CaseRecord /\ store[c].suchnaId = c
      /\ StageGiven(Contents(store[c]), c, store[c].govStage)
  BY StoredIs DEF IInv, Good, Agrees
<1>2. CASE \E n \in DOMAIN Contents(store[c]) :
             IsLast(Contents(store[c]), StageEvents, n) /\ Contents(store[c])[n].stage = store[c].govStage
  BY <1>1, <1>2, LastOfStage
<1>3. CASE NoneOf(Contents(store[c]), StageEvents) /\ store[c].govStage = FirstStage(c)
  BY <1>1, <1>3, LastOfStage
<1> QED
  BY <1>1, <1>2, <1>3 DEF StageGiven

LEMMA InvStatus == IInv => StatusMatchesTrail
<1> SUFFICES ASSUME IInv, NEW c \in Cases, Exists(c)
             PROVE  LET last == LastOf(store[c], IsStatusEvent)
                    IN last # 0 /\ store[c].status = StatusGivenBy(store[c].events[last].content)
  BY DEF StatusMatchesTrail
<1>1. store[c] \in CaseRecord /\ StatusGiven(Contents(store[c]), store[c].status)
  BY StoredIs DEF IInv, Good, Agrees
<1>2. PICK n \in DOMAIN Contents(store[c]) :
        /\ IsLast(Contents(store[c]), StatusEvents, n)
        /\ StatusGivenBy(Contents(store[c])[n]) = store[c].status
  BY <1>1 DEF StatusGiven
<1>3. /\ LastOf(store[c], IsStatusEvent) = n /\ n # 0
      /\ store[c].events[n].content = Contents(store[c])[n]
  BY <1>1, <1>2, LastOfStatus
<1> QED
  BY <1>2, <1>3

LEMMA InvDocuments == IInv => DocumentsMatchTrail
<1> SUFFICES ASSUME IInv, NEW c \in Cases
             PROVE  store[c].evidence =
                      { store[c].events[n].content.doc :
                          n \in { n \in DOMAIN store[c].events :
                                    store[c].events[n].content.type = "DOCUMENT_ADDED" } }
  BY DEF DocumentsMatchTrail
<1>1. CASE store[c] = NoRecord
  BY <1>1 DEF NoRecord
<1>2. CASE store[c] # NoRecord
  <2>1. store[c].evidence = DocsNamed(Contents(store[c]))
    BY <1>2 DEF IInv, StoreWell, Good, Agrees
  <2>2. /\ DOMAIN Contents(store[c]) = DOMAIN store[c].events
        /\ \A n \in DOMAIN store[c].events : Contents(store[c])[n] = store[c].events[n].content
    BY DEF Contents
  <2> QED
    BY <2>1, <2>2 DEF DocsNamed
<1> QED
  BY <1>1, <1>2

LEMMA InvNotes == IInv => NotificationsPointAtCases
  BY LenProperties DEF IInv, NotesOK, NotificationsPointAtCases
-----------------------------------------------------------------------------
(* The theorems.                                                           *)

\* Types of the seven variables (store.ts).
THEOREM TypeCorrect == Spec => []TypeOK
  BY Invariant, InvType, PTL

\* Whatever operations overlap in whatever tabs, every stored trail and every
\* offline copy passes verifyTrail, and its version counts its events.
THEOREM EveryTrailVerifies == Spec => []TrailsVerify
  BY Invariant, InvVerify, PTL

\* The stage of a case is the one its trail last moved to, also when two
\* officers overwrite each other (transitionGovStage).
THEOREM StageIsOnTrail == Spec => []StageMatchesTrail
  BY Invariant, InvStage, PTL

\* The status of a case is the one its trail last gave it (submitCase,
\* transitionGovStage, fileFirstAppeal, addEvent).
THEOREM StatusIsOnTrail == Spec => []StatusMatchesTrail
  BY Invariant, InvStatus, PTL

\* The documents of a case are those its trail names (addEvidence).
THEOREM DocumentsAreOnTrail == Spec => []DocumentsMatchTrail
  BY Invariant, InvDocuments, PTL

\* A notification never links to a case that is gone (pushNotification,
\* clearWorkspace).
THEOREM NotificationsLead == Spec => []NotificationsPointAtCases
  BY Invariant, InvNotes, PTL
-----------------------------------------------------------------------------
(* One operation at a time: trails only grow.                              *)

PrefixOf(s, t) == Len(s) <= Len(t) /\ \A n \in 1..Len(s) : s[n] = t[n]

\* What is stored of a case is the beginning of what an operation will save,
\* and the seeds are never awaited in a demo workspace.
Ahead ==
  \A t \in Tasks :
    /\ task[t].op \notin {"idle", "load"} /\ Exists(task[t].record.suchnaId) =>
         PrefixOf(Contents(store[task[t].record.suchnaId]), Contents(task[t].record))
    /\ task[t].op = "load" => ~demo

\* The step as the property sees it.
Grows ==
  \A c \in Cases : Exists(c) /\ store'[c] # NoRecord /\ ~Reseeded(c) =>
    PrefixOf(Contents(store[c]), Contents(store'[c]))

\* A step that changes no trail.
Kept == \A c \in Cases : store'[c] # NoRecord => Exists(c) /\ Contents(store'[c]) = Contents(store[c])

\* A step that saves the trail of r and changes no other.
Saves(r) ==
  /\ Contents(store'[r.suchnaId]) = Contents(r)
  /\ \A c \in Cases : c # r.suchnaId => store'[c] = store[c]

LEMMA PrefixSelf == \A s : Len(s) \in Nat => PrefixOf(s, s)
  BY DEF PrefixOf

LEMMA ContentsLen ==
  ASSUME NEW r \in CaseRecord \cup {NoRecord}
  PROVE  Contents(r) \in Seq(Content) /\ Len(Contents(r)) \in Nat
<1>1. CASE r \in CaseRecord
  BY <1>1, ContentsType, LenProperties
<1>2. CASE r = NoRecord
  <2>1. Contents(r) = <<>>
    BY <1>2 DEF Contents, NoRecord
  <2> QED
    BY <2>1
<1> QED
  BY <1>1, <1>2

\* Whatever an event says, it is appended at the end.
LEMMA AppendedGrows ==
  ASSUME NEW b \in CaseRecord, NEW id, NEW type, NEW stage, NEW doc
  PROVE  /\ PrefixOf(Contents(b), Contents(Appended(b, id, type, stage, doc)))
         /\ Appended(b, id, type, stage, doc).suchnaId = b.suchnaId
<1> DEFINE new == [content |-> [id |-> id, type |-> type, stage |-> stage, doc |-> doc], hash |-> <<>>]
           q == Appended(b, id, type, stage, doc)
           S == CaseEvent \cup {new}
<1>1. q = [b EXCEPT !.events = Append(b.events, new)] /\ b.events \in Seq(CaseEvent)
  BY DEF Appended, CaseRecord
<1> HIDE DEF new, q
<1>2. q.events = Append(b.events, new) /\ q.suchnaId = b.suchnaId
  BY <1>1 DEF CaseRecord
<1>3. b.events \in Seq(S) /\ new \in S
  BY <1>1, SeqMonotonic
<1> HIDE DEF S
<1>4. /\ DOMAIN b.events = 1..Len(b.events) /\ Len(b.events) \in Nat
      /\ DOMAIN q.events = 1..(Len(b.events) + 1)
      /\ \A n \in 1..Len(b.events) : q.events[n] = b.events[n]
  BY <1>2, <1>3, AppendProperties, LenProperties
<1>5. /\ Len(Contents(b)) = Len(b.events) /\ Len(Contents(q)) = Len(b.events) + 1
      /\ \A n \in 1..Len(b.events) : Contents(b)[n] = b.events[n].content
                                     /\ Contents(q)[n] = q.events[n].content
  BY <1>4 DEF Contents
<1> QED
  BY <1>2, <1>4, <1>5 DEF PrefixOf, q

\* A step that changes no trail and leaves the operation as it is, or drops it.
LEMMA KeptGrows ==
  ASSUME IInv, IInv', Ahead, Kept,
         \A t \in Tasks : task'[t] = task[t] \/ task'[t] = Idle,
         demo' => demo
  PROVE  Grows /\ Ahead'
<1>1. Grows
  <2> SUFFICES ASSUME NEW c \in Cases, store'[c] # NoRecord
               PROVE  PrefixOf(Contents(store[c]), Contents(store'[c]))
    BY DEF Grows
  <2>1. store[c] \in CaseRecord \cup {NoRecord} /\ Contents(store'[c]) = Contents(store[c])
    BY DEF Kept, IInv, StoreWell
  <2> QED
    BY <2>1, ContentsLen, PrefixSelf
<1>2. Ahead'
  <2> SUFFICES ASSUME NEW t \in Tasks
               PROVE  /\ task'[t].op \notin {"idle", "load"} /\ store'[task'[t].record.suchnaId] # NoRecord =>
                           PrefixOf(Contents(store'[task'[t].record.suchnaId]), Contents(task'[t].record))
                      /\ task'[t].op = "load" => ~demo'
    BY DEF Ahead, Exists
  <2>1. CASE task'[t] = Idle
    BY <2>1 DEF Idle
  <2>2. CASE task'[t] = task[t] /\ task[t].op \notin {"idle", "load"}
    <3>1. task[t].record.suchnaId \in Cases
      BY <2>2, TakenUp DEF IInv, Pending, Agrees, CaseRecord
    <3> QED
      BY <2>2, <3>1 DEF Ahead, Kept, Exists
  <2>3. CASE task'[t] = task[t] /\ task[t].op \in {"idle", "load"}
    BY <2>3 DEF Ahead
  <2> QED
    BY <2>1, <2>2, <2>3
<1> QED
  BY <1>1, <1>2

\* A step that changes no trail and begins an operation on a stored case.
LEMMA BegunGrows ==
  ASSUME IInv, Ahead, Kept, NEW t, Tasks = {t}, NEW x, task' = [task EXCEPT ![t] = x],
         x.op # "load", NEW c \in Cases, x.record.suchnaId = c,
         store'[c] # NoRecord => PrefixOf(Contents(store'[c]), Contents(x.record))
  PROVE  Grows /\ Ahead'
<1>1. Grows
  <2> SUFFICES ASSUME NEW d \in Cases, store'[d] # NoRecord
               PROVE  PrefixOf(Contents(store[d]), Contents(store'[d]))
    BY DEF Grows
  <2>1. store[d] \in CaseRecord \cup {NoRecord} /\ Contents(store'[d]) = Contents(store[d])
    BY DEF Kept, IInv, StoreWell
  <2> QED
    BY <2>1, ContentsLen, PrefixSelf
<1>2. task'[t] = x
  BY DEF IInv, TasksOK
<1> QED
  BY <1>1, <1>2 DEF Ahead, Exists

\* A step that saves what the operation holds, and ends it or goes on from there.
LEMMA SavedGrows ==
  ASSUME IInv, Ahead, NEW t, Tasks = {t}, task[t].op \notin {"idle", "load"},
         NEW r, r.suchnaId = task[t].record.suchnaId, Contents(r) = Contents(task[t].record),
         Saves(r), NEW x, task' = [task EXCEPT ![t] = x],
         \/ x = Idle
         \/ x.op # "load" /\ x.record.suchnaId = r.suchnaId /\ PrefixOf(Contents(r), Contents(x.record))
  PROVE  Grows /\ Ahead'
<1>1. Grows
  <2> SUFFICES ASSUME NEW d \in Cases, Exists(d)
               PROVE  PrefixOf(Contents(store[d]), Contents(store'[d]))
    BY DEF Grows
  <2>1. CASE d = r.suchnaId
    BY <2>1 DEF Ahead, Saves
  <2>2. CASE d # r.suchnaId
    <3>1. store[d] \in CaseRecord \cup {NoRecord} /\ store'[d] = store[d]
      BY <2>2 DEF IInv, StoreWell, Saves
    <3> QED
      BY <3>1, ContentsLen, PrefixSelf
  <2> QED
    BY <2>1, <2>2
<1>2. task'[t] = x
  BY DEF IInv, TasksOK
<1>3. CASE x = Idle
  BY <1>1, <1>2, <1>3 DEF Ahead, Idle
<1>4. CASE x.op # "load" /\ x.record.suchnaId = r.suchnaId /\ PrefixOf(Contents(r), Contents(x.record))
  BY <1>1, <1>2, <1>4 DEF Ahead, Saves, Exists
<1> QED
  BY <1>3, <1>4

\* An audit entry changes no trail.
LEMMA AuditKeeps ==
  ASSUME NEW saved, StoreWell(saved), NEW c \in Cases, saved[c] # NoRecord,
         NEW a \in AuditAction
  PROVE  /\ \A d \in Cases : /\ Contents(WithAudit(saved, c, a)[d]) = Contents(saved[d])
                             /\ WithAudit(saved, c, a)[d] # NoRecord => saved[d] # NoRecord
         /\ \A d \in Cases : d # c => WithAudit(saved, c, a)[d] = saved[d]
<1> DEFINE q == [saved[c] EXCEPT !.audit = saved[c].audit \cup {a}]
<1>1. saved \in [Cases -> CaseRecord \cup {NoRecord}] /\ saved[c] \in CaseRecord
  BY DEF StoreWell
<1>2. q.events = saved[c].events
  BY <1>1, AuditIs
<1>3. WithAudit(saved, c, a) = [saved EXCEPT ![c] = q]
  BY DEF WithAudit
<1> HIDE DEF q
<1>4. \A d \in Cases : WithAudit(saved, c, a)[d] = IF d = c THEN q ELSE saved[d]
  BY <1>1, <1>3
<1> QED
  BY <1>2, <1>4 DEF Contents

LEMMA SettledSame ==
  ASSUME IInv, NEW t \in Tasks, task[t].op \notin {"idle", "load"},
         NEW r, \/ r = Settled(task[t].record)
                \/ r = [Settled(task[t].record) EXCEPT !.status = "RESPONSE_RELEASED"]
  PROVE  /\ r.suchnaId = task[t].record.suchnaId /\ Contents(r) = Contents(task[t].record)
         /\ r \in CaseRecord /\ r.suchnaId \in Cases
<1> DEFINE q == Settled(task[t].record)
<1>1. /\ q \in CaseRecord /\ q.suchnaId = task[t].record.suchnaId
      /\ Contents(q) = Contents(task[t].record)
  BY TakenUp, SettledIs DEF IInv, Pending, Agrees
<1>2. r = q \/ r = [q EXCEPT !.status = "RESPONSE_RELEASED"]
  OBVIOUS
<1> HIDE DEF q
<1>3. r \in CaseRecord /\ r.suchnaId = q.suchnaId /\ r.events = q.events
  BY <1>1, <1>2 DEF CaseRecord, CaseStatus
<1>4. Contents(r) = Contents(q) /\ r.suchnaId \in Cases
  BY <1>3 DEF Contents, CaseRecord
<1> QED
  BY <1>1, <1>3, <1>4

LEMMA SavedSaves ==
  ASSUME StoreWell(store), NEW r \in CaseRecord, store' = Saved(r)
  PROVE  Saves(r)
<1>1. r.suchnaId \in Cases /\ store \in [Cases -> CaseRecord \cup {NoRecord}]
  BY NoRecordFacts DEF StoreWell
<1> QED
  BY <1>1 DEF Saves, Saved

LEMMA VisitGrows ==
  ASSUME IInv, IInv', Ahead, NEW p \in Tabs, Visit(p)
  PROVE  Grows /\ Ahead'
<1>1. /\ \A t \in Tasks : task'[t] = task[t] \/ task'[t] = Idle
      /\ demo' => demo
  <2>1. CASE UNCHANGED task /\ (UNCHANGED demo \/ demo' = FALSE)
    BY <2>1
  <2>2. CASE CloseTab(p)
    <3>1. demo' = demo /\ task' = [t \in Tasks |-> IF task[t].tab = p THEN Idle ELSE task[t]]
      BY <2>2 DEF CloseTab
    <3> QED
      BY <3>1
  <2> QED
    BY <2>1, <2>2 DEF Visit, OpenCitizenCase, OpenGovCase, ToggleChecklist, SyncOfflineRecord,
         ClearWorkspace, LeaveCase
<1>2. CASE \E c \in Cases : OpenGovCase(p, c)
  <2> PICK c \in Cases : OpenGovCase(p, c)
    BY <1>2
  <2>1. Kept
    BY AuditKeeps DEF OpenGovCase, IInv, AuditAction, Exists, Kept
  <2> QED
    BY <1>1, <2>1, KeptGrows
<1>3. CASE \E item \in ChecklistItems : ToggleChecklist(p, item)
  <2> PICK item \in ChecklistItems : ToggleChecklist(p, item)
    BY <1>3
  <2> DEFINE c == page[p].route
             checked == IF item \in page[p].record.checked
                        THEN store[c].checked \ {item} ELSE store[c].checked \cup {item}
             r == [store[c] EXCEPT !.checked = checked]
  <2>1. page[p].layout = "gov" /\ Exists(c) /\ store' = WithAudit(Saved(r), c, "CHECKLIST")
    BY DEF ToggleChecklist, Write
  <2>2. c \in Cases
    BY <2>1 DEF IInv, PagesOK
  <2> HIDE DEF c
  <2>3. store[c] \in CaseRecord /\ Good(store[c]) /\ store[c].suchnaId = c
    BY <2>1, <2>2, StoredIs DEF IInv
  <2>4. checked \in SUBSET ChecklistItems
    BY <2>3 DEF CaseRecord
  <2> HIDE DEF checked
  <2>5. /\ r \in CaseRecord /\ r.events = store[c].events /\ r.trailVersion = store[c].trailVersion
        /\ r.suchnaId = c /\ r.status = store[c].status /\ r.govStage = store[c].govStage
        /\ r.evidence = store[c].evidence
    BY <2>3, <2>4 DEF CaseRecord
  <2> HIDE DEF r
  <2>6. Good(r) /\ Contents(r) = Contents(store[c])
    BY <2>3, <2>5, GoodBeside DEF Contents
  <2>7. /\ StoreWell(Saved(r)) /\ Saved(r)[c] = r /\ r # NoRecord
        /\ \A d \in Cases : d # c => Saved(r)[d] = store[d]
    BY <2>5, <2>6, SavedWell, NoRecordFacts DEF IInv, Saved, StoreWell
  <2>8. Kept
    BY <2>1, <2>2, <2>6, <2>7, AuditKeeps DEF Kept, AuditAction, Exists
  <2> QED
    BY <1>1, <2>8, KeptGrows
<1>4. CASE store' = store \/ ClearWorkspace(p)
  <2>1. Kept
    BY <1>4 DEF Kept, ClearWorkspace, Exists
  <2> QED
    BY <1>1, <2>1, KeptGrows
<1>5. \/ \E c \in Cases : OpenGovCase(p, c)
      \/ \E item \in ChecklistItems : ToggleChecklist(p, item)
      \/ store' = store \/ ClearWorkspace(p)
  BY DEF Visit, OpenCitizenCase, SyncOfflineRecord, LeaveCase, CloseTab
<1> QED
  BY <1>2, <1>3, <1>4, <1>5

LEMMA BeginGrows ==
  ASSUME IInv, IInv', Ahead, NEW t, Tasks = {t}, NEW p \in Tabs, Begin(t, p)
  PROVE  Grows /\ Ahead'
<1> DEFINE c == page[p].route
<1>1. CASE \E d \in Cases : CreateCase(t, p, d)
  <2> PICK d \in Cases : CreateCase(t, p, d)
    BY <1>1
  <2> DEFINE r == Appended(NewRecord(d), uuid, "REQUEST_CREATED", "NONE", 0)
             x == [op |-> "create", tab |-> p, record |-> r]
  <2>1. store' = store /\ store[d] = NoRecord /\ task' = [task EXCEPT ![t] = x]
    BY DEF CreateCase, Exists, Await
  <2>2. r.suchnaId = d
    BY DEF Appended, NewRecord, NoRecord
  <2>3. x.op # "load" /\ x.record.suchnaId = d
    BY <2>2
  <2> HIDE DEF x
  <2>4. Kept
    BY <2>1 DEF Kept, Exists
  <2> QED
    BY <2>1, <2>3, <2>4, BegunGrows
<1>2. CASE FileFirstAppeal(t, p)
  <2> DEFINE b == [store[c] EXCEPT !.status = "FIRST_APPEAL"]
             r == Appended(b, uuid, "APPEAL_PREPARED", "NONE", 0)
             x == [op |-> "appeal", tab |-> p, record |-> r]
  <2>1. /\ store' = store /\ Exists(c) /\ page[p].layout = "citizen"
        /\ task' = [task EXCEPT ![t] = x]
    BY <1>2 DEF FileFirstAppeal, Await
  <2>2. c \in Cases
    BY <2>1 DEF IInv, PagesOK
  <2> HIDE DEF c
  <2>3. store[c] \in CaseRecord /\ store[c].suchnaId = c
    BY <2>1, <2>2, StoredIs DEF IInv
  <2>4. b \in CaseRecord /\ b.suchnaId = c /\ b.events = store[c].events
    BY <2>3 DEF CaseRecord, CaseStatus
  <2> HIDE DEF b
  <2>5. PrefixOf(Contents(b), Contents(r)) /\ r.suchnaId = c /\ Contents(b) = Contents(store[c])
    BY <2>4, AppendedGrows DEF Contents
  <2> HIDE DEF r
  <2>6. x.op # "load" /\ x.record = r
    OBVIOUS
  <2> HIDE DEF x
  <2>7. Kept
    BY <2>1 DEF Kept, Exists
  <2> QED
    BY <2>1, <2>2, <2>5, <2>6, <2>7, BegunGrows
<1>3. CASE AttachDocument(t, p)
  <2> DEFINE b == [store[c] EXCEPT !.evidence = store[c].evidence \cup {uuid}]
             r == Appended(b, uuid, "DOCUMENT_ADDED", "NONE", uuid)
             x == [op |-> "attach", tab |-> p, record |-> r]
  <2>1. /\ store' = store /\ Exists(c) /\ page[p].layout = "gov"
        /\ task' = [task EXCEPT ![t] = x]
    BY <1>3 DEF AttachDocument, Await
  <2>2. c \in Cases /\ uuid \in Nat
    BY <2>1 DEF IInv, PagesOK
  <2> HIDE DEF c
  <2>3. store[c] \in CaseRecord /\ store[c].suchnaId = c
    BY <2>1, <2>2, StoredIs DEF IInv
  <2>4. b \in CaseRecord /\ b.suchnaId = c /\ b.events = store[c].events
    BY <2>2, <2>3 DEF CaseRecord
  <2> HIDE DEF b
  <2>5. PrefixOf(Contents(b), Contents(r)) /\ r.suchnaId = c /\ Contents(b) = Contents(store[c])
    BY <2>4, AppendedGrows DEF Contents
  <2> HIDE DEF r
  <2>6. x.op # "load" /\ x.record = r
    OBVIOUS
  <2> HIDE DEF x
  <2>7. Kept
    BY <2>1 DEF Kept, Exists
  <2> QED
    BY <2>1, <2>2, <2>5, <2>6, <2>7, BegunGrows
<1>4. CASE AdvanceStage(t, p)
  <2>1. PICK next \in NextGovStage(page[p].record.govStage) :
          /\ Write(p, WithAudit(store, c, next))
          /\ Await(t, p, "stage", Appended([store[c] EXCEPT !.govStage = next], uuid,
                                           "GOV_STAGE_CHANGED", next, 0))
    BY <1>4 DEF AdvanceStage
  <2> DEFINE b == [store[c] EXCEPT !.govStage = next]
             r == Appended(b, uuid, "GOV_STAGE_CHANGED", next, 0)
             x == [op |-> "stage", tab |-> p, record |-> r]
  <2>2. /\ store' = WithAudit(store, c, next) /\ Exists(c) /\ page[p].layout = "gov"
        /\ task' = [task EXCEPT ![t] = x]
    BY <1>4, <2>1 DEF AdvanceStage, Write, Await
  <2>3. c \in Cases /\ next \in GovStage /\ next \in AuditAction
    BY <2>2, StageAfter DEF IInv, PagesOK, AuditAction
  <2> HIDE DEF c
  <2>4. store[c] \in CaseRecord /\ store[c].suchnaId = c
    BY <2>2, <2>3, StoredIs DEF IInv
  <2>5. b \in CaseRecord /\ b.suchnaId = c /\ b.events = store[c].events
    BY <2>3, <2>4 DEF CaseRecord
  <2> HIDE DEF b
  <2>6. PrefixOf(Contents(b), Contents(r)) /\ r.suchnaId = c /\ Contents(b) = Contents(store[c])
    <3>1. PrefixOf(Contents(b), Contents(r)) /\ r.suchnaId = b.suchnaId
      BY <2>5, AppendedGrows
    <3> QED
      BY <2>5, <3>1 DEF Contents
  <2> HIDE DEF r
  <2>7. x.op # "load" /\ x.record = r
    OBVIOUS
  <2> HIDE DEF x
  <2>8. Kept /\ Contents(store'[c]) = Contents(store[c])
    BY <2>2, <2>3, AuditKeeps DEF IInv, Kept, Exists
  <2> QED
    BY <2>2, <2>3, <2>6, <2>7, <2>8, BegunGrows
<1>5. CASE LoadDemoWorkspace(t, p)
  <2> DEFINE x == [op |-> "load", tab |-> p, record |-> NoRecord]
  <2>1. store' = store /\ ~demo /\ demo' = demo /\ task' = [task EXCEPT ![t] = x]
    BY <1>5 DEF LoadDemoWorkspace
  <2>2. x.op = "load"
    OBVIOUS
  <2> HIDE DEF x
  <2>3. task'[t].op = "load"
    BY <2>1, <2>2 DEF IInv, TasksOK
  <2>4. Grows
    <3>1. \A d \in Cases : Len(Contents(store[d])) \in Nat
      BY ContentsLen DEF IInv, StoreWell
    <3> QED
      BY <2>1, <3>1, PrefixSelf DEF Grows
  <2> QED
    BY <2>1, <2>3, <2>4 DEF Ahead
<1> QED
  BY <1>1, <1>2, <1>3, <1>4, <1>5 DEF Begin

LEMMA FinishGrows ==
  ASSUME IInv, IInv', Ahead, NEW t, Tasks = {t}, Finish(t)
  PROVE  Grows /\ Ahead'
<1> DEFINE settled == Settled(task[t].record)
           released == [settled EXCEPT !.status = "RESPONSE_RELEASED"]
<1>1. StoreWell(store) /\ t \in Tasks
  BY DEF IInv
<1>2. CASE FinishCreate(t)
  <2> DEFINE b == [settled EXCEPT !.status = "SUBMITTED"]
             q == Appended(b, uuid, "REQUEST_SUBMITTED", "NONE", 0)
             x == [op |-> "submit", tab |-> task[t].tab, record |-> q]
  <2>1. task[t].op = "create" /\ store' = Saved(settled) /\ task' = [task EXCEPT ![t] = x]
    BY <1>2 DEF FinishCreate, Write, Await
  <2>2. /\ settled.suchnaId = task[t].record.suchnaId
        /\ Contents(settled) = Contents(task[t].record) /\ settled \in CaseRecord
    BY <1>1, <2>1, SettledSame
  <2> HIDE DEF settled
  <2>3. b \in CaseRecord /\ b.suchnaId = settled.suchnaId /\ b.events = settled.events
    BY <2>2 DEF CaseRecord, CaseStatus
  <2> HIDE DEF b
  <2>4. /\ PrefixOf(Contents(b), Contents(q)) /\ q.suchnaId = settled.suchnaId
        /\ Contents(b) = Contents(settled)
    BY <2>3, AppendedGrows DEF Contents
  <2> HIDE DEF q
  <2>5. x.op # "load" /\ x.record = q
    OBVIOUS
  <2> HIDE DEF x
  <2>6. Saves(settled)
    BY <1>1, <2>1, <2>2, SavedSaves
  <2> QED
    BY <2>1, <2>2, <2>4, <2>5, <2>6, SavedGrows
<1>3. CASE FinishAppeal(t)
  <2> DEFINE q == Appended(settled, uuid, "APPEAL_SUBMITTED", "NONE", 0)
             x == [op |-> "appealed", tab |-> task[t].tab, record |-> q]
  <2>1. task[t].op = "appeal" /\ store' = Saved(settled) /\ task' = [task EXCEPT ![t] = x]
    BY <1>3 DEF FinishAppeal, Write, Await
  <2>2. /\ settled.suchnaId = task[t].record.suchnaId
        /\ Contents(settled) = Contents(task[t].record) /\ settled \in CaseRecord
    BY <1>1, <2>1, SettledSame
  <2> HIDE DEF settled
  <2>3. PrefixOf(Contents(settled), Contents(q)) /\ q.suchnaId = settled.suchnaId
    BY <2>2, AppendedGrows
  <2> HIDE DEF q
  <2>4. x.op # "load" /\ x.record = q
    OBVIOUS
  <2> HIDE DEF x
  <2>5. Saves(settled)
    BY <1>1, <2>1, <2>2, SavedSaves
  <2> QED
    BY <2>1, <2>2, <2>3, <2>4, <2>5, SavedGrows
<1>4. CASE FinishRelease(t)
  <2> DEFINE q == Appended(released, uuid, "RESPONSE_RECEIVED", "NONE", 0)
             x == [op |-> "received", tab |-> task[t].tab, record |-> q]
  <2>1. task[t].op = "stage" /\ store' = Saved(released) /\ task' = [task EXCEPT ![t] = x]
    BY <1>4 DEF FinishRelease, Write, Await
  <2>2. /\ released.suchnaId = task[t].record.suchnaId
        /\ Contents(released) = Contents(task[t].record) /\ released \in CaseRecord
    BY <1>1, <2>1, SettledSame
  <2> HIDE DEF released
  <2>3. PrefixOf(Contents(released), Contents(q)) /\ q.suchnaId = released.suchnaId
    BY <2>2, AppendedGrows
  <2> HIDE DEF q
  <2>4. x.op # "load" /\ x.record = q
    OBVIOUS
  <2> HIDE DEF x
  <2>5. Saves(released)
    BY <1>1, <2>1, <2>2, SavedSaves
  <2> QED
    BY <2>1, <2>2, <2>3, <2>4, <2>5, SavedGrows
<1>5. ASSUME NEW r, r = settled \/ r = released, task[t].op \notin {"idle", "load"},
             Saves(r), Done(t)
      PROVE  Grows /\ Ahead'
  <2>1. r.suchnaId = task[t].record.suchnaId /\ Contents(r) = Contents(task[t].record)
    BY <1>1, <1>5, SettledSame
  <2>2. task' = [task EXCEPT ![t] = Idle]
    BY <1>5 DEF Done
  <2> QED
    BY <1>5, <2>1, <2>2, SavedGrows
<1>6. CASE FinishSubmit(t) \/ FinishStage(t)
  <2>1. task[t].op \notin {"idle", "load"} /\ store' = Saved(settled) /\ Done(t)
    BY <1>6 DEF FinishSubmit, FinishStage, Write
  <2>2. settled \in CaseRecord
    BY <1>1, <2>1, SettledSame
  <2> HIDE DEF settled
  <2> QED
    BY <1>1, <1>5, <2>1, <2>2, SavedSaves
<1>7. CASE FinishEvent(t)
  <2>1. PICK r : /\ r = settled \/ r = released
                 /\ task[t].op \notin {"idle", "load"} /\ store' = Saved(r) /\ Done(t)
    BY <1>7 DEF FinishEvent, Write
  <2>2. r \in CaseRecord
    BY <1>1, <2>1, SettledSame
  <2> HIDE DEF settled, released
  <2> QED
    BY <1>1, <1>5, <2>1, <2>2, SavedSaves
<1>8. CASE FinishAttach(t)
  <2>1. /\ task[t].op = "attach" /\ Done(t)
        /\ store' = WithAudit(Saved(settled), settled.suchnaId, "ATTACHED")
    BY <1>8 DEF FinishAttach, Write
  <2>2. /\ settled \in CaseRecord /\ settled.suchnaId \in Cases /\ settled # NoRecord
        /\ Good(settled)
    <3>1. /\ Pending(task[t].record, task[t].record.status)
          /\ task[t].record.status \in CaseStatus
      BY <1>1, <2>1, TakenUp DEF IInv, StatusDue
    <3>2. Good(settled)
      BY <3>1, SettledGood
    <3> QED
      BY <1>1, <2>1, <3>2, SettledSame, NoRecordFacts
  <2> HIDE DEF settled
  <2>3. /\ StoreWell(Saved(settled)) /\ Saved(settled)[settled.suchnaId] = settled
        /\ \A d \in Cases : d # settled.suchnaId => Saved(settled)[d] = store[d]
    BY <1>1, <2>2, SavedWell DEF Saved, StoreWell
  <2>4. Saves(settled)
    BY <2>1, <2>2, <2>3, AuditKeeps DEF Saves, AuditAction
  <2> QED
    BY <1>5, <2>1, <2>4
<1>9. CASE FinishLoad(t)
  <2>1. /\ task[t].op = "load" /\ store' = Saved(SeedRecord) /\ demo' = TRUE /\ Done(t)
    BY <1>9 DEF FinishLoad, Write
  <2>2. SeedCase \in Cases
    <3>1. InFlight(task[t]) /\ task[t] # Idle
      BY <1>1, <2>1 DEF IInv, TasksOK, Idle
    <3> QED
      BY <2>1, <3>1 DEF InFlight
  <2>3. ~demo
    BY <1>1, <2>1 DEF Ahead
  <2>4. \A d \in Cases : d # SeedCase => store'[d] = store[d]
    BY <2>1, <2>2, SeedGood DEF Saved, IInv, StoreWell
  <2>5. Grows
    <3>1. \A d \in Cases : Len(Contents(store[d])) \in Nat
      BY ContentsLen DEF IInv, StoreWell
    <3> QED
      BY <2>1, <2>3, <2>4, <3>1, PrefixSelf DEF Grows, Reseeded
  <2>6. task'[t] = Idle
    BY <1>1, <2>1 DEF Done, IInv, TasksOK
  <2> QED
    BY <2>5, <2>6 DEF Ahead, Idle
<1> QED
  BY <1>2, <1>3, <1>4, <1>6, <1>7, <1>8, <1>9 DEF Finish

\* The beginning of a sequence, as SubSeq has it.
LEMMA PrefixIsSubSeq ==
  ASSUME NEW s \in Seq(Content), NEW u \in Seq(Content), PrefixOf(s, u)
  PROVE  s = SubSeq(u, 1, Len(s))
<1>1. Len(s) \in Nat /\ Len(u) \in Nat
  BY LenProperties
<1>2. \A n \in 1..Len(s) : u[n] \in Content
  <2>1. \A n \in 1..Len(s) : n \in 1..Len(u)
    BY <1>1 DEF PrefixOf
  <2> QED
    BY <2>1, ElementOfSeq
<1>3. /\ SubSeq(u, 1, Len(s)) \in Seq(Content)
      /\ Len(SubSeq(u, 1, Len(s))) = IF 1 <= Len(s) THEN Len(s) - 1 + 1 ELSE 0
      /\ \A n \in 1..Len(s) - 1 + 1 : SubSeq(u, 1, Len(s))[n] = u[1 + n - 1]
  BY <1>1, <1>2, SubSeqProperties
<1>4. Len(SubSeq(u, 1, Len(s))) = Len(s)
  BY <1>1, <1>3
<1>5. \A n \in 1..Len(s) : SubSeq(u, 1, Len(s))[n] = u[n]
  <2>1. Len(s) - 1 + 1 = Len(s) /\ \A n \in 1..Len(s) : 1 + n - 1 = n
    BY <1>1
  <2> QED
    BY <1>3, <2>1
<1>6. \A n \in 1..Len(s) : s[n] = SubSeq(u, 1, Len(s))[n]
  BY <1>5 DEF PrefixOf
<1> QED
  BY <1>3, <1>4, <1>6, SeqEqual

LEMMA GrowsIs ==
  ASSUME IInv, IInv', Grows
  PROVE  \A c \in Cases : Exists(c) /\ store'[c] # NoRecord /\ ~Reseeded(c) =>
           /\ Len(store[c].events) <= Len(store'[c].events)
           /\ Contents(store[c]) = SubSeq(Contents(store'[c]), 1, Len(store[c].events))
<1> SUFFICES ASSUME NEW c \in Cases, Exists(c), store'[c] # NoRecord, ~Reseeded(c)
             PROVE  /\ Len(store[c].events) <= Len(store'[c].events)
                    /\ Contents(store[c]) = SubSeq(Contents(store'[c]), 1, Len(store[c].events))
  OBVIOUS
<1>1. store[c] \in CaseRecord /\ store'[c] \in CaseRecord
  BY DEF IInv, StoreWell, Exists
<1>2. /\ Contents(store[c]) \in Seq(Content) /\ Len(Contents(store[c])) = Len(store[c].events)
      /\ Contents(store'[c]) \in Seq(Content) /\ Len(Contents(store'[c])) = Len(store'[c].events)
  BY <1>1, ContentsType
<1>3. PrefixOf(Contents(store[c]), Contents(store'[c]))
  BY DEF Grows
<1>4. Contents(store[c]) = SubSeq(Contents(store'[c]), 1, Len(Contents(store[c])))
  BY <1>2, <1>3, PrefixIsSubSeq
<1> QED
  BY <1>2, <1>3, <1>4 DEF PrefixOf

LEMMA AheadNext ==
  ASSUME NEW t, Tasks = {t}
  PROVE  IInv /\ Ahead /\ [Next]_vars => Grows /\ Ahead'
<1> SUFFICES ASSUME IInv, Ahead, [Next]_vars PROVE Grows /\ Ahead'
  OBVIOUS
<1>1. IInv'
  BY InvNext
<1>2. CASE \E p \in Tabs : Visit(p)
  BY <1>1, <1>2, VisitGrows
<1>3. CASE \E u \in Tasks, p \in Tabs : Begin(u, p)
  BY <1>1, <1>3, BeginGrows
<1>4. CASE \E u \in Tasks : Finish(u)
  BY <1>1, <1>4, FinishGrows
<1>5. CASE UNCHANGED vars
  <2>1. Kept /\ (\A u \in Tasks : task'[u] = task[u] \/ task'[u] = Idle) /\ (demo' => demo)
    BY <1>5 DEF vars, Kept, Exists
  <2> QED
    BY <1>1, <2>1, KeptGrows
<1> QED
  BY <1>2, <1>3, <1>4, <1>5 DEF Next

\* With one operation in flight at a time, however many tabs are open, the
\* trail of a stored case only grows at its end (appendEventInternal, saveCase).
THEOREM TrailsOnlyGrow ==
  ASSUME \E t : Tasks = {t}
  PROVE  Spec => TrailAppendOnly
<1>1. PICK t : Tasks = {t}
  OBVIOUS
<1>2. Init => Ahead
  BY DEF Init, Ahead, Idle
<1>3. IInv /\ Ahead /\ [Next]_vars => Grows /\ Ahead'
  BY <1>1, AheadNext
<1>4. IInv /\ IInv' /\ Ahead /\ [Next]_vars =>
        [\A c \in Cases : Exists(c) /\ store'[c] # NoRecord /\ ~Reseeded(c) =>
           /\ Len(store[c].events) <= Len(store'[c].events)
           /\ Contents(store[c]) = SubSeq(Contents(store'[c]), 1, Len(store[c].events))]_vars
  BY <1>3, GrowsIs
<1>5. Spec => []IInv
  BY Invariant
<1> QED
  BY <1>2, <1>3, <1>4, <1>5, PTL DEF Spec, TrailAppendOnly
===============================================================================
