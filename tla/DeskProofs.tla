----------------------------- MODULE DeskProofs -----------------------------
(***************************************************************************)
(* Proofs about certificates and appeal drafts, for any ledger, any        *)
(* processes and requests, and any bounds.                                 *)
(***************************************************************************)
EXTENDS DeskProperties, FiniteSetTheorems, SequenceTheorems, TLAPS

RowType == [ request : {"filed", "edited"}, status : ApplicationStatus,
             log : Seq(ApplicationStatus), items : [Items -> ItemRow] ]
OpenLedgers == UNION { [open -> SUBSET Phrases] : open \in SUBSET Items }
TaskType == [ feature : {"none", "doctor", "answer", "appeal"}, proc : Procs \cup {NoProc},
              replies : Seq(Reply), ground : SUBSET ApplicationStatus,
              items : OpenLedgers \cup {<<>>} ]

Logged(status) == \E i \in 1..Len(row.log) : row.log[i] = status

\* Every certificate carries a signature over its own fields.
Signed(c) ==
  c = Certificate(c.request, c.id, [key |-> c.sig.key, over |-> CanonicalPayload(c.request, c.id)])

\* A draft being written has one ground, and the log shows it.
Grounded(task) ==
  task.feature = "appeal" => \E g \in ApplicationStatus : task.ground = {g} /\ Logged(g)

IInv ==
  /\ row \in RowType
  /\ tasks \in [Tasks -> TaskType]
  /\ \A c \in issued : Signed(c)
  /\ \A t \in Tasks : Grounded(tasks[t])
-----------------------------------------------------------------------------
(* The operators.                                                          *)

\* A ground found in a log is one event of it: no two events come last.
LEMMA TriggerIsOne ==
  ASSUME NEW log \in Seq(ApplicationStatus), GroundsTrigger(log) # {}
  PROVE  \E i \in 1..Len(log) : GroundsTrigger(log) = {log[i]} /\ log[i] \in ApplicationStatus
<1> DEFINE Last(i) == /\ log[i] \in GROUNDS_CITATION
                      /\ \A j \in (i + 1)..Len(log) : log[j] \notin GROUNDS_CITATION
<1>1. DOMAIN log = 1..Len(log) /\ Len(log) \in Nat
  BY LenProperties
<1>2. GroundsTrigger(log) = { log[i] : i \in { i \in 1..Len(log) : Last(i) } }
  BY <1>1 DEF GroundsTrigger
<1>3. PICK i \in 1..Len(log) : Last(i)
  BY <1>2
<1>4. \A j \in 1..Len(log) : Last(j) => j = i
  <2> SUFFICES ASSUME NEW j \in 1..Len(log), Last(j), j # i PROVE FALSE
    OBVIOUS
  <2>1. j < i \/ i < j
    BY <1>1
  <2>2. CASE j < i
    <3>1. i \in (j + 1)..Len(log)
      BY <1>1, <2>2
    <3> QED
      BY <1>3, <3>1
  <2>3. CASE i < j
    <3>1. j \in (i + 1)..Len(log)
      BY <1>1, <2>3
    <3> QED
      BY <1>3, <3>1
  <2> QED
    BY <2>1, <2>2, <2>3
<1> HIDE DEF Last
<1>5. GroundsTrigger(log) = {log[i]}
  BY <1>2, <1>3, <1>4
<1>6. log[i] \in ApplicationStatus
  BY ElementOfSeq
<1> QED
  BY <1>5, <1>6

\* Moving the case adds to its log and changes nothing else but the status.
LEMMA MovedIs ==
  ASSUME NEW r \in RowType, NEW to \in ApplicationStatus
  PROVE  /\ Moved(r, to) \in RowType
         /\ \A i \in 1..Len(r.log) : i \in 1..Len(Moved(r, to).log) /\ Moved(r, to).log[i] = r.log[i]
<1>1. r.log \in Seq(ApplicationStatus)
  BY DEF RowType
<1>2. /\ Append(r.log, to) \in Seq(ApplicationStatus)
      /\ Len(Append(r.log, to)) = Len(r.log) + 1 /\ Len(r.log) \in Nat
      /\ \A i \in 1..Len(r.log) : Append(r.log, to)[i] = r.log[i]
  BY <1>1, AppendProperties
<1>3. Moved(r, to).log = Append(r.log, to) /\ Moved(r, to) \in RowType
  BY <1>2 DEF Moved, RowType
<1> QED
  BY <1>2, <1>3

\* A precedent is cited for an item only if the item's excerpt says something.
LEMMA CitedHasExcerpt ==
  ASSUME NEW items, NEW m \in PrecedentMatches(items)
  PROVE  m[1] \in DOMAIN items /\ items[m[1]] # {}
<1>1. PICK i \in DOMAIN items : m \in {i} \X MatchPrecedents(items[i])
  BY DEF PrecedentMatches
<1>2. m[1] = i /\ m[2] \in MatchPrecedents(items[i])
  BY <1>1
<1>3. items[i] # {}
  BY <1>2 DEF MatchPrecedents
<1> QED
  BY <1>2, <1>3

LEMMA OpenExcerptsType == row \in RowType => OpenExcerpts \in OpenLedgers
<1> SUFFICES ASSUME row \in RowType PROVE OpenExcerpts \in OpenLedgers
  OBVIOUS
<1>1. OpenItems \in SUBSET Items
  BY DEF OpenItems
<1>2. \A i \in OpenItems : row.items[i].excerpt \in SUBSET Phrases
  BY <1>1 DEF RowType, ItemRow
<1>3. OpenExcerpts \in [OpenItems -> SUBSET Phrases]
  BY <1>2 DEF OpenExcerpts
<1> QED
  BY <1>1, <1>3 DEF OpenLedgers

LEMMA IdleOK == Idle \in TaskType /\ Grounded(Idle)
  BY DEF Idle, TaskType, Grounded
-----------------------------------------------------------------------------
(* Each action keeps the inductive invariant.                              *)

LEMMA InvInit == Init => IInv
<1> SUFFICES ASSUME Init PROVE IInv
  OBVIOUS
<1>1. /\ <<"UNDER_PROCESSING">> \in Seq(ApplicationStatus)
      /\ "UNDER_PROCESSING" \in ApplicationStatus
  BY DEF ApplicationStatus
<1>2. [i \in Items |-> [status |-> "PENDING", excerpt |-> {}]] \in [Items -> ItemRow]
  BY DEF ItemRow
<1>3. row \in RowType
  BY <1>1, <1>2 DEF Init, RowType
<1> QED
  BY <1>3, IdleOK DEF Init, IInv

\* The log only grows, so what is on it stays on it.
LEMMA GroundsStay ==
  ASSUME NEW task, Grounded(task),
         \A i \in 1..Len(row.log) : i \in 1..Len(row'.log) /\ row'.log[i] = row.log[i]
  PROVE  task.feature = "appeal" =>
           \E g \in ApplicationStatus : task.ground = {g} /\ \E i \in 1..Len(row'.log) : row'.log[i] = g
  BY DEF Grounded, Logged

LEMMA RowMoves ==
  ASSUME IInv, row' \in RowType, UNCHANGED <<tasks, issued>>,
         \A i \in 1..Len(row.log) : i \in 1..Len(row'.log) /\ row'.log[i] = row.log[i]
  PROVE  IInv'
<1>1. \A t \in Tasks : Grounded(tasks[t])'
  BY GroundsStay DEF IInv, Grounded, Logged
<1> QED
  BY <1>1 DEF IInv, Signed

\* A step that changes one task, and neither the case nor the certificates.
LEMMA TaskMoves ==
  ASSUME IInv, NEW t, NEW x \in TaskType, Grounded(x), tasks' = [tasks EXCEPT ![t] = x],
         UNCHANGED <<row, issued>>
  PROVE  IInv'
<1>1. tasks' \in [Tasks -> TaskType] /\ \A u \in Tasks : tasks'[u] = IF u = t THEN x ELSE tasks[u]
  BY DEF IInv
<1>2. \A u \in Tasks : Grounded(tasks'[u])
  BY <1>1 DEF IInv
<1> QED
  BY <1>1, <1>2 DEF IInv, Grounded, Logged, Signed

LEMMA BeginKeeps ==
  ASSUME IInv, NEW t \in Tasks, NEW p \in Procs,
         BeginDecompose(t, p) \/ BeginResponse(t, p) \/ BeginDraft(t, p)
  PROVE  IInv'
<1>1. CASE BeginDecompose(t, p)
  <2> DEFINE x == Asking("doctor", p, {}, <<>>)
  <2>1. x \in TaskType /\ Grounded(x)
    BY DEF Asking, TaskType, Grounded
  <2> QED
    BY <1>1, <2>1, TaskMoves DEF BeginDecompose, Begin
<1>2. CASE BeginResponse(t, p)
  <2> DEFINE x == Asking("answer", p, {}, <<>>)
  <2>1. x \in TaskType /\ Grounded(x)
    BY DEF Asking, TaskType, Grounded
  <2> QED
    BY <1>2, <2>1, TaskMoves DEF BeginResponse, Begin
<1>3. CASE BeginDraft(t, p)
  <2> DEFINE ground == GroundsTrigger(row.log)
             x == Asking("appeal", p, ground, OpenExcerpts)
  <2>1. /\ ground # {} /\ tasks' = [tasks EXCEPT ![t] = x] /\ UNCHANGED <<row, issued>>
    BY <1>3 DEF BeginDraft, Begin
  <2>2. row.log \in Seq(ApplicationStatus) /\ OpenExcerpts \in OpenLedgers
    BY OpenExcerptsType DEF IInv, RowType
  <2>3. PICK i \in 1..Len(row.log) : ground = {row.log[i]} /\ row.log[i] \in ApplicationStatus
    BY <2>1, <2>2, TriggerIsOne
  <2>4. x = [feature |-> "appeal", proc |-> p, replies |-> <<>>, ground |-> ground, items |-> OpenExcerpts]
    BY DEF Asking
  <2> HIDE DEF ground, x
  <2>5. x \in TaskType /\ x.ground = ground
    BY <2>2, <2>3, <2>4 DEF TaskType
  <2>6. Grounded(x)
    BY <2>3, <2>5 DEF Grounded, Logged
  <2> QED
    BY <2>1, <2>5, <2>6, TaskMoves
<1> QED
  BY <1>1, <1>2, <1>3

LEMMA ReplyKeeps ==
  ASSUME IInv, NEW t \in Tasks, ModelReplies(t)
  PROVE  IInv'
<1>1. UNCHANGED issued /\ tasks[t] \in TaskType /\ Grounded(tasks[t])
  BY DEF ModelReplies, IInv
<1>2. CASE Deliver(tasks[t]) /\ tasks' = [tasks EXCEPT ![t] = Idle]
  <2>1. row' = row \/ \E items \in [Items -> ItemRow] :
          row' = Moved([row EXCEPT !.items = items], "RESPONSE_RECEIVED")
    BY <1>2 DEF Deliver
  <2>2. /\ row' \in RowType
        /\ \A i \in 1..Len(row.log) : i \in 1..Len(row'.log) /\ row'.log[i] = row.log[i]
    <3>1. CASE row' = row
      BY <3>1 DEF IInv
    <3>2. CASE \E items \in [Items -> ItemRow] :
                 row' = Moved([row EXCEPT !.items = items], "RESPONSE_RECEIVED")
      <4> PICK items \in [Items -> ItemRow] :
                 row' = Moved([row EXCEPT !.items = items], "RESPONSE_RECEIVED")
        BY <3>2
      <4> DEFINE r == [row EXCEPT !.items = items]
      <4>1. r \in RowType /\ r.log = row.log
        BY DEF IInv, RowType
      <4>2. "RESPONSE_RECEIVED" \in ApplicationStatus
        BY DEF ApplicationStatus
      <4> HIDE DEF r
      <4>3. /\ Moved(r, "RESPONSE_RECEIVED") \in RowType
            /\ \A i \in 1..Len(r.log) : /\ i \in 1..Len(Moved(r, "RESPONSE_RECEIVED").log)
                                        /\ Moved(r, "RESPONSE_RECEIVED").log[i] = r.log[i]
        BY <4>1, <4>2, MovedIs
      <4> QED
        BY <4>1, <4>3 DEF r
    <3> QED
      BY <2>1, <3>1, <3>2
  <2>3. tasks' \in [Tasks -> TaskType] /\ \A u \in Tasks : tasks'[u] = Idle \/ tasks'[u] = tasks[u]
    BY <1>2, IdleOK DEF IInv
  <2>4. \A u \in Tasks : Grounded(tasks[u])'
    BY <2>2, <2>3, GroundsStay, IdleOK DEF IInv, Grounded, Logged, Idle
  <2> QED
    BY <1>1, <2>2, <2>3, <2>4 DEF IInv, Signed
<1>3. CASE /\ UNCHANGED row
           /\ \E reply \in Reply :
                LET replies == Append(tasks[t].replies, reply)
                IN tasks' = [tasks EXCEPT ![t] =
                     IF AsksAgain(replies) THEN [@ EXCEPT !.replies = replies] ELSE Idle]
  <2> PICK reply \in Reply :
        tasks' = [tasks EXCEPT ![t] =
          IF AsksAgain(Append(tasks[t].replies, reply))
          THEN [tasks[t] EXCEPT !.replies = Append(tasks[t].replies, reply)] ELSE Idle]
    BY <1>3
  <2> DEFINE replies == Append(tasks[t].replies, reply)
             asked == [tasks[t] EXCEPT !.replies = replies]
  <2>1. replies \in Seq(Reply)
    BY <1>1, AppendProperties DEF TaskType
  <2>2. tasks' = [tasks EXCEPT ![t] = IF AsksAgain(replies) THEN asked ELSE Idle]
    OBVIOUS
  <2> HIDE DEF replies
  <2>3. asked \in TaskType /\ asked.feature = tasks[t].feature /\ asked.ground = tasks[t].ground
    BY <1>1, <2>1 DEF TaskType
  <2> HIDE DEF asked
  <2>4. Grounded(asked)
    BY <1>1, <2>3 DEF Grounded
  <2> QED
    BY <1>1, <1>3, <2>2, <2>3, <2>4, IdleOK, TaskMoves
<1> QED
  BY <1>2, <1>3 DEF ModelReplies

LEMMA InvNext == IInv /\ [Next]_vars => IInv'
<1> SUFFICES ASSUME IInv, [Next]_vars PROVE IInv'
  OBVIOUS
<1>1. CASE MoveCase
  <2> PICK to \in ApplicationStatus : row' = Moved(row, to) /\ UNCHANGED <<tasks, issued>>
    BY <1>1 DEF MoveCase
  <2>1. /\ row' \in RowType
        /\ \A i \in 1..Len(row.log) : i \in 1..Len(row'.log) /\ row'.log[i] = row.log[i]
    BY MovedIs DEF IInv
  <2> QED
    BY <2>1, RowMoves
<1>2. CASE EditRequest
  <2>1. row' = [row EXCEPT !.request = "edited"] /\ UNCHANGED <<tasks, issued>>
    BY <1>2 DEF EditRequest
  <2>2. row' \in RowType /\ row'.log = row.log
    BY <2>1 DEF IInv, RowType
  <2> QED
    BY <2>1, <2>2, RowMoves
<1>3. CASE ReplaceKey
  BY <1>3 DEF ReplaceKey, IInv, Grounded, Logged, Signed
<1>4. ASSUME NEW p \in Procs, IssueCertificate(p)
      PROVE  IInv'
  <2> DEFINE c == Certificate(row.request, procs[p].id,
             [key |-> SigningKey(p), over |-> CanonicalPayload(row.request, procs[p].id)])
  <2>1. issued' = issued \cup {c} /\ UNCHANGED <<row, tasks>>
    BY <1>4 DEF IssueCertificate
  <2>2. Signed(c)
    BY DEF Signed, Certificate
  <2> HIDE DEF c
  <2>3. \A d \in issued' : Signed(d)
    BY <2>1, <2>2 DEF IInv
  <2> QED
    BY <2>1, <2>3 DEF IInv, Grounded, Logged, Signed
<1>5. ASSUME NEW p \in Procs, VerifyCertificate(p)
      PROVE  IInv'
  BY <1>5 DEF VerifyCertificate, IInv, Grounded, Logged, Signed
<1>6. ASSUME NEW p \in Procs, Restart(p)
      PROVE  IInv'
  <2>1. /\ UNCHANGED <<row, issued>>
        /\ tasks' = [t \in Tasks |-> IF tasks[t].proc = p THEN Idle ELSE tasks[t]]
    BY <1>6 DEF Restart
  <2>2. tasks' \in [Tasks -> TaskType] /\ \A t \in Tasks : Grounded(tasks'[t])
    BY <2>1, IdleOK DEF IInv
  <2> QED
    BY <2>1, <2>2 DEF IInv, Grounded, Logged, Signed
<1>7. CASE Serve
  BY <1>4, <1>5, <1>6, <1>7, BeginKeeps DEF Serve
<1>8. CASE \E t \in Tasks : ModelReplies(t)
  BY <1>8, ReplyKeeps
<1>9. CASE UNCHANGED vars
  BY <1>9 DEF vars, IInv, Grounded, Logged, Signed
<1> QED
  BY <1>1, <1>2, <1>3, <1>7, <1>8, <1>9 DEF Next

LEMMA Invariant == Spec => []IInv
  BY InvInit, InvNext, PTL DEF Spec
-----------------------------------------------------------------------------
(* From the inductive invariant to the properties.                         *)

\* What a signature over its own fields makes of a copy.
LEMMA CopyOfSigned ==
  ASSUME NEW c, Signed(c), NEW copy \in Copies(c), NEW key,
         copy.sig = [key |-> key, over |-> CanonicalPayload(copy.request, copy.id)]
  PROVE  copy = c
<1> PICK request, id, k :
      c = [request |-> request, id |-> id, sig |-> [key |-> k, over |-> <<request, id>>]]
  BY DEF Signed, Certificate, CanonicalPayload
<1>1. /\ c.request = request /\ c.id = id
      /\ c.sig = [key |-> k, over |-> <<request, id>>] /\ c.sig.over = <<request, id>>
  OBVIOUS
<1>2. copy.sig = c.sig /\ (copy # c => copy = [request |-> copy.request, id |-> copy.id, sig |-> c.sig])
  BY DEF Copies
<1>3. copy.sig.over = <<copy.request, copy.id>>
  BY DEF CanonicalPayload
<1>4. <<copy.request, copy.id>> = <<request, id>>
  BY <1>1, <1>2, <1>3
<1>5. copy.request = request /\ copy.id = id
  BY <1>4
<1> QED
  BY <1>1, <1>2, <1>5

LEMMA InvValid == IInv => ValidMeansIssued
<1> SUFFICES ASSUME IInv, NEW p \in Procs, NEW c \in issued, NEW copy \in Copies(c)
             PROVE  Verdict(p, copy) = "valid" <=>
                      /\ copy \in issued
                      /\ copy.request = row.request
                      /\ copy.id = procs[p].id /\ copy.sig.key = SigningKey(p)
  BY DEF ValidMeansIssued
<1>1. Signed(c)
  BY DEF IInv
<1>2. Verdict(p, copy) = "valid" <=>
        /\ copy.id = procs[p].id
        /\ copy.sig = [key |-> SigningKey(p), over |-> CanonicalPayload(copy.request, copy.id)]
        /\ copy.request = row.request
  BY DEF Verdict, PublicKey
<1>3. ASSUME copy.sig = [key |-> SigningKey(p), over |-> CanonicalPayload(copy.request, copy.id)]
      PROVE  copy \in issued /\ copy.sig.key = SigningKey(p)
  <2>1. copy = c
    BY <1>1, <1>3, CopyOfSigned
  <2> QED
    BY <1>3, <2>1
<1>4. ASSUME copy \in issued, copy.sig.key = SigningKey(p)
      PROVE  copy.sig = [key |-> SigningKey(p), over |-> CanonicalPayload(copy.request, copy.id)]
  <2>1. Signed(copy)
    BY <1>4 DEF IInv
  <2> PICK request, id, k :
        copy = [request |-> request, id |-> id, sig |-> [key |-> k, over |-> CanonicalPayload(request, id)]]
    BY <2>1 DEF Signed, Certificate
  <2>2. copy.request = request /\ copy.id = id
        /\ copy.sig = [key |-> k, over |-> CanonicalPayload(request, id)] /\ copy.sig.key = k
    OBVIOUS
  <2> QED
    BY <1>4, <2>2
<1> QED
  BY <1>2, <1>3, <1>4

LEMMA InvDraft == IInv => DraftStandsOnLog
<1> SUFFICES ASSUME IInv, NEW t \in Busy, tasks[t].feature = "appeal"
             PROVE  LET draft == AppealDraft(tasks[t])
                    IN /\ Cardinality(draft.ground) = 1
                       /\ \A g \in draft.ground : \E i \in DOMAIN row.log : row.log[i] = g
                       /\ \A m \in draft.matches : m[1] \in DOMAIN draft.items /\ draft.items[m[1]] # {}
  BY DEF DraftStandsOnLog
<1> DEFINE draft == AppealDraft(tasks[t])
<1>1. /\ draft.ground = tasks[t].ground /\ draft.items = tasks[t].items
      /\ draft.matches = PrecedentMatches(tasks[t].items)
  BY DEF AppealDraft
<1>2. PICK g \in ApplicationStatus : tasks[t].ground = {g} /\ \E i \in 1..Len(row.log) : row.log[i] = g
  BY DEF IInv, Busy, Grounded, Logged
<1>3. DOMAIN row.log = 1..Len(row.log)
  BY LenProperties DEF IInv, RowType
<1> HIDE DEF draft
<1>4. Cardinality(draft.ground) = 1
  BY <1>1, <1>2, FS_Singleton
<1>5. \A h \in draft.ground : \E i \in DOMAIN row.log : row.log[i] = h
  BY <1>1, <1>2, <1>3
<1>6. \A m \in draft.matches : m[1] \in DOMAIN draft.items /\ draft.items[m[1]] # {}
  BY <1>1, CitedHasExcerpt
<1> QED
  BY <1>4, <1>5, <1>6 DEF draft
-----------------------------------------------------------------------------
(* The theorems.                                                           *)

\* Of the copies of a certificate, miscopied ones among them, a process calls
\* valid exactly the one that was issued, over the request as it is stored and
\* with the key the process signs with, whatever was done to the key file and
\* whoever restarted since (certificate.py, keys.py).
THEOREM OnlyIssuedIsValid == Spec => []ValidMeansIssued
  BY Invariant, InvValid, PTL

\* A draft stands on one event the log still shows and cites precedents for
\* its own open items only, wherever the case moves while the model writes
\* (appeal_engine/compiler.py).
THEOREM DraftsStandOnLog == Spec => []DraftStandsOnLog
  BY Invariant, InvDraft, PTL
=============================================================================
