---------------------------- MODULE FilingProofs ----------------------------
(***************************************************************************)
(* Proofs about filing a request, for any number of visits, presses and    *)
(* other clients.                                                          *)
(***************************************************************************)
EXTENDS FilingProperties, SequenceTheorems, TLAPS

Sources == {"citizen", "doctor"}
Targets == Authorities \cup {NoAuthority, CHOOSE a \in Authorities : TRUE}
TextType == [words : Words, passes : Nat]
VersionType == [version : Nat, source : Sources, text : TextType]
PageType ==
  [ at : {"create", "other", "case"}, step : 0..4, text : TextType, chosen : Targets,
    applied : BOOLEAN, creating : BOOLEAN, error : {"none", "authority", "failed"},
    prefill : Seq(VersionType) ]
FilingType ==
  [ id : Nat, visit : Nat, text : TextType, target : Targets, versions : Seq(VersionType),
    app : Nat \cup {NoApp}, state : {"waiting", "storing", "failed", "done", "closed"},
    call : 1..5, net : {"sent", "ok", "error"}, made : Nat \cup {NoApp} ]
EventTypes == {"VALIDATED", "READY_TO_FILE", "SUBMITTED"}
Event == [type : EventTypes \cup {"DRAFT_CREATED"}, actor : {"page", "other"}]
RowType == [ by : Nat, text : TextType, authority : Targets, status : EventTypes \cup {"DRAFT"},
             log : Seq(Event), audit : Seq(EventTypes \cup {"CREATE"}) ]
RecordType == [ visit : Nat, app : Nat \cup {NoApp}, authority : Targets, text : TextType,
                versions : Seq(VersionType), acked : 0..4 ]

Types ==
  /\ page \in PageType /\ visit \in Nat
  /\ filings \in Seq(FilingType) /\ strays \in SUBSET FilingType
  /\ db \in Seq(RowType) /\ records \in Seq(RecordType)

\* A script knows the application it made, and links it from its second call on.
FilingOK(i, f) ==
  /\ f.id = i /\ f.visit <= visit
  /\ f.made # NoApp => f.made \in 1..Len(db) /\ db[f.made].by = i
  /\ f.app = (IF f.call = 1 THEN NoApp ELSE f.made)
  /\ f.made = NoApp => f.call = 1
  /\ f.state = "waiting" => /\ f.call <= 4
                            /\ f.net = "ok" => f.made # NoApp
                            /\ f.net # "ok" /\ f.call = 1 => f.made = NoApp

\* A stray is what the script sent before it gave up.
StrayOK(s) ==
  /\ s.id \in 1..Len(filings) /\ s.call <= 4
  /\ LET f == filings[s.id]
     IN /\ f.state # "waiting"
        /\ s.text = f.text /\ s.target = f.target
        /\ s.app = f.app /\ s.call = f.call /\ s.made = f.made
        /\ s.call = 1 => s.made = NoApp
OneStrayEach == \A s, t \in strays : s.id = t.id => s = t

\* How far the script of a row is: its log holds the answered calls and at
\* most the one that is under way.
Reached(row, f, m) ==
  /\ m \in 1..4 /\ m \in {f.call - 1, f.call}
  /\ MadeInOrder(row, m)
  /\ f.state = "waiting" => m = (IF f.net = "ok" THEN f.call ELSE f.call - 1)
  /\ (\E s \in strays : s.id = f.id) => m = f.call - 1
RowOK(a, row) ==
  /\ row.by \in 1..Len(filings)
  /\ LET f == filings[row.by]
     IN /\ row.text = f.text /\ row.authority = f.target
        /\ f.made \in {NoApp, a}
        /\ f.made = NoApp => f.state # "waiting" /\ \A s \in strays : s.id # f.id
        /\ \E m \in 1..4 : Reached(row, f, m)
OneRowEach == \A a, b \in 1..Len(db) : db[a].by = db[b].by => a = b

\* A script that may still open a case, or has.
Live(f) == f.state \in {"waiting", "storing", "done"}
OneLiveEach ==
  \A i, j \in 1..Len(filings) :
    Live(filings[i]) /\ Live(filings[j]) /\ filings[i].visit = filings[j].visit => i = j
ButtonMeansNone ==
  page.at = "create" /\ ~page.creating =>
    \A i \in 1..Len(filings) : Live(filings[i]) => filings[i].visit # visit

RecordOK(r) ==
  \E i \in 1..Len(filings) :
    /\ filings[i].state = "done" /\ filings[i].visit = r.visit
    /\ filings[i].app = r.app /\ filings[i].text = r.text /\ filings[i].target = r.authority
OneRecordEach == \A q, r \in 1..Len(records) : records[q].visit = records[r].visit => q = r

IInv ==
  /\ Types
  /\ \A i \in 1..Len(filings) : FilingOK(i, filings[i])
  /\ \A s \in strays : StrayOK(s)
  /\ OneStrayEach
  /\ \A a \in 1..Len(db) : RowOK(a, db[a])
  /\ OneRowEach
  /\ OneLiveEach /\ ButtonMeansNone
  /\ \A r \in 1..Len(records) : RecordOK(records[r])
  /\ OneRecordEach
-----------------------------------------------------------------------------
(* The log of a row.                                                       *)

LEMMA CallsAre ==
  /\ DOMAIN Calls = 1..4
  /\ \A k \in 2..4 : Calls[k] \in EventTypes /\ LeftBy(k) = Calls[k]
<1>1. DOMAIN Calls = 1..4
  BY DEF Calls
<1>2. Calls[2] = "VALIDATED" /\ Calls[3] = "READY_TO_FILE" /\ Calls[4] = "SUBMITTED"
  BY DEF Calls
<1>3. \A k \in 2..4 : k = 2 \/ k = 3 \/ k = 4
  OBVIOUS
<1>4. \A k \in 2..4 : Calls[k] \in EventTypes
  BY <1>2, <1>3 DEF EventTypes
<1> QED
  BY <1>1, <1>4 DEF LeftBy

\* The first call leaves a row with its one event.
LEMMA RowMade ==
  ASSUME NEW f \in FilingType
  PROVE  /\ Row(f) \in RowType /\ MadeInOrder(Row(f), 1)
         /\ Row(f).by = f.id /\ Row(f).text = f.text /\ Row(f).authority = f.target
<1> DEFINE first == [type |-> "DRAFT_CREATED", actor |-> "page"]
<1>1. first \in Event
  BY DEF Event
<1> HIDE DEF first
<1>2. <<first>> \in Seq(Event)
  BY <1>1
<1>3. <<"CREATE">> \in Seq(EventTypes \cup {"CREATE"})
  OBVIOUS
<1>4. Row(f) = [ by |-> f.id, text |-> f.text, authority |-> f.target, status |-> "DRAFT",
                 log |-> <<first>>, audit |-> <<"CREATE">> ]
  BY DEF Row, INITIAL_STATE, first
<1>5. f.id \in Nat /\ f.text \in TextType /\ f.target \in Targets
  BY DEF FilingType
<1>6. Row(f) \in RowType
  BY <1>2, <1>3, <1>4, <1>5 DEF RowType
<1>7. Row(f).log = <<first>>
  BY <1>4
<1>8. PageSteps(Row(f)) = {1}
  BY <1>7 DEF PageSteps, first
<1>9. [n \in 1..1 |-> 1] \in [1..1 -> PageSteps(Row(f))]
  BY <1>8
<1>10. MadeInOrder(Row(f), 1)
  <2> DEFINE at == [n \in 1..1 |-> 1]
  <2>1. PageSteps(Row(f)) = { at[n] : n \in 1..1 }
    BY <1>8
  <2>2. \A n \in 1..1 : Row(f).log[at[n]].type = LeftBy(n)
    BY <1>7 DEF LeftBy, first
  <2>3. \A n \in 1..1 : \A k \in 1..1 : k < n => at[k] < at[n]
    OBVIOUS
  <2> QED
    BY <1>9, <2>1, <2>2, <2>3 DEF MadeInOrder
<1> QED
  BY <1>6, <1>10, <1>4

\* An allowed event is one more entry of the log.
LEMMA Logged ==
  ASSUME NEW row \in RowType, NEW type \in EventTypes, NEW actor \in {"page", "other"},
         IsTransitionAllowed(row.status, type)
  PROVE  LET q == RecordEvent(row, type, actor)
         IN /\ q \in RowType
            /\ q.by = row.by /\ q.text = row.text /\ q.authority = row.authority
            /\ DOMAIN q.log = 1..(Len(row.log) + 1)
            /\ q.log[Len(row.log) + 1] = [type |-> type, actor |-> actor]
            /\ \A i \in 1..Len(row.log) : q.log[i] = row.log[i]
<1> DEFINE e == [type |-> type, actor |-> actor]
<1> DEFINE q == RecordEvent(row, type, actor)
<1>1. row.log \in Seq(Event) /\ e \in Event /\ row.audit \in Seq(EventTypes \cup {"CREATE"})
  BY DEF RowType, Event
<1>2. /\ Append(row.log, e) \in Seq(Event) /\ Append(row.audit, type) \in Seq(EventTypes \cup {"CREATE"})
      /\ Len(Append(row.log, e)) = Len(row.log) + 1
      /\ Append(row.log, e)[Len(row.log) + 1] = e
      /\ \A i \in 1..Len(row.log) : Append(row.log, e)[i] = row.log[i]
  BY <1>1, AppendProperties
<1>3. q = [row EXCEPT !.status = type, !.log = Append(row.log, e), !.audit = Append(row.audit, type)]
  BY DEF RecordEvent
<1> HIDE DEF e
<1>4. q \in RowType /\ q.log = Append(row.log, e) /\ q.by = row.by /\ q.text = row.text
      /\ q.authority = row.authority
  BY <1>2, <1>3 DEF RowType
<1>5. DOMAIN q.log = 1..(Len(row.log) + 1)
  BY <1>2, <1>4, LenProperties
<1> QED
  BY <1>2, <1>4, <1>5 DEF e

LEMMA StepsAre ==
  ASSUME NEW row \in RowType
  PROVE  /\ PageSteps(row) \subseteq 1..Len(row.log) /\ Len(row.log) \in Nat
         /\ DOMAIN row.log = 1..Len(row.log)
<1>1. row.log \in Seq(Event)
  BY DEF RowType
<1> QED
  BY <1>1, LenProperties DEF PageSteps

\* An event of somebody else leaves the page's own as they were.
LEMMA OtherKeeps ==
  ASSUME NEW row \in RowType, NEW type \in EventTypes, NEW m \in 1..4, MadeInOrder(row, m)
  PROVE  MadeInOrder(RecordEvent(row, type, "other"), m)
<1> DEFINE q == RecordEvent(row, type, "other")
<1>1. CASE ~IsTransitionAllowed(row.status, type)
  BY <1>1 DEF RecordEvent
<1>2. CASE IsTransitionAllowed(row.status, type)
  <2> DEFINE n == Len(row.log)
  <2>1. /\ DOMAIN q.log = 1..(n + 1) /\ q.log[n + 1] = [type |-> type, actor |-> "other"]
        /\ \A i \in 1..n : q.log[i] = row.log[i]
    BY <1>2, Logged
  <2>2. PageSteps(row) \subseteq 1..n /\ n \in Nat /\ DOMAIN row.log = 1..n
    BY StepsAre
  <2> HIDE DEF n, q
  <2>3. PageSteps(q) = PageSteps(row)
    BY <2>1, <2>2 DEF PageSteps
  <2>4. PICK at \in [1..m -> PageSteps(row)] :
          /\ PageSteps(row) = { at[k] : k \in 1..m }
          /\ \A k \in 1..m : /\ row.log[at[k]].type = LeftBy(k)
                            /\ \A j \in 1..m : j < k => at[j] < at[k]
    BY DEF MadeInOrder
  <2>5. \A k \in 1..m : at[k] \in 1..n /\ q.log[at[k]] = row.log[at[k]]
    BY <2>1, <2>2
  <2>6. MadeInOrder(q, m)
    BY <2>3, <2>4, <2>5 DEF MadeInOrder
  <2> QED
    BY <2>6 DEF q
<1> QED
  BY <1>1, <1>2

\* The next call of the page adds its own event, after the others.
LEMMA PageStepMade ==
  ASSUME NEW row \in RowType, NEW k \in 2..4, MadeInOrder(row, k - 1),
         IsTransitionAllowed(row.status, Calls[k])
  PROVE  MadeInOrder(RecordEvent(row, Calls[k], "page"), k)
<1> DEFINE q == RecordEvent(row, Calls[k], "page")
           n == Len(row.log)
<1>0. Calls[k] \in EventTypes
  BY CallsAre
<1>1. /\ DOMAIN q.log = 1..(n + 1) /\ q.log[n + 1] = [type |-> Calls[k], actor |-> "page"]
      /\ \A i \in 1..n : q.log[i] = row.log[i]
  BY <1>0, Logged
<1>2. PageSteps(row) \subseteq 1..n /\ n \in Nat /\ DOMAIN row.log = 1..n
  BY StepsAre
<1> HIDE DEF n, q
<1>3. PageSteps(q) = PageSteps(row) \cup {n + 1}
  BY <1>1, <1>2 DEF PageSteps
<1>4. PICK at \in [1..(k - 1) -> PageSteps(row)] :
        /\ PageSteps(row) = { at[i] : i \in 1..(k - 1) }
        /\ \A i \in 1..(k - 1) : /\ row.log[at[i]].type = LeftBy(i)
                                /\ \A j \in 1..(k - 1) : j < i => at[j] < at[i]
  BY DEF MadeInOrder
<1> DEFINE to == [i \in 1..k |-> IF i = k THEN n + 1 ELSE at[i]]
<1>5. /\ to \in [1..k -> PageSteps(q)] /\ to[k] = n + 1
      /\ \A i \in 1..(k - 1) : to[i] = at[i] /\ at[i] \in 1..n
  BY <1>2, <1>3
<1> HIDE DEF to
<1>6. PageSteps(q) = { to[i] : i \in 1..k }
  <2>1. \A x \in PageSteps(q) : \E i \in 1..k : x = to[i]
    <3> TAKE x \in PageSteps(q)
    <3>1. CASE x = n + 1
      BY <3>1, <1>5
    <3>2. CASE x # n + 1
      <4>1. PICK i \in 1..(k - 1) : x = at[i]
        BY <3>2, <1>3, <1>4
      <4> QED
        BY <4>1, <1>5
    <3> QED
      BY <3>1, <3>2
  <2> QED
    BY <2>1, <1>5
<1>7. \A i \in 1..k : q.log[to[i]].type = LeftBy(i)
  <2> TAKE i \in 1..k
  <2>1. CASE i = k
    BY <2>1, <1>1, <1>5, CallsAre
  <2>2. CASE i # k
    <3>1. i \in 1..(k - 1)
      BY <2>2
    <3> QED
      BY <3>1, <1>1, <1>4, <1>5
  <2> QED
    BY <2>1, <2>2
<1>8. \A i, j \in 1..k : j < i => to[j] < to[i]
  <2> SUFFICES ASSUME NEW i \in 1..k, NEW j \in 1..k, j < i PROVE to[j] < to[i]
    OBVIOUS
  <2>1. j \in 1..(k - 1)
    OBVIOUS
  <2>2. CASE i = k
    BY <2>1, <2>2, <1>2, <1>5
  <2>3. CASE i # k
    <3>1. i \in 1..(k - 1)
      BY <2>3
    <3> QED
      BY <3>1, <2>1, <1>4, <1>5
  <2> QED
    BY <2>2, <2>3
<1>9. MadeInOrder(q, k)
  BY <1>5, <1>6, <1>7, <1>8 DEF MadeInOrder
<1> QED
  BY <1>9 DEF q

LEMMA Recorded ==
  ASSUME NEW row \in RowType, NEW type \in EventTypes, NEW actor \in {"page", "other"}
  PROVE  LET q == RecordEvent(row, type, actor)
         IN q \in RowType /\ q.by = row.by /\ q.text = row.text /\ q.authority = row.authority
<1>1. CASE IsTransitionAllowed(row.status, type)
  BY <1>1, Logged
<1>2. CASE ~IsTransitionAllowed(row.status, type)
  BY <1>2 DEF RecordEvent
<1> QED
  BY <1>1, <1>2
-----------------------------------------------------------------------------
(* The page.                                                               *)

LEMMA TextsAre ==
  /\ \A w \in Words : Typed(w) \in TextType
  /\ \A t \in TextType : AnalyzeRequest(t) \in TextType
  /\ \A t \in TextType : SuggestAuthority(t) \in Targets
  BY DEF Typed, TextType, AnalyzeRequest, SuggestAuthority, Targets

LEMMA VersionsAre ==
  ASSUME NEW t \in TextType, NEW n \in Nat, NEW source \in Sources
  PROVE  Version(n, source, t) \in VersionType
  BY DEF Version, VersionType

LEMMA PagesAre ==
  ASSUME NEW step \in 0..4, NEW t \in TextType, NEW prefill \in Seq(VersionType)
  PROVE  /\ CreatePage(step, t, prefill) \in PageType
         /\ \A at \in {"other", "case"} : Elsewhere(at) \in PageType /\ Elsewhere(at).at = at
<1>1. CreatePage(step, t, prefill) \in PageType
  BY DEF CreatePage, PageType, Targets
<1>2. Typed("brief") \in TextType
  BY TextsAre DEF Words
<1>3. CreatePage(0, Typed("brief"), <<>>) \in PageType
  BY <1>2 DEF CreatePage, PageType, Targets
<1> QED
  BY <1>1, <1>3 DEF Elsewhere, PageType

LEMMA ElsewhereIs == \A at \in {"other", "case"} : Elsewhere(at) \in PageType /\ Elsewhere(at).at = at
<1>1. Typed("brief") \in TextType /\ <<>> \in Seq(VersionType) /\ 0 \in 0..4
  BY TextsAre DEF Words
<1> QED
  BY <1>1, PagesAre

LEMMA InvInit == Init => IInv
<1> SUFFICES ASSUME Init PROVE IInv
  OBVIOUS
<1>1. /\ filings = <<>> /\ strays = {} /\ db = <<>> /\ records = <<>> /\ visit = 0
      /\ page = Elsewhere("other")
  BY DEF Init
<1>2. page \in PageType /\ page.at = "other"
  BY <1>1, ElsewhereIs
<1>3. Len(filings) = 0 /\ Len(db) = 0 /\ Len(records) = 0
  BY <1>1
<1>4. Types
  BY <1>1, <1>2 DEF Types
<1> QED
  BY <1>1, <1>2, <1>3, <1>4
     DEF IInv, OneStrayEach, OneRowEach, OneLiveEach, ButtonMeansNone, OneRecordEach

\* A step of the page alone.
LEMMA PageMoves ==
  ASSUME IInv, page' \in PageType, visit' \in Nat, visit' >= visit,
         UNCHANGED <<filings, strays, db, records>>, ButtonMeansNone'
  PROVE  IInv'
<1>1. Types'
  BY DEF IInv, Types
<1>2. \A i \in 1..Len(filings) : FilingOK(i, filings[i])'
  <2> TAKE i \in 1..Len(filings)
  <2>1. FilingOK(i, filings[i]) /\ filings[i] \in FilingType
    BY ElementOfSeq DEF IInv, Types
  <2>2. filings[i].visit \in Nat /\ visit \in Nat
    BY <2>1 DEF FilingType, IInv, Types
  <2> QED
    BY <2>1, <2>2 DEF FilingOK
<1>3. \A s \in strays : StrayOK(s)'
  BY DEF IInv, StrayOK
<1>4. \A a \in 1..Len(db) : RowOK(a, db[a])'
  BY DEF IInv, RowOK, Reached
<1>5. \A r \in 1..Len(records) : RecordOK(records[r])'
  BY DEF IInv, RecordOK
<1> QED
  BY <1>1, <1>2, <1>3, <1>4, <1>5 DEF IInv, OneStrayEach, OneRowEach, OneLiveEach, OneRecordEach

LEMMA ShownKeeps ==
  ASSUME IInv, NEW p \in PageType, Shown(p),
         p.at = "create" => page.at = "create" /\ p.creating = page.creating
  PROVE  IInv'
<1>1. page' = p /\ UNCHANGED <<visit, filings, strays, db, records>>
  BY DEF Shown, browser
<1>2. ButtonMeansNone'
  BY <1>1 DEF IInv, ButtonMeansNone
<1> QED
  BY <1>1, <1>2, PageMoves DEF IInv, Types

LEMMA OpenKeeps ==
  ASSUME IInv, NEW step \in 0..4, NEW t \in TextType, NEW prefill \in Seq(VersionType),
         page' = CreatePage(step, t, prefill), visit' = visit + 1, UNCHANGED browser
  PROVE  IInv'
<1>1. page' \in PageType
  BY PagesAre
<1>2. visit \in Nat /\ visit' \in Nat /\ visit' >= visit /\ UNCHANGED <<filings, strays, db, records>>
  BY DEF IInv, Types, browser
<1>3. \A i \in 1..Len(filings) : filings[i].visit # visit'
  <2> TAKE i \in 1..Len(filings)
  <2>1. filings[i].visit <= visit /\ filings[i] \in FilingType
    BY ElementOfSeq DEF IInv, Types, FilingOK
  <2> QED
    BY <2>1, <1>2 DEF FilingType
<1>4. ButtonMeansNone'
  BY <1>2, <1>3 DEF ButtonMeansNone
<1> QED
  BY <1>1, <1>2, <1>4, PageMoves

LEMMA OpenCreateKeeps == IInv /\ OpenCreate => IInv'
<1> SUFFICES ASSUME IInv, OpenCreate PROVE IInv'
  OBVIOUS
<1>1. Typed("brief") \in TextType /\ <<>> \in Seq(VersionType) /\ 0 \in 0..4
  BY TextsAre DEF Words
<1>2. page' = CreatePage(0, Typed("brief"), <<>>) /\ visit' = visit + 1 /\ UNCHANGED browser
  BY DEF OpenCreate
<1> QED
  BY <1>1, <1>2, OpenKeeps

LEMMA UseRevisionKeeps ==
  ASSUME IInv, NEW w \in Words, UseRevision(Typed(w))
  PROVE  IInv'
<1> DEFINE t == Typed(w)
<1>1. t \in TextType /\ AnalyzeRequest(t) \in TextType
  BY TextsAre
<1>2. Version(1, "citizen", t) \in VersionType /\ Version(2, "doctor", AnalyzeRequest(t)) \in VersionType
  BY <1>1, VersionsAre DEF Sources
<1>3. VersionsFor(t) \in Seq(VersionType)
  BY <1>2 DEF VersionsFor
<1>4. page' = CreatePage(3, AnalyzeRequest(t), VersionsFor(t)) /\ visit' = visit + 1
      /\ UNCHANGED browser
  BY DEF UseRevision
<1> HIDE DEF t
<1> QED
  BY <1>1, <1>3, <1>4, OpenKeeps

\* What the citizen does on the open page leaves the button as it is.
LEMMA ShownPagesAre ==
  ASSUME IInv, CreateOpen
  PROVE  /\ \A w \in Words : /\ [page EXCEPT !.text = Typed(w)] \in PageType
                            /\ [page EXCEPT !.text = Typed(w)].creating = page.creating
         /\ \A a \in Authorities \cup {NoAuthority} :
              /\ [page EXCEPT !.chosen = a] \in PageType
              /\ [page EXCEPT !.chosen = a].creating = page.creating
         /\ \A n \in 0..4 : /\ [page EXCEPT !.step = n] \in PageType
                           /\ [page EXCEPT !.step = n].creating = page.creating
         /\ /\ [page EXCEPT !.text = AnalyzeRequest(@), !.applied = TRUE] \in PageType
            /\ [page EXCEPT !.text = AnalyzeRequest(@), !.applied = TRUE].creating = page.creating
         /\ /\ [page EXCEPT !.applied = TRUE] \in PageType
            /\ [page EXCEPT !.applied = TRUE].creating = page.creating
         /\ /\ [page EXCEPT !.prefill = <<>>] \in PageType
            /\ [page EXCEPT !.prefill = <<>>].creating = page.creating
         /\ page.at = "create" /\ page.step \in 0..4
<1>1. page \in PageType
  BY DEF IInv, Types
<1>2. page.text \in TextType
  BY <1>1 DEF PageType
<1>3. AnalyzeRequest(page.text) \in TextType /\ \A w \in Words : Typed(w) \in TextType
  BY <1>2, TextsAre
<1>4. \A w \in Words : /\ [page EXCEPT !.text = Typed(w)] \in PageType
                        /\ [page EXCEPT !.text = Typed(w)].creating = page.creating
  BY <1>1, <1>3 DEF PageType
<1>5. \A a \in Authorities \cup {NoAuthority} :
        /\ [page EXCEPT !.chosen = a] \in PageType
        /\ [page EXCEPT !.chosen = a].creating = page.creating
  BY <1>1 DEF PageType, Targets
<1>6. \A n \in 0..4 : /\ [page EXCEPT !.step = n] \in PageType
                       /\ [page EXCEPT !.step = n].creating = page.creating
  BY <1>1 DEF PageType
<1>7. /\ [page EXCEPT !.text = AnalyzeRequest(@), !.applied = TRUE] \in PageType
      /\ [page EXCEPT !.text = AnalyzeRequest(@), !.applied = TRUE].creating = page.creating
  <2> DEFINE t == AnalyzeRequest(page.text)
  <2>1. t \in TextType
    BY <1>3
  <2> HIDE DEF t
  <2>2. /\ [page EXCEPT !.text = t, !.applied = TRUE] \in PageType
        /\ [page EXCEPT !.text = t, !.applied = TRUE].creating = page.creating
    BY <1>1, <2>1 DEF PageType
  <2> QED
    BY <2>2 DEF t
<1>8. /\ [page EXCEPT !.applied = TRUE] \in PageType
      /\ [page EXCEPT !.applied = TRUE].creating = page.creating
  BY <1>1 DEF PageType
<1>9. /\ [page EXCEPT !.prefill = <<>>] \in PageType
      /\ [page EXCEPT !.prefill = <<>>].creating = page.creating
  <2>1. \A v \in Seq(VersionType) : /\ [page EXCEPT !.prefill = v] \in PageType
                                     /\ [page EXCEPT !.prefill = v].creating = page.creating
    BY <1>1 DEF PageType
  <2>2. <<>> \in Seq(VersionType)
    OBVIOUS
  <2> QED
    BY <2>1, <2>2
<1> QED
  BY <1>1, <1>4, <1>5, <1>6, <1>7, <1>8, <1>9 DEF PageType, CreateOpen

LEMMA ShownStepsKeep ==
  ASSUME IInv, NEW a \in Authorities \cup {NoAuthority}, NEW w \in Words,
         \/ Edit(w) \/ ChooseAuthority(a) \/ Continue \/ Back \/ ApplyDoctor
         \/ KeepMyWording \/ EditRequestText \/ FollowCreateLink \/ LeavePage
  PROVE  IInv'
<1>0. CreateOpen
  BY DEF Edit, ChooseAuthority, Continue, Back, ApplyDoctor, KeepMyWording, EditRequestText,
         FollowCreateLink, LeavePage
<1>1. CASE Edit(w)
  BY <1>0, <1>1, ShownPagesAre, ShownKeeps DEF Edit
<1>2. CASE ChooseAuthority(a)
  BY <1>0, <1>2, ShownPagesAre, ShownKeeps DEF ChooseAuthority
<1>3. CASE Continue
  <2>1. page.step + 1 \in 0..4
    BY <1>0, <1>3, ShownPagesAre DEF Continue
  <2>2. Shown([page EXCEPT !.step = page.step + 1])
    BY <1>3 DEF Continue
  <2> QED
    BY <1>0, <2>1, <2>2, ShownPagesAre, ShownKeeps
<1>4. CASE Back
  <2>1. page.step - 1 \in 0..4
    BY <1>0, <1>4, ShownPagesAre DEF Back
  <2>2. Shown([page EXCEPT !.step = page.step - 1])
    BY <1>4 DEF Back
  <2> QED
    BY <1>0, <2>1, <2>2, ShownPagesAre, ShownKeeps
<1>5. CASE ApplyDoctor
  BY <1>0, <1>5, ShownPagesAre, ShownKeeps DEF ApplyDoctor
<1>6. CASE KeepMyWording
  BY <1>0, <1>6, ShownPagesAre, ShownKeeps DEF KeepMyWording
<1>7. CASE EditRequestText
  <2>1. Shown([page EXCEPT !.step = 0]) /\ 0 \in 0..4
    BY <1>7 DEF EditRequestText
  <2> QED
    BY <1>0, <2>1, ShownPagesAre, ShownKeeps
<1>8. CASE FollowCreateLink
  BY <1>0, <1>8, ShownPagesAre, ShownKeeps DEF FollowCreateLink
<1>9. CASE LeavePage
  BY <1>9, ElsewhereIs, ShownKeeps DEF LeavePage
<1> QED
  BY <1>1, <1>2, <1>3, <1>4, <1>5, <1>6, <1>7, <1>8, <1>9


\* The versions of a press: those handed over, and the Doctor's if applied.
LEMMA VersionListIs == IInv => VersionList \in Seq(VersionType)
<1> SUFFICES ASSUME IInv PROVE VersionList \in Seq(VersionType)
  OBVIOUS
<1> DEFINE first == IF page.prefill # <<>> THEN page.prefill
                    ELSE <<Version(1, "citizen", page.text)>>
<1>1. page.text \in TextType /\ page.prefill \in Seq(VersionType)
  BY DEF IInv, Types, PageType
<1>2. Version(1, "citizen", page.text) \in VersionType
  BY <1>1, VersionsAre DEF Sources
<1>3. first \in Seq(VersionType)
  BY <1>1, <1>2
<1>4. VersionList = IF page.applied THEN Append(first, Version(Len(first) + 1, "doctor", page.text))
                    ELSE first
  BY DEF VersionList
<1> HIDE DEF first
<1>5. Len(first) + 1 \in Nat
  BY <1>3, LenProperties
<1>6. Version(Len(first) + 1, "doctor", page.text) \in VersionType
  BY <1>1, <1>5, VersionsAre DEF Sources
<1>7. Append(first, Version(Len(first) + 1, "doctor", page.text)) \in Seq(VersionType)
  BY <1>3, <1>6, AppendProperties
<1> QED
  BY <1>3, <1>4, <1>7

LEMMA TargetIs == IInv => Target \in Targets
<1> SUFFICES ASSUME IInv PROVE Target \in Targets
  OBVIOUS
<1>1. page.text \in TextType /\ page.chosen \in Targets
  BY DEF IInv, Types, PageType
<1> QED
  BY <1>1, TextsAre DEF Target

\* A press adds a script; the button promised that its visit had none.
LEMMA HandleCreateKeeps == IInv /\ HandleCreate => IInv'
<1> SUFFICES ASSUME IInv, HandleCreate PROVE IInv'
  OBVIOUS
<1>1. page \in PageType /\ page.at = "create" /\ ~page.creating
      /\ UNCHANGED <<visit, strays, db, records>>
  BY DEF HandleCreate, IInv, Types, CreateOpen
<1>2. CASE page' = [page EXCEPT !.error = "authority", !.step = 1] /\ UNCHANGED filings
  <2>1. page' \in PageType /\ page'.at = page.at /\ page'.creating = page.creating
    <3>1. /\ [page EXCEPT !.error = "authority"] \in PageType
          /\ [page EXCEPT !.error = "authority"].at = page.at
          /\ [page EXCEPT !.error = "authority"].creating = page.creating
      BY <1>1 DEF PageType
    <3> DEFINE q == [page EXCEPT !.error = "authority"]
    <3>2. page' = [q EXCEPT !.step = 1]
      BY <1>2
    <3> HIDE DEF q
    <3>3. q \in PageType /\ q.at = page.at /\ q.creating = page.creating
      BY <3>1 DEF q
    <3> QED
      BY <3>2, <3>3 DEF PageType
  <2>2. ButtonMeansNone'
    BY <1>1, <1>2, <2>1 DEF ButtonMeansNone, IInv
  <2>3. visit \in Nat
    BY DEF IInv, Types
  <2> QED
    BY <1>1, <1>2, <2>1, <2>2, <2>3, PageMoves
<1>3. CASE /\ page' = [page EXCEPT !.creating = TRUE, !.error = "none",
                         !.prefill = IF @ = <<>> THEN @ ELSE VersionList]
           /\ filings' = Append(filings, Filing(VersionList))
  <2> DEFINE f == Filing(VersionList)
             n == Len(filings)
  <2>1. filings \in Seq(FilingType) /\ n \in Nat /\ visit \in Nat
    BY LenProperties DEF IInv, Types
  <2>2. page.text \in TextType /\ Target \in Targets /\ VersionList \in Seq(VersionType)
    BY <1>1, TargetIs, VersionListIs DEF PageType
  <2>3. f = [ id |-> n + 1, visit |-> visit, text |-> page.text, target |-> Target,
              versions |-> VersionList, app |-> NoApp, state |-> "waiting", call |-> 1,
              net |-> "sent", made |-> NoApp ]
    BY DEF Filing
  <2>4. f \in FilingType
    <3> HIDE DEF f, n
    <3> QED
      BY <2>1, <2>2, <2>3 DEF FilingType
  <2> HIDE DEF f
  <2>5. /\ filings' \in Seq(FilingType) /\ Len(filings') = n + 1 /\ filings'[n + 1] = f
        /\ \A i \in 1..n : filings'[i] = filings[i]
    BY <1>3, <2>1, <2>4, AppendProperties DEF f
  <2> HIDE DEF n
  <2>6. page' \in PageType /\ page'.creating
    <3>1. (IF page.prefill = <<>> THEN page.prefill ELSE VersionList) \in Seq(VersionType)
      BY <1>1, <2>2 DEF PageType
    <3> DEFINE v == IF page.prefill = <<>> THEN page.prefill ELSE VersionList
    <3>2. page' = [page EXCEPT !.creating = TRUE, !.error = "none", !.prefill = v]
      BY <1>3
    <3> HIDE DEF v
    <3>3. v \in Seq(VersionType)
      BY <3>1 DEF v
    <3> QED
      BY <1>1, <3>2, <3>3 DEF PageType
  <2>7. Types'
    BY <1>1, <2>5, <2>6 DEF IInv, Types
  <2>8. \A i \in 1..Len(filings') : FilingOK(i, filings[i])'
    <3> TAKE i \in 1..Len(filings')
    <3>1. CASE i = n + 1
      BY <3>1, <1>1, <2>1, <2>3, <2>5 DEF FilingOK
    <3>2. CASE i \in 1..n
      BY <3>2, <1>1, <2>5 DEF IInv, FilingOK, n
    <3> QED
      BY <3>1, <3>2, <2>1, <2>5
  <2>9. \A s \in strays' : StrayOK(s)'
    <3> TAKE s \in strays'
    <3>1. StrayOK(s) /\ s.id \in 1..n
      BY <1>1 DEF IInv, StrayOK, n
    <3>2. filings'[s.id] = filings[s.id] /\ s.id \in 1..(n + 1)
      BY <3>1, <2>1, <2>5
    <3> QED
      BY <3>1, <3>2, <2>5 DEF StrayOK
  <2>10. \A a \in 1..Len(db') : RowOK(a, db[a])'
    <3> TAKE a \in 1..Len(db')
    <3>1. RowOK(a, db[a]) /\ db[a].by \in 1..n
      BY <1>1 DEF IInv, RowOK, n
    <3>2. filings'[db[a].by] = filings[db[a].by] /\ db[a].by \in 1..(n + 1)
      BY <3>1, <2>1, <2>5
    <3> QED
      BY <1>1, <3>1, <3>2, <2>5 DEF RowOK, Reached
  <2>11. \A i \in 1..n : Live(filings[i]) => filings[i].visit # visit
    BY <1>1 DEF IInv, ButtonMeansNone, n
  <2>12. OneLiveEach'
    <3> SUFFICES ASSUME NEW i \in 1..(n + 1), NEW j \in 1..(n + 1),
                        Live(filings'[i]), Live(filings'[j]), filings'[i].visit = filings'[j].visit
                 PROVE  i = j
      BY <2>5 DEF OneLiveEach, Live
    <3>1. f.visit = visit
      BY <2>3
    <3>2. (i \in 1..n \/ i = n + 1) /\ (j \in 1..n \/ j = n + 1)
      BY <2>1
    <3>3. CASE i \in 1..n /\ j \in 1..n
      BY <3>3, <2>5 DEF IInv, OneLiveEach, n
    <3> QED
      BY <3>1, <3>2, <3>3, <2>5, <2>11
  <2>13. ButtonMeansNone'
    BY <2>6 DEF ButtonMeansNone
  <2>14. \A r \in 1..Len(records') : RecordOK(records[r])'
    <3> TAKE r \in 1..Len(records')
    <3>1. PICK i \in 1..n :
            /\ filings[i].state = "done" /\ filings[i].visit = records[r].visit
            /\ filings[i].app = records[r].app /\ filings[i].text = records[r].text
            /\ filings[i].target = records[r].authority
      BY <1>1 DEF IInv, RecordOK, n
    <3>2. i \in 1..(n + 1) /\ filings'[i] = filings[i]
      BY <2>1, <2>5
    <3> QED
      BY <1>1, <2>5, <3>1, <3>2 DEF RecordOK
  <2> QED
    BY <1>1, <2>7, <2>8, <2>9, <2>10, <2>12, <2>13, <2>14
       DEF IInv, OneStrayEach, OneRowEach, OneRecordEach
<1> QED
  BY <1>2, <1>3 DEF HandleCreate

-----------------------------------------------------------------------------
(* What a step of one script leaves of the others.                         *)

\* The script is where it was, though it may have ended.
Kept(f, g) ==
  /\ g.id = f.id /\ g.visit = f.visit /\ g.text = f.text /\ g.target = f.target
  /\ g.app = f.app /\ g.call = f.call /\ g.made = f.made
  /\ g.state = "waiting" => f.state = "waiting" /\ (g.net = "ok" <=> f.net = "ok")

\* Its events are still there.
RowStays(row, q) ==
  /\ q.by = row.by /\ q.text = row.text /\ q.authority = row.authority
  /\ \A m \in 1..4 : MadeInOrder(row, m) => MadeInOrder(q, m)

\* A script leaves a stray only where its call was under way.
StrayWasSent(i) ==
  (\E s \in strays' : s.id = i) =>
    (\E s \in strays : s.id = i) \/ (filings[i].state = "waiting" /\ filings[i].net = "sent")

LEMMA RowKept ==
  ASSUME NEW a, NEW row, NEW q, RowOK(a, row), RowStays(row, q), Len(filings') = Len(filings),
         Kept(filings[row.by], filings'[row.by]), filings[row.by].id = row.by, StrayWasSent(row.by)
  PROVE  RowOK(a, q)'
<1> PICK f : f = filings[row.by]
  OBVIOUS
<1> PICK g : g = filings'[row.by]
  OBVIOUS
<1>1. /\ g.id = f.id /\ g.text = f.text /\ g.target = f.target /\ g.call = f.call
      /\ g.made = f.made /\ f.id = row.by
      /\ g.state = "waiting" => f.state = "waiting" /\ (g.net = "ok" <=> f.net = "ok")
  BY DEF Kept
<1>2. /\ row.by \in 1..Len(filings) /\ row.text = f.text /\ row.authority = f.target
      /\ f.made \in {NoApp, a}
      /\ f.made = NoApp => f.state # "waiting" /\ \A s \in strays : s.id # f.id
      /\ \E m \in 1..4 : Reached(row, f, m)
  BY DEF RowOK
<1>3. PICK m \in 1..4 : Reached(row, f, m)
  BY <1>2
<1>4. (\E s \in strays' : s.id = row.by) =>
        (\E s \in strays : s.id = row.by) \/ (f.state = "waiting" /\ f.net = "sent")
  BY DEF StrayWasSent
<1>5. /\ m \in {f.call - 1, f.call} /\ MadeInOrder(row, m)
      /\ f.state = "waiting" => m = (IF f.net = "ok" THEN f.call ELSE f.call - 1)
      /\ (\E s \in strays : s.id = f.id) => m = f.call - 1
  BY <1>3 DEF Reached
<1>6. MadeInOrder(q, m) /\ q.by = row.by /\ q.text = row.text /\ q.authority = row.authority
  BY <1>5 DEF RowStays
<1>7. (\E s \in strays' : s.id = g.id) => m = g.call - 1
  BY <1>1, <1>4, <1>5
<1>8. g.state = "waiting" => m = (IF g.net = "ok" THEN g.call ELSE g.call - 1)
  BY <1>1, <1>5
<1>9. Reached(q, g, m)'
  BY <1>1, <1>5, <1>6, <1>7, <1>8 DEF Reached, MadeInOrder, PageSteps
<1>10. g.made = NoApp => g.state # "waiting" /\ \A s \in strays' : s.id # g.id
  BY <1>1, <1>2, <1>4
<1>11. /\ q.by \in 1..Len(filings') /\ q.text = g.text /\ q.authority = g.target
       /\ g.made \in {NoApp, a} /\ \E k \in 1..4 : Reached(q, g, k)'
  BY <1>1, <1>2, <1>6, <1>9
<1> QED
  BY <1>6, <1>10, <1>11 DEF RowOK

LEMMA StrayKept ==
  ASSUME NEW s, StrayOK(s), Len(filings') = Len(filings), Kept(filings[s.id], filings'[s.id])
  PROVE  StrayOK(s)'
BY DEF StrayOK, Kept

\* The database only grows, and no row changes hands.
Grows == Len(db') >= Len(db) /\ \A a \in 1..Len(db) : db'[a].by = db[a].by

LEMMA FilingStays ==
  ASSUME NEW i, NEW f, FilingOK(i, f), Grows, UNCHANGED visit, Len(db) \in Nat, Len(db') \in Nat
  PROVE  FilingOK(i, f)'
<1>1. f.made # NoApp => f.made \in 1..Len(db') /\ db'[f.made].by = i
  BY DEF FilingOK, Grows
<1> QED
  BY <1>1 DEF FilingOK

\* While a script waits it has left nothing behind.
LEMMA NoStrayWaits ==
  ASSUME IInv, NEW s \in strays
  PROVE  s \in FilingType /\ s.id \in 1..Len(filings) /\ filings[s.id].state # "waiting"
BY DEF IInv, Types, StrayOK

LEMMA FilingIs ==
  ASSUME IInv, NEW i \in 1..Len(filings)
  PROVE  filings[i] \in FilingType /\ FilingOK(i, filings[i]) /\ filings[i].id = i
BY ElementOfSeq DEF IInv, Types, FilingOK

LEMMA RowIs ==
  ASSUME IInv, NEW a \in 1..Len(db)
  PROVE  db[a] \in RowType /\ RowOK(a, db[a]) /\ db[a].by \in 1..Len(filings)
BY ElementOfSeq DEF IInv, Types, RowOK

\* A step of a script.
Stays(f, g) ==
  /\ g.id = f.id /\ g.visit = f.visit /\ g.text = f.text /\ g.target = f.target
  /\ Live(g) => Live(f)
  /\ f.state = "done" => g.state = "done" /\ g.app = f.app

\* What is left to see of a step of the scripts that opens no case.
LEMMA ScriptsMove ==
  ASSUME IInv, page' \in PageType, UNCHANGED <<visit, records>>,
         filings' \in Seq(FilingType), Len(filings') = Len(filings),
         \A i \in 1..Len(filings) : Stays(filings[i], filings'[i]) /\ FilingOK(i, filings[i])',
         strays' \in SUBSET FilingType, \A s \in strays' : StrayOK(s)', OneStrayEach',
         db' \in Seq(RowType), \A a \in 1..Len(db') : RowOK(a, db[a])', OneRowEach',
         ButtonMeansNone'
  PROVE  IInv'
<1>1. Types'
  BY DEF IInv, Types
<1>2. OneLiveEach'
  <2> SUFFICES ASSUME NEW i \in 1..Len(filings), NEW j \in 1..Len(filings),
                      Live(filings'[i]), Live(filings'[j]), filings'[i].visit = filings'[j].visit
               PROVE  i = j
    BY DEF OneLiveEach, Live
  <2> QED
    BY DEF IInv, OneLiveEach, Stays
<1>3. \A r \in 1..Len(records') : RecordOK(records[r])'
  <2> TAKE r \in 1..Len(records')
  <2>1. PICK i \in 1..Len(filings) :
          /\ filings[i].state = "done" /\ filings[i].visit = records[r].visit
          /\ filings[i].app = records[r].app /\ filings[i].text = records[r].text
          /\ filings[i].target = records[r].authority
    BY DEF IInv, RecordOK
  <2> QED
    BY <2>1 DEF RecordOK, Stays
<1>4. OneRecordEach'
  BY DEF IInv, OneRecordEach
<1>5. \A i \in 1..Len(filings') : FilingOK(i, filings[i])'
  OBVIOUS
<1>6. \A a \in 1..Len(db') : RowOK(a, db[a])'
  OBVIOUS
<1> QED
  BY <1>1, <1>2, <1>3, <1>4, <1>5, <1>6 DEF IInv

-----------------------------------------------------------------------------
(* The script of a press.                                                  *)

LEMMA Resumed ==
  ASSUME IInv, NEW i \in 1..Len(filings), NEW g \in FilingType, Resume(i, g)
  PROVE  /\ filings' \in Seq(FilingType) /\ Len(filings') = Len(filings) /\ filings'[i] = g
         /\ \A j \in 1..Len(filings) : j # i => filings'[j] = filings[j]
<1>1. filings \in Seq(FilingType) /\ filings' = [filings EXCEPT ![i] = g]
  BY DEF IInv, Types, Resume
<1> QED
  BY <1>1, ExceptSeq

\* The button stays safe while it shows what it showed.
LEMMA ButtonStays ==
  ASSUME IInv, UNCHANGED <<page, visit>>, Len(filings') = Len(filings),
         \A i \in 1..Len(filings) : Stays(filings[i], filings'[i])
  PROVE  ButtonMeansNone'
BY DEF IInv, ButtonMeansNone, Stays, Live

LEMMA KeptSelf == \A f : Kept(f, f) /\ Stays(f, f) /\ RowStays(f, f)
  BY DEF Kept, Stays, RowStays

\* A script is refused, or calls no more; then the call it waited for may
\* still be on its way.
GivesUp(i, g) ==
  /\ Kept(filings[i], g) /\ filings[i].state \in {"waiting", "storing"}
  /\ g.state = "waiting" => g.net = "error"
  /\ Resume(i, g)
  /\ \/ UNCHANGED strays
     \/ /\ filings[i].state = "waiting" /\ filings[i].net = "sent" /\ g.state # "waiting"
        /\ strays' = strays \cup {filings[i]}
  /\ UNCHANGED <<visit, db>>

LEMMA GivesUpMoves ==
  ASSUME IInv, NEW i \in 1..Len(filings), NEW g \in FilingType, GivesUp(i, g)
  PROVE  /\ \A j \in 1..Len(filings) : /\ Stays(filings[j], filings'[j])
                                      /\ Kept(filings[j], filings'[j])
                                      /\ FilingOK(j, filings[j])'
         /\ strays' \in SUBSET FilingType /\ OneStrayEach'
         /\ \A s \in strays' : StrayOK(s)'
         /\ \A a \in 1..Len(db') : RowOK(a, db[a])'
<1> PICK f : f = filings[i]
  OBVIOUS
<1>1. /\ f \in FilingType /\ FilingOK(i, f) /\ f.id = i
      /\ filings' \in Seq(FilingType) /\ Len(filings') = Len(filings) /\ filings'[i] = g
      /\ \A j \in 1..Len(filings) : j # i => filings'[j] = filings[j]
  BY FilingIs, Resumed DEF GivesUp
<1>2. /\ Kept(f, g) /\ f.state \in {"waiting", "storing"}
      /\ g.state = "waiting" => g.net = "error"
      /\ \/ strays' = strays
         \/ /\ f.state = "waiting" /\ f.net = "sent" /\ g.state # "waiting"
            /\ strays' = strays \cup {f}
      /\ UNCHANGED <<visit, db>>
  BY DEF GivesUp
<1>3. Stays(f, g) /\ FilingOK(i, g)
  BY <1>1, <1>2 DEF Stays, Kept, Live, FilingOK
<1>4. \A j \in 1..Len(filings) : /\ Stays(filings[j], filings'[j])
                                /\ Kept(filings[j], filings'[j])
                                /\ FilingOK(j, filings'[j])
  <2> TAKE j \in 1..Len(filings)
  <2>1. CASE j = i
    BY <2>1, <1>1, <1>2, <1>3
  <2>2. CASE j # i
    BY <2>2, <1>1, KeptSelf, FilingIs
  <2> QED
    BY <2>1, <2>2
<1>5. \A j \in 1..Len(filings) : FilingOK(j, filings[j])'
  BY <1>2, <1>4 DEF FilingOK
<1>6. \A s \in strays : StrayOK(s)' /\ s \in FilingType /\ (f.state = "waiting" => s.id # i)
  <2> TAKE s \in strays
  <2>1. StrayOK(s) /\ s \in FilingType /\ s.id \in 1..Len(filings) /\ filings[s.id].state # "waiting"
    BY NoStrayWaits DEF IInv
  <2> QED
    BY <2>1, <1>1, <1>2, <1>4, StrayKept
<1>7. f.state = "waiting" /\ f.net = "sent" /\ g.state # "waiting" => StrayOK(f)'
  <2> SUFFICES ASSUME f.state = "waiting", f.net = "sent", g.state # "waiting" PROVE StrayOK(f)'
    OBVIOUS
  <2>1. f.call <= 4 /\ (f.call = 1 => f.made = NoApp) /\ f.id = i
    BY <1>1, <1>2 DEF FilingOK
  <2>2. g.state # "waiting" /\ f.text = g.text /\ f.target = g.target /\ f.app = g.app
        /\ f.call = g.call /\ f.made = g.made
    BY <1>2 DEF Kept
  <2>3. /\ f.id \in 1..Len(filings') /\ filings'[f.id] = g
    BY <2>1, <1>1
  <2> QED
    BY <2>1, <2>2, <2>3 DEF StrayOK
<1>8. strays' \in SUBSET FilingType /\ \A s \in strays' : StrayOK(s)'
  <2>1. CASE strays' = strays
    BY <2>1, <1>6
  <2>2. CASE f.state = "waiting" /\ f.net = "sent" /\ g.state # "waiting" /\ strays' = strays \cup {f}
    BY <2>2, <1>1, <1>6, <1>7
  <2> QED
    BY <2>1, <2>2, <1>2
<1>9. OneStrayEach'
  BY <1>1, <1>2, <1>6 DEF IInv, OneStrayEach
<1>10. \A j \in 1..Len(filings) : StrayWasSent(j)
  BY <1>1, <1>2 DEF StrayWasSent
<1>11. \A a \in 1..Len(db') : RowOK(a, db[a])'
  <2> TAKE a \in 1..Len(db')
  <2> PICK row : row = db[a]
    OBVIOUS
  <2>1. RowOK(a, row) /\ row.by \in 1..Len(filings) /\ db'[a] = row
    BY <1>2, RowIs
  <2>2. filings[row.by].id = row.by
    BY <2>1, FilingIs
  <2>3. RowStays(row, row)
    BY KeptSelf
  <2>4. Kept(filings[row.by], filings'[row.by]) /\ StrayWasSent(row.by)
    BY <2>1, <1>4, <1>10
  <2>5. RowOK(a, row)'
    BY <2>1, <2>2, <2>3, <2>4, <1>1, RowKept
  <2> QED
    BY <2>1, <2>5 DEF RowOK, Reached
<1> QED
  BY <1>4, <1>5, <1>8, <1>9, <1>11


\* Nothing is filed, and no case opened: the rest follows.
LEMMA GivesUpKeeps ==
  ASSUME IInv, NEW i \in 1..Len(filings), NEW g \in FilingType, GivesUp(i, g),
         UNCHANGED records, page' \in PageType, ButtonMeansNone'
  PROVE  IInv'
<1>1. /\ filings' \in Seq(FilingType) /\ Len(filings') = Len(filings) /\ db' = db /\ visit' = visit
  BY Resumed DEF GivesUp
<1>2. db' \in Seq(RowType) /\ OneRowEach'
  BY <1>1 DEF IInv, Types, OneRowEach
<1> QED
  BY <1>1, <1>2, GivesUpMoves, ScriptsMove

LEMMA LoseCallKeeps == ASSUME IInv, NEW i \in 1..Len(filings), LoseCall(i) PROVE IInv'
<1> PICK f : f = filings[i]
  OBVIOUS
<1> DEFINE g == [f EXCEPT !.state = "storing"]
<1>1. /\ f.state = "waiting" /\ Resume(i, g) /\ UNCHANGED <<page, visit, db, records>>
      /\ strays' = IF f.net = "sent" THEN strays \cup {f} ELSE strays
  BY DEF LoseCall, Waiting
<1>2. f \in FilingType
  BY FilingIs
<1>3. g \in FilingType /\ Kept(f, g) /\ g.state = "storing"
  BY <1>2 DEF FilingType, Kept
<1> HIDE DEF g
<1>4. GivesUp(i, g)
  BY <1>1, <1>3 DEF GivesUp
<1>5. /\ Len(filings') = Len(filings)
      /\ \A j \in 1..Len(filings) : Stays(filings[j], filings'[j])
  BY <1>1, <1>3, <1>4, Resumed, GivesUpMoves
<1>6. ButtonMeansNone' /\ page' \in PageType
  BY <1>1, <1>5, ButtonStays DEF IInv, Types
<1> QED
  BY <1>1, <1>3, <1>4, <1>6, GivesUpKeeps

\* The button is usable again, and its visit's one script is over.
LEMMA GarbleAnswerKeeps == ASSUME IInv, NEW i \in 1..Len(filings), GarbleAnswer(i) PROVE IInv'
<1> PICK f : f = filings[i]
  OBVIOUS
<1> DEFINE g == [f EXCEPT !.state = "failed"]
<1>1. /\ f.state = "waiting" /\ Resume(i, g) /\ UNCHANGED <<visit, strays, db, records>>
      /\ page' = IF CreateOpen /\ f.visit = visit
                 THEN [page EXCEPT !.creating = FALSE, !.error = "failed"] ELSE page
  BY DEF GarbleAnswer, Waiting
<1>2. f \in FilingType
  BY FilingIs
<1>3. g \in FilingType /\ Kept(f, g) /\ g.state = "failed"
  BY <1>2 DEF FilingType, Kept
<1> HIDE DEF g
<1>4. GivesUp(i, g)
  BY <1>1, <1>3 DEF GivesUp
<1>5. /\ Len(filings') = Len(filings) /\ filings'[i] = g
      /\ \A j \in 1..Len(filings) : Stays(filings[j], filings'[j])
  BY <1>1, <1>3, <1>4, Resumed, GivesUpMoves
<1>6. CASE ~(CreateOpen /\ f.visit = visit)
  <2>1. ButtonMeansNone' /\ page' \in PageType
    BY <1>1, <1>5, <1>6, ButtonStays DEF IInv, Types
  <2> QED
    BY <2>1, <1>1, <1>3, <1>4, GivesUpKeeps
<1>7. CASE f.visit = visit /\ page' = [page EXCEPT !.creating = FALSE, !.error = "failed"]
  <2>1. \A j \in 1..Len(filings) : Live(filings'[j]) => filings'[j].visit # visit
    <3> SUFFICES ASSUME NEW j \in 1..Len(filings), Live(filings'[j]), filings'[j].visit = visit
                 PROVE  FALSE
      OBVIOUS
    <3>1. j # i
      BY <1>3, <1>5 DEF Live
    <3>2. Live(filings[j]) /\ filings[j].visit = visit /\ Live(filings[i])
      BY <1>1, <1>5 DEF Stays, Live
    <3> QED
      BY <1>7, <3>1, <3>2 DEF IInv, OneLiveEach
  <2>2. ButtonMeansNone'
    BY <2>1, <1>1, <1>5 DEF ButtonMeansNone, Live
  <2>3. page' \in PageType
    BY <1>7 DEF IInv, Types, PageType
  <2> QED
    BY <2>2, <2>3, <1>1, <1>3, <1>4, GivesUpKeeps
<1> QED
  BY <1>1, <1>6, <1>7

\* The case is opened, and no other of its visit has been.
LEMMA StoreCaseKeeps == ASSUME IInv, NEW i \in 1..Len(filings), StoreCase(i) PROVE IInv'
<1> PICK f : f = filings[i]
  OBVIOUS
<1> DEFINE g == [f EXCEPT !.state = "done"]
           x == [ visit |-> f.visit, app |-> f.app, authority |-> f.target, text |-> f.text,
                  versions |-> f.versions, acked |-> f.call - 1 ]
           n == Len(records)
<1>1. /\ f.state = "storing" /\ Resume(i, g) /\ UNCHANGED <<visit, strays, db>>
      /\ records' = Append(records, x) /\ page' = Elsewhere("case")
  BY DEF StoreCase
<1>2. f \in FilingType
  BY FilingIs
<1>3. g \in FilingType /\ Kept(f, g) /\ g.state = "done"
  BY <1>2 DEF FilingType, Kept
<1>4. x \in RecordType /\ x.visit = f.visit /\ x.app = f.app /\ x.authority = f.target /\ x.text = f.text
  BY <1>2 DEF FilingType, RecordType
<1> HIDE DEF g, x
<1>5. GivesUp(i, g)
  BY <1>1, <1>3 DEF GivesUp
<1>6. /\ filings' \in Seq(FilingType) /\ Len(filings') = Len(filings) /\ filings'[i] = g
      /\ \A j \in 1..Len(filings) : j # i => filings'[j] = filings[j]
      /\ \A j \in 1..Len(filings) : Stays(filings[j], filings'[j])
  BY <1>1, <1>3, <1>5, Resumed, GivesUpMoves
<1>7. page' \in PageType /\ ButtonMeansNone'
  BY <1>1, ElsewhereIs DEF ButtonMeansNone
<1>8. /\ records \in Seq(RecordType) /\ n \in Nat /\ records' \in Seq(RecordType)
      /\ Len(records') = n + 1 /\ records'[n + 1] = x
      /\ \A r \in 1..n : records'[r] = records[r]
  BY <1>1, <1>4, AppendProperties, LenProperties DEF IInv, Types
<1> HIDE DEF n
<1>9. Types'
  BY <1>1, <1>5, <1>6, <1>7, <1>8, <1>3, GivesUpMoves DEF IInv, Types
<1>10. \A r \in 1..Len(records') : RecordOK(records[r])'
  <2> TAKE r \in 1..Len(records')
  <2>1. CASE r = n + 1
    BY <2>1, <1>3, <1>4, <1>6, <1>8 DEF RecordOK, Kept
  <2>2. CASE r \in 1..n
    <3>1. PICK j \in 1..Len(filings) :
            /\ filings[j].state = "done" /\ filings[j].visit = records[r].visit
            /\ filings[j].app = records[r].app /\ filings[j].text = records[r].text
            /\ filings[j].target = records[r].authority
      BY <2>2 DEF IInv, RecordOK, n
    <3>2. filings'[j] = filings[j] /\ records'[r] = records[r]
      BY <2>2, <3>1, <1>1, <1>6, <1>8
    <3> QED
      BY <3>1, <3>2, <1>6 DEF RecordOK
  <2> QED
    BY <2>1, <2>2, <1>8
<1>11. \A r \in 1..n : records[r].visit # x.visit
  <2> TAKE r \in 1..n
  <2>1. PICK j \in 1..Len(filings) : filings[j].state = "done" /\ filings[j].visit = records[r].visit
    BY DEF IInv, RecordOK, n
  <2>2. j # i /\ Live(filings[j]) /\ Live(filings[i])
    BY <2>1, <1>1 DEF Live
  <2> QED
    BY <2>1, <2>2, <1>4 DEF IInv, OneLiveEach
<1>12. OneRecordEach'
  <2> SUFFICES ASSUME NEW q \in 1..(n + 1), NEW r \in 1..(n + 1), records'[q].visit = records'[r].visit
               PROVE  q = r
    BY <1>8 DEF OneRecordEach
  <2>1. (q \in 1..n \/ q = n + 1) /\ (r \in 1..n \/ r = n + 1)
    BY <1>8
  <2>2. CASE q \in 1..n /\ r \in 1..n
    BY <2>2, <1>8 DEF IInv, OneRecordEach, n
  <2> QED
    BY <2>1, <2>2, <1>8, <1>11
<1>13. OneLiveEach'
  <2> SUFFICES ASSUME NEW j \in 1..Len(filings), NEW k \in 1..Len(filings),
                      Live(filings'[j]), Live(filings'[k]), filings'[j].visit = filings'[k].visit
               PROVE  j = k
    BY <1>6 DEF OneLiveEach, Live
  <2> QED
    BY <1>6 DEF IInv, OneLiveEach, Stays
<1> QED
  BY <1>1, <1>3, <1>5, <1>6, <1>7, <1>9, <1>10, <1>12, <1>13, GivesUpMoves DEF IInv, OneRowEach


\* On to the next call, or to the local saves.
LEMMA ReceiveKeeps == ASSUME IInv, NEW i \in 1..Len(filings), Receive(i) PROVE IInv'
<1> PICK f : f = filings[i]
  OBVIOUS
<1>1. f \in FilingType /\ FilingOK(i, f) /\ f.id = i
  BY FilingIs
<1>2. f.state = "waiting" /\ UNCHANGED <<page, visit, strays, db, records>>
  BY DEF Receive, Waiting
<1>3. CASE Resume(i, [f EXCEPT !.state = "storing"])
  <2> DEFINE g == [f EXCEPT !.state = "storing"]
  <2>1. g \in FilingType /\ Kept(f, g) /\ g.state = "storing"
    BY <1>1 DEF FilingType, Kept
  <2>2. GivesUp(i, g)
    BY <1>2, <1>3, <2>1 DEF GivesUp
  <2> HIDE DEF g
  <2>3. /\ Len(filings') = Len(filings)
        /\ \A j \in 1..Len(filings) : Stays(filings[j], filings'[j])
    BY <2>1, <2>2, Resumed, GivesUpMoves DEF GivesUp
  <2>4. ButtonMeansNone' /\ page' \in PageType
    BY <1>2, <2>3, ButtonStays DEF IInv, Types
  <2> QED
    BY <1>2, <2>1, <2>2, <2>4, GivesUpKeeps
<1>4. CASE /\ f.net = "ok"
           /\ Resume(i, IF f.call < 4
                        THEN [f EXCEPT !.app = f.made, !.call = @ + 1, !.net = "sent"]
                        ELSE [f EXCEPT !.state = "storing", !.call = 5])
  <2> DEFINE g == IF f.call < 4 THEN [f EXCEPT !.app = f.made, !.call = @ + 1, !.net = "sent"]
                  ELSE [f EXCEPT !.state = "storing", !.call = 5]
  <2>1. f.call \in 1..4 /\ f.made # NoApp /\ f.app = (IF f.call = 1 THEN NoApp ELSE f.made)
    BY <1>1, <1>2, <1>4 DEF FilingOK, FilingType
  <2>2. /\ g \in FilingType /\ g.id = f.id /\ g.visit = f.visit /\ g.text = f.text
        /\ g.target = f.target /\ g.made = f.made /\ g.app = f.made /\ g.call = f.call + 1
        /\ g.state \in {"waiting", "storing"}
        /\ g.state = "waiting" => g.call <= 4 /\ g.net = "sent"
    <3>1. CASE f.call < 4
      <4> DEFINE h == [f EXCEPT !.app = f.made, !.call = f.call + 1, !.net = "sent"]
      <4>1. f.call + 1 \in 1..5 /\ f.call + 1 <= 4 /\ f.made \in Nat \cup {NoApp}
        BY <2>1, <3>1, <1>1 DEF FilingType
      <4>2. /\ h \in FilingType /\ h.id = f.id /\ h.visit = f.visit /\ h.text = f.text
            /\ h.target = f.target /\ h.made = f.made /\ h.app = f.made /\ h.call = f.call + 1
            /\ h.net = "sent" /\ h.state = f.state
        BY <4>1, <1>1 DEF FilingType
      <4>3. g = h
        BY <3>1
      <4> QED
        BY <4>1, <4>2, <4>3, <1>2
    <3>2. CASE f.call = 4
      <4> DEFINE h == [f EXCEPT !.state = "storing", !.call = 5]
      <4>1. /\ h \in FilingType /\ h.id = f.id /\ h.visit = f.visit /\ h.text = f.text
            /\ h.target = f.target /\ h.made = f.made /\ h.app = f.app /\ h.call = 5
            /\ h.state = "storing"
        <5> DEFINE q == [f EXCEPT !.state = "storing"]
        <5>1. /\ q \in FilingType /\ q.id = f.id /\ q.visit = f.visit /\ q.text = f.text
              /\ q.target = f.target /\ q.made = f.made /\ q.app = f.app /\ q.state = "storing"
          BY <1>1 DEF FilingType
        <5>2. h = [q EXCEPT !.call = 5]
          OBVIOUS
        <5> HIDE DEF q, h
        <5> QED
          BY <5>1, <5>2 DEF FilingType
      <4>2. g = h /\ f.app = f.made
        BY <3>2, <2>1
      <4> HIDE DEF g, h
      <4> QED
        BY <4>1, <4>2, <3>2
    <3> QED
      BY <3>1, <3>2, <2>1
  <2>3. Resume(i, g)
    BY <1>4
  <2> HIDE DEF g
  <2>4. /\ filings' \in Seq(FilingType) /\ Len(filings') = Len(filings) /\ filings'[i] = g
        /\ \A j \in 1..Len(filings) : j # i => filings'[j] = filings[j]
    BY <2>2, <2>3, Resumed
  <2>5. Stays(f, g) /\ FilingOK(i, g)
    BY <1>1, <1>2, <2>1, <2>2 DEF Stays, Live, FilingOK
  <2>6. \A j \in 1..Len(filings) : Stays(filings[j], filings'[j]) /\ FilingOK(j, filings'[j])
    <3> TAKE j \in 1..Len(filings)
    <3>1. CASE j = i
      BY <3>1, <2>4, <2>5
    <3>2. CASE j # i
      BY <3>2, <2>4, KeptSelf, FilingIs
    <3> QED
      BY <3>1, <3>2
  <2>7. \A j \in 1..Len(filings) : Stays(filings[j], filings'[j]) /\ FilingOK(j, filings[j])'
    BY <1>2, <2>6 DEF FilingOK
  <2>8. \A s \in strays' : StrayOK(s)' /\ s.id # i
    <3> TAKE s \in strays'
    <3>1. StrayOK(s) /\ s.id \in 1..Len(filings) /\ filings[s.id].state # "waiting"
      BY <1>2, NoStrayWaits DEF IInv
    <3>2. s.id # i /\ Kept(filings[s.id], filings'[s.id])
      BY <3>1, <1>2, <2>4, KeptSelf
    <3> QED
      BY <3>1, <3>2, <2>4, StrayKept
  <2>9. \A a \in 1..Len(db') : RowOK(a, db[a])'
    <3> TAKE a \in 1..Len(db')
    <3> PICK row : row = db[a]
      OBVIOUS
    <3>1. RowOK(a, row) /\ row.by \in 1..Len(filings) /\ db'[a] = row /\ filings[row.by].id = row.by
      BY <1>2, RowIs, FilingIs
    <3>2. CASE row.by # i
      <4>1. Kept(filings[row.by], filings'[row.by]) /\ RowStays(row, row)
        BY <3>1, <3>2, <2>4, KeptSelf
      <4>2. StrayWasSent(row.by)
        BY <1>2 DEF StrayWasSent
      <4>3. RowOK(a, row)'
        BY <3>1, <4>1, <4>2, <2>4, RowKept
      <4> QED
        BY <3>1, <4>3 DEF RowOK, Reached
    <3>3. CASE row.by = i
      <4>1. PICK m \in 1..4 : Reached(row, f, m)
        BY <3>1, <3>3 DEF RowOK
      <4>2. m = f.call /\ MadeInOrder(row, m)
        BY <4>1, <1>2, <1>4 DEF Reached
      <4>3. /\ m \in {g.call - 1, g.call}
            /\ g.state = "waiting" => m = (IF g.net = "ok" THEN g.call ELSE g.call - 1)
            /\ (\E s \in strays' : s.id = g.id) => m = g.call - 1
        BY <4>2, <2>1, <2>2
      <4>4. Reached(row, g, m)'
        BY <4>2, <4>3 DEF Reached, MadeInOrder, PageSteps
      <4>5. row.text = g.text /\ row.authority = g.target /\ g.made \in {NoApp, a} /\ g.made # NoApp
        BY <3>1, <3>3, <2>1, <2>2 DEF RowOK
      <4> QED
        BY <3>1, <3>3, <4>4, <4>5, <2>4 DEF RowOK
    <3> QED
      BY <3>2, <3>3
  <2>10. ButtonMeansNone' /\ page' \in PageType
    BY <1>2, <2>4, <2>6, ButtonStays DEF IInv, Types
  <2>11. /\ strays' \in SUBSET FilingType /\ OneStrayEach' /\ db' \in Seq(RowType) /\ OneRowEach'
    BY <1>2 DEF IInv, Types, OneStrayEach, OneRowEach
  <2> QED
    BY <1>2, <2>4, <2>7, <2>8, <2>9, <2>10, <2>11, ScriptsMove
<1> QED
  BY <1>3, <1>4 DEF Receive

-----------------------------------------------------------------------------
(* The backend.                                                            *)

\* One row more.
LEMMA RowAdded ==
  ASSUME IInv, NEW row \in RowType, db' = Append(db, row),
         \A a \in 1..Len(db) : db[a].by # row.by
  PROVE  /\ db' \in Seq(RowType) /\ Grows /\ OneRowEach' /\ Len(db) \in Nat
         /\ Len(db') = Len(db) + 1 /\ db'[Len(db) + 1] = row
         /\ \A a \in 1..Len(db) : db'[a] = db[a]
<1>1. /\ db' \in Seq(RowType) /\ Len(db') = Len(db) + 1 /\ db'[Len(db) + 1] = row
      /\ \A a \in 1..Len(db) : db'[a] = db[a]
      /\ Len(db) \in Nat
  BY AppendProperties, LenProperties DEF IInv, Types
<1>2. Grows
  BY <1>1 DEF Grows
<1>3. OneRowEach'
  <2> SUFFICES ASSUME NEW a \in 1..(Len(db) + 1), NEW b \in 1..(Len(db) + 1), db'[a].by = db'[b].by
               PROVE  a = b
    BY <1>1 DEF OneRowEach
  <2>1. (a \in 1..Len(db) \/ a = Len(db) + 1) /\ (b \in 1..Len(db) \/ b = Len(db) + 1)
    BY <1>1
  <2>2. CASE a \in 1..Len(db) /\ b \in 1..Len(db)
    BY <2>2, <1>1 DEF IInv, OneRowEach
  <2> QED
    BY <2>1, <2>2, <1>1
<1> QED
  BY <1>1, <1>2, <1>3

\* One row moved on.
LEMMA RowMoved ==
  ASSUME IInv, NEW a \in 1..Len(db), NEW type \in EventTypes, NEW actor \in {"page", "other"},
         db' = [db EXCEPT ![a] = RecordEvent(@, type, actor)]
  PROVE  /\ db' \in Seq(RowType) /\ Grows /\ OneRowEach' /\ Len(db') = Len(db) /\ Len(db) \in Nat
         /\ db'[a] = RecordEvent(db[a], type, actor)
         /\ \A b \in 1..Len(db) : b # a => db'[b] = db[b]
         /\ db'[a].by = db[a].by /\ db'[a].text = db[a].text /\ db'[a].authority = db[a].authority
<1> PICK row : row = db[a]
  OBVIOUS
<1> PICK q : q = RecordEvent(row, type, actor)
  OBVIOUS
<1>1. row \in RowType /\ db \in Seq(RowType) /\ Len(db) \in Nat
  BY RowIs, LenProperties DEF IInv, Types
<1>2. q \in RowType /\ q.by = row.by /\ q.text = row.text /\ q.authority = row.authority
  BY <1>1, Recorded
<1>3. db' = [db EXCEPT ![a] = q]
  OBVIOUS
<1>4. /\ db' \in Seq(RowType) /\ Len(db') = Len(db) /\ db'[a] = q
      /\ \A b \in 1..Len(db) : b # a => db'[b] = db[b]
  BY <1>1, <1>2, <1>3, ExceptSeq
<1>5. \A b \in 1..Len(db) : db'[b].by = db[b].by
  BY <1>2, <1>4
<1>6. Grows
  BY <1>1, <1>4, <1>5 DEF Grows
<1>7. OneRowEach'
  BY <1>4, <1>5 DEF IInv, OneRowEach
<1> QED
  BY <1>1, <1>2, <1>4, <1>6, <1>7

\* A call that waits, or was left, has not been executed.
Pending(i) ==
  (filings[i].state = "waiting" /\ filings[i].net = "sent") \/ (\E s \in strays : s.id = i)

\* The backend executes the call f of the i-th script, which becomes g.
Executes(i, f, g) ==
  /\ f.id = i /\ f.text = filings[i].text /\ f.target = filings[i].target
  /\ f.app = filings[i].app /\ f.call = filings[i].call /\ f.made = filings[i].made
  /\ f.call <= 4
  /\ f.call = 1 => f.made = NoApp
  /\ Pending(i) /\ ~Refusal(f) /\ db' = Execute(f)
  /\ g.id = i /\ g.text = f.text /\ g.target = f.target /\ g.call = f.call
  /\ g.state = "waiting" => g.net = "ok" /\ g.made # NoApp
  /\ g.made = (IF f.call = 1 THEN (IF g.state = "waiting" THEN Len(db') ELSE NoApp) ELSE f.made)
  /\ filings'[i] = g /\ Len(filings') = Len(filings)
  /\ \A j \in 1..Len(filings) : j # i => filings'[j] = filings[j]
  /\ \A s \in strays' : s \in strays /\ s.id # i

LEMMA Executed ==
  ASSUME IInv, NEW i \in 1..Len(filings), NEW f \in FilingType, NEW g \in FilingType,
         Executes(i, f, g)
  PROVE  /\ db' \in Seq(RowType) /\ Grows /\ OneRowEach' /\ Len(db') \in Nat
         /\ f.call = 1 => Len(db') = Len(db) + 1 /\ db'[Len(db')].by = i
         /\ \A a \in 1..Len(db') : RowOK(a, db[a])'
<1> PICK h : h = filings[i]
  OBVIOUS
<1>1. /\ h \in FilingType /\ FilingOK(i, h) /\ h.id = i
      /\ f.id = i /\ f.text = h.text /\ f.target = h.target
      /\ f.app = h.app /\ f.call = h.call /\ f.made = h.made
      /\ f.call \in 1..4 /\ (f.call = 1 => f.made = NoApp)
      /\ (h.state = "waiting" /\ h.net = "sent") \/ (\E s \in strays : s.id = i)
  BY FilingIs DEF Executes, Pending, FilingType
<1>2. /\ g.id = i /\ g.text = f.text /\ g.target = f.target /\ g.call = f.call
      /\ g.state = "waiting" => g.net = "ok" /\ g.made # NoApp
      /\ g.made = (IF f.call = 1 THEN (IF g.state = "waiting" THEN Len(db') ELSE NoApp) ELSE f.made)
      /\ filings'[i] = g /\ Len(filings') = Len(filings)
      /\ \A j \in 1..Len(filings) : j # i => filings'[j] = filings[j]
      /\ \A s \in strays' : s \in strays /\ s.id # i
      /\ ~Refusal(f) /\ db' = Execute(f)
  BY DEF Executes
<1>3. \A a \in 1..Len(db) : db[a].by = i =>
        /\ db[a].text = f.text /\ db[a].authority = f.target /\ f.made = a
        /\ \E m \in 1..4 : m = f.call - 1 /\ MadeInOrder(db[a], m)
  <2> TAKE a \in 1..Len(db)
  <2> HAVE db[a].by = i
  <2> PICK row : row = db[a]
    OBVIOUS
  <2>1. RowOK(a, row) /\ row.by = i
    BY RowIs
  <2>2. /\ row.text = h.text /\ row.authority = h.target /\ h.made \in {NoApp, a}
        /\ h.made = NoApp => h.state # "waiting" /\ \A s \in strays : s.id # h.id
    BY <2>1 DEF RowOK
  <2>3. PICK m \in 1..4 : Reached(row, h, m)
    BY <2>1 DEF RowOK
  <2>4. h.made = a
    BY <2>2, <1>1
  <2>5. m = h.call - 1 /\ MadeInOrder(row, m)
    BY <2>3, <1>1 DEF Reached
  <2> QED
    BY <2>2, <2>4, <2>5, <1>1
\* The rows of the other scripts.
<1>4. ASSUME NEW a \in 1..Len(db), db[a].by # i, db'[a] = db[a]
      PROVE  RowOK(a, db[a])'
  <2> PICK row : row = db[a]
    OBVIOUS
  <2>1. RowOK(a, row) /\ row.by \in 1..Len(filings) /\ filings[row.by].id = row.by
    BY RowIs, FilingIs
  <2>2. Kept(filings[row.by], filings'[row.by]) /\ RowStays(row, row)
    BY <1>2, <1>4, <2>1, KeptSelf
  <2>3. StrayWasSent(row.by)
    BY <1>2 DEF StrayWasSent
  <2>4. RowOK(a, row)'
    BY <2>1, <2>2, <2>3, <1>2, RowKept
  <2> QED
    BY <1>4, <2>4 DEF RowOK, Reached
\* The row of this one.
<1>5. ASSUME NEW a \in 1..Len(db'), NEW q, q = db'[a], q.by = i, q.text = f.text,
             q.authority = f.target, MadeInOrder(q, f.call), g.made \in {NoApp, a}
      PROVE  RowOK(a, db[a])'
  <2>1. /\ f.call \in {g.call - 1, g.call}
        /\ g.state = "waiting" => f.call = (IF g.net = "ok" THEN g.call ELSE g.call - 1)
        /\ (\E s \in strays' : s.id = g.id) => f.call = g.call - 1
    BY <1>1, <1>2
  <2>2. Reached(q, g, f.call)'
    BY <1>1, <1>5, <2>1 DEF Reached, MadeInOrder, PageSteps
  <2>3. g.made = NoApp => g.state # "waiting" /\ \A s \in strays' : s.id # g.id
    BY <1>2
  <2> QED
    BY <1>1, <1>2, <1>5, <2>2, <2>3 DEF RowOK
<1>6. CASE f.call = 1
  <2>1. /\ Row(f) \in RowType /\ MadeInOrder(Row(f), 1)
        /\ Row(f).by = i /\ Row(f).text = f.text /\ Row(f).authority = f.target
    BY <1>1, RowMade
  <2>2. \A a \in 1..Len(db) : db[a].by # i
    BY <1>3, <1>6
  <2>3. db' = Append(db, Row(f))
    BY <1>2, <1>6 DEF Execute
  <2>4. /\ db' \in Seq(RowType) /\ Grows /\ OneRowEach' /\ Len(db) \in Nat
        /\ Len(db') = Len(db) + 1 /\ db'[Len(db) + 1] = Row(f)
        /\ \A a \in 1..Len(db) : db'[a] = db[a]
    BY <2>1, <2>2, <2>3, RowAdded
  <2>5. \A a \in 1..Len(db') : RowOK(a, db[a])'
    <3> TAKE a \in 1..Len(db')
    <3>1. CASE a \in 1..Len(db)
      BY <3>1, <2>2, <2>4, <1>4
    <3>2. CASE a = Len(db) + 1
      <4>1. g.made \in {NoApp, a}
        BY <3>2, <2>4, <1>2, <1>6
      <4> QED
        BY <3>2, <4>1, <2>1, <2>4, <1>5, <1>6
    <3> QED
      BY <3>1, <3>2, <2>4
  <2> QED
    BY <2>1, <2>4, <2>5
<1>7. CASE f.call # 1
  <2> DEFINE a == f.app
  <2>1. f.call \in 2..4 /\ f.app = f.made /\ f.made # NoApp
    BY <1>1, <1>7 DEF FilingOK
  <2>2. a \in 1..Len(db) /\ db[a].by = i
    BY <1>1, <2>1 DEF FilingOK
  <2>3. /\ db' = [db EXCEPT ![a] = RecordEvent(@, Calls[f.call], "page")]
        /\ IsTransitionAllowed(db[a].status, Calls[f.call])
    BY <1>2, <2>1 DEF Execute, Refusal
  <2>4. Calls[f.call] \in EventTypes
    BY <2>1, CallsAre
  <2> HIDE DEF a
  <2>5. /\ db' \in Seq(RowType) /\ Grows /\ OneRowEach' /\ Len(db') = Len(db) /\ Len(db) \in Nat
        /\ db'[a] = RecordEvent(db[a], Calls[f.call], "page")
        /\ \A b \in 1..Len(db) : b # a => db'[b] = db[b]
        /\ db'[a].by = db[a].by /\ db'[a].text = db[a].text /\ db'[a].authority = db[a].authority
    BY <2>2, <2>3, <2>4, RowMoved
  <2>6. MadeInOrder(db[a], f.call - 1) /\ db[a].text = f.text /\ db[a].authority = f.target
        /\ f.made = a
    BY <1>3, <2>2
  <2>7. db[a] \in RowType
    BY <2>2, RowIs
  <2>8. MadeInOrder(db'[a], f.call)
    BY <2>1, <2>3, <2>5, <2>6, <2>7, PageStepMade
  <2>9. \A b \in 1..Len(db') : RowOK(b, db[b])'
    <3> TAKE b \in 1..Len(db')
    <3>1. CASE b = a
      <4>1. g.made \in {NoApp, a}
        BY <1>2, <1>7, <2>6
      <4> QED
        BY <3>1, <4>1, <2>2, <2>5, <2>6, <2>8, <1>5
    <3>2. CASE b # a
      <4>1. db[b].by # i
        BY <3>2, <2>2, <2>5 DEF IInv, OneRowEach
      <4> QED
        BY <3>2, <4>1, <2>5, <1>4
    <3> QED
      BY <3>1, <3>2
  <2> QED
    BY <1>7, <2>5, <2>9
<1> QED
  BY <1>6, <1>7


\* Refused, the row is as it was.
LEMMA RefusedIs ==
  ASSUME IInv, NEW f, f.app \in 1..Len(db), Refusal(f)
  PROVE  Execute(f) = db
<1>1. f.call # 1 /\ RecordEvent(db[f.app], Calls[f.call], "page") = db[f.app]
  BY DEF Refusal, RecordEvent
<1>2. db \in Seq(RowType) /\ DOMAIN db = 1..Len(db)
  BY LenProperties DEF IInv, Types
<1>3. [db EXCEPT ![f.app] = RecordEvent(@, Calls[f.call], "page")] = db
  BY <1>1, <1>2
<1> QED
  BY <1>1, <1>3 DEF Execute

LEMMA ServeKeeps == ASSUME IInv, NEW i \in 1..Len(filings), Serve(i) PROVE IInv'
<1> PICK f : f = filings[i]
  OBVIOUS
<1>1. f \in FilingType /\ FilingOK(i, f) /\ f.id = i /\ f.call \in 1..4
  BY FilingIs DEF Serve, Waiting, FilingType, FilingOK
<1>2. f.state = "waiting" /\ f.net = "sent" /\ UNCHANGED <<page, visit, strays, records>>
  BY DEF Serve, Waiting
<1>3. page' \in PageType /\ strays' \in SUBSET FilingType /\ OneStrayEach'
  BY <1>2 DEF IInv, Types, OneStrayEach
<1>4. CASE /\ db' = IF Refusal(f) THEN Execute(f) ELSE db
           /\ Resume(i, [f EXCEPT !.net = "error"])
  <2> DEFINE g == [f EXCEPT !.net = "error"]
  <2>1. g \in FilingType /\ Kept(f, g) /\ g.net = "error" /\ g.state = "waiting"
    BY <1>1, <1>2 DEF FilingType, Kept
  <2>2. Refusal(f) => f.app \in 1..Len(db)
    BY <1>1 DEF Refusal, FilingOK
  <2>3. db' = db
    BY <1>4, <2>2, RefusedIs
  <2>4. GivesUp(i, g)
    BY <1>2, <1>4, <2>1, <2>3 DEF GivesUp
  <2> HIDE DEF g
  <2>5. /\ Len(filings') = Len(filings)
        /\ \A j \in 1..Len(filings) : Stays(filings[j], filings'[j])
    BY <2>1, <2>4, Resumed, GivesUpMoves DEF GivesUp
  <2>6. ButtonMeansNone'
    BY <1>2, <2>5, ButtonStays
  <2> QED
    BY <1>2, <1>3, <2>1, <2>4, <2>6, GivesUpKeeps
<1>5. CASE /\ ~Refusal(f) /\ db' = Execute(f)
           /\ Resume(i, [f EXCEPT !.net = "ok", !.made = IF f.call = 1 THEN Len(db') ELSE @])
  <2>1. Len(db') \in Nat
    <3>1. CASE f.call = 1
      <4>1. Row(f) \in RowType /\ db \in Seq(RowType)
        BY <1>1, RowMade DEF IInv, Types
      <4>2. db' = Append(db, Row(f))
        BY <1>5, <3>1 DEF Execute
      <4> QED
        BY <4>1, <4>2, AppendProperties, LenProperties
    <3>2. CASE f.call # 1
      <4>1. db \in Seq(RowType)
        BY DEF IInv, Types
      <4>2. db' = [db EXCEPT ![f.app] = RecordEvent(@, Calls[f.call], "page")]
        BY <1>5, <3>2 DEF Execute
      <4>3. f.call \in 2..4 /\ f.app \in 1..Len(db)
        BY <1>1, <3>2 DEF FilingOK
      <4>4. Calls[f.call] \in EventTypes
        BY <4>3, CallsAre
      <4> QED
        BY <4>2, <4>3, <4>4, RowMoved
    <3> QED
      BY <3>1, <3>2
  <2> PICK new : new = IF f.call = 1 THEN Len(db') ELSE f.made
    OBVIOUS
  <2> DEFINE g == [f EXCEPT !.net = "ok", !.made = new]
  <2>2. new \in Nat \cup {NoApp}
    BY <1>1, <2>1 DEF FilingType
  <2>3. /\ g \in FilingType /\ g.id = i /\ g.visit = f.visit /\ g.text = f.text
        /\ g.target = f.target /\ g.call = f.call /\ g.app = f.app /\ g.net = "ok"
        /\ g.state = "waiting" /\ g.made = new
    BY <1>1, <1>2, <2>2 DEF FilingType
  <2>4. Resume(i, g)
    BY <1>5
  <2> HIDE DEF g
  <2>5. /\ filings' \in Seq(FilingType) /\ Len(filings') = Len(filings) /\ filings'[i] = g
        /\ \A j \in 1..Len(filings) : j # i => filings'[j] = filings[j]
    BY <2>3, <2>4, Resumed
  <2>6. new # NoApp
    BY <1>1, <2>1, NoneAssumption DEF FilingOK
  <2>7. \A s \in strays' : s \in strays /\ s.id # i
    BY <1>2, NoStrayWaits
  <2>8. f.call = 1 => f.made = NoApp
    BY <1>1, <1>2 DEF FilingOK
  <2>9. Executes(i, f, g)
    BY <1>1, <1>2, <1>5, <2>3, <2>5, <2>6, <2>7, <2>8 DEF Executes, Pending
  <2>10. /\ db' \in Seq(RowType) /\ Grows /\ OneRowEach' /\ Len(db') \in Nat
         /\ f.call = 1 => Len(db') = Len(db) + 1 /\ db'[Len(db')].by = i
         /\ \A a \in 1..Len(db') : RowOK(a, db[a])'
    BY <1>1, <2>3, <2>9, Executed
  <2>11. Len(db) \in Nat
    BY LenProperties DEF IInv, Types
  <2>12. FilingOK(i, g)'
    <3>1. f.call # 1 => f.made \in 1..Len(db') /\ db'[f.made].by = i
      BY <1>1, <2>10, <2>11 DEF FilingOK, Grows
    <3>2. new \in 1..Len(db') /\ db'[new].by = i
      BY <3>1, <2>10, <2>11
    <3>3. g.app = (IF g.call = 1 THEN NoApp ELSE g.made)
      BY <1>1, <2>3 DEF FilingOK
    <3> QED
      BY <1>1, <1>2, <2>3, <2>6, <3>2, <3>3 DEF FilingOK
  <2>13. \A j \in 1..Len(filings) : Stays(filings[j], filings'[j]) /\ FilingOK(j, filings[j])'
    <3> TAKE j \in 1..Len(filings)
    <3>1. CASE j = i
      BY <3>1, <1>1, <1>2, <2>3, <2>5, <2>12 DEF FilingOK, Stays, Live
    <3>2. CASE j # i
      <4> PICK h : h = filings[j]
        OBVIOUS
      <4>1. FilingOK(j, h) /\ filings'[j] = h
        BY <3>2, <2>5, FilingIs
      <4>2. FilingOK(j, h)'
        BY <4>1, <1>2, <2>10, <2>11, FilingStays
      <4> QED
        BY <4>1, <4>2, KeptSelf DEF FilingOK
    <3> QED
      BY <3>1, <3>2
  <2>14. \A s \in strays' : StrayOK(s)'
    <3> TAKE s \in strays'
    <3>1. StrayOK(s) /\ s.id \in 1..Len(filings) /\ s.id # i
      BY <2>7, NoStrayWaits DEF IInv
    <3>2. Kept(filings[s.id], filings'[s.id])
      BY <3>1, <2>5, KeptSelf
    <3> QED
      BY <3>1, <3>2, <2>5, StrayKept
  <2>15. ButtonMeansNone'
    BY <1>2, <2>5, <2>13, ButtonStays
  <2> QED
    BY <1>2, <1>3, <2>5, <2>10, <2>13, <2>14, <2>15, ScriptsMove
<1> QED
  BY <1>4, <1>5 DEF Serve

\* The case goes on in the backend alone.
LEMMA RowsMove ==
  ASSUME IInv, UNCHANGED <<page, visit, filings, records>>,
         strays' \in SUBSET strays, db' \in Seq(RowType), Grows, OneRowEach',
         \A a \in 1..Len(db') : RowOK(a, db[a])'
  PROVE  IInv'
<1>1. \A j \in 1..Len(filings) : Stays(filings[j], filings'[j]) /\ FilingOK(j, filings[j])'
  <2> TAKE j \in 1..Len(filings)
  <2> PICK h : h = filings[j]
    OBVIOUS
  <2>1. FilingOK(j, h) /\ filings'[j] = h
    BY FilingIs
  <2>2. Len(db) \in Nat /\ Len(db') \in Nat
    BY LenProperties DEF IInv, Types
  <2>3. FilingOK(j, h)'
    BY <2>1, <2>2, FilingStays
  <2> QED
    BY <2>1, <2>3, KeptSelf DEF FilingOK
<1>2. \A s \in strays' : StrayOK(s)'
  BY DEF IInv, StrayOK
<1>3. ButtonMeansNone'
  BY DEF IInv, ButtonMeansNone
<1>4. page' \in PageType /\ strays' \in SUBSET FilingType /\ OneStrayEach' /\ filings' \in Seq(FilingType)
  BY DEF IInv, Types, OneStrayEach
<1> QED
  BY <1>1, <1>2, <1>3, <1>4, ScriptsMove

\* A request nobody waits for reaches the backend after all.
LEMMA ServeStrayKeeps == ASSUME IInv, NEW f \in strays, ServeStray(f) PROVE IInv'
<1> PICK i : i = f.id
  OBVIOUS
<1> PICK h : h = filings[i]
  OBVIOUS
<1>1. /\ i \in 1..Len(filings) /\ h \in FilingType /\ FilingOK(i, h) /\ h.id = i
      /\ f \in FilingType /\ f.call \in 1..4 /\ h.state # "waiting"
      /\ f.text = h.text /\ f.target = h.target /\ f.app = h.app /\ f.call = h.call
      /\ f.made = h.made
      /\ f.call = 1 => f.made = NoApp
  <2>1. StrayOK(f) /\ f \in FilingType
    BY DEF IInv, Types
  <2>2. /\ i \in 1..Len(filings) /\ f.call <= 4 /\ h.state # "waiting"
        /\ f.text = h.text /\ f.target = h.target /\ f.app = h.app /\ f.call = h.call
        /\ f.made = h.made
        /\ f.call = 1 => f.made = NoApp
    BY <2>1 DEF StrayOK
  <2>3. f.call \in 1..4
    BY <2>1, <2>2 DEF FilingType
  <2> QED
    BY <2>1, <2>2, <2>3, FilingIs
<1>2. /\ UNCHANGED <<page, visit, filings, records>> /\ strays' = strays \ {f}
      /\ db' = Execute(f)
  BY DEF ServeStray
<1>3. \A s \in strays' : s \in strays /\ s.id # i
  BY <1>2 DEF IInv, OneStrayEach
<1>4. CASE Refusal(f)
  <2>1. f.app \in 1..Len(db)
    BY <1>1, <1>4 DEF Refusal, FilingOK
  <2>2. db' = db
    BY <1>2, <1>4, <2>1, RefusedIs
  <2>3. \A a \in 1..Len(db') : RowOK(a, db[a])'
    <3> TAKE a \in 1..Len(db')
    <3> PICK row : row = db[a]
      OBVIOUS
    <3>1. RowOK(a, row) /\ row.by \in 1..Len(filings) /\ filings[row.by].id = row.by
      BY <2>2, RowIs, FilingIs
    <3>2. Kept(filings[row.by], filings'[row.by]) /\ RowStays(row, row)
      BY <1>2, KeptSelf
    <3>3. StrayWasSent(row.by)
      BY <1>3 DEF StrayWasSent
    <3>4. RowOK(a, row)'
      BY <3>1, <3>2, <3>3, <1>2, RowKept
    <3> QED
      BY <2>2, <3>4 DEF RowOK, Reached
  <2>4. /\ db' \in Seq(RowType) /\ Grows /\ OneRowEach'
    BY <2>2, LenProperties DEF IInv, Types, Grows, OneRowEach
  <2> QED
    BY <1>2, <1>3, <2>3, <2>4, RowsMove
<1>5. CASE ~Refusal(f)
  <2>1. Executes(i, f, h)
    BY <1>1, <1>2, <1>3, <1>5 DEF Executes, Pending
  <2>2. db' \in Seq(RowType) /\ Grows /\ OneRowEach' /\ \A a \in 1..Len(db') : RowOK(a, db[a])'
    BY <1>1, <2>1, Executed
  <2> QED
    BY <1>2, <1>3, <2>2, RowsMove
<1> QED
  BY <1>4, <1>5

LEMMA PostElsewhereKeeps ==
  ASSUME IInv, NEW a \in 1..Len(db), NEW type \in {"VALIDATED", "SUBMITTED"}, PostElsewhere(a, type)
  PROVE  IInv'
<1>1. /\ UNCHANGED <<page, visit, filings, strays, records>>
      /\ db' = [db EXCEPT ![a] = RecordEvent(@, type, "other")]
  BY DEF PostElsewhere
<1>2. type \in EventTypes
  BY DEF EventTypes
<1>3. /\ db' \in Seq(RowType) /\ Grows /\ OneRowEach' /\ Len(db') = Len(db) /\ Len(db) \in Nat
      /\ db'[a] = RecordEvent(db[a], type, "other")
      /\ \A b \in 1..Len(db) : b # a => db'[b] = db[b]
      /\ db'[a].by = db[a].by /\ db'[a].text = db[a].text /\ db'[a].authority = db[a].authority
  BY <1>1, <1>2, RowMoved
<1>4. \A b \in 1..Len(db') : RowOK(b, db[b])'
  <2> TAKE b \in 1..Len(db')
  <2> PICK row : row = db[b]
    OBVIOUS
  <2> PICK q : q = db'[b]
    OBVIOUS
  <2>1. RowOK(b, row) /\ row.by \in 1..Len(filings) /\ filings[row.by].id = row.by /\ row \in RowType
    BY <1>3, RowIs, FilingIs
  <2>2. RowStays(row, q)
    <3>1. CASE b = a
      <4>1. q = RecordEvent(row, type, "other") /\ q.by = row.by /\ q.text = row.text
            /\ q.authority = row.authority
        BY <3>1, <1>3
      <4>2. \A m \in 1..4 : MadeInOrder(row, m) => MadeInOrder(q, m)
        BY <1>2, <2>1, <4>1, OtherKeeps
      <4> QED
        BY <4>1, <4>2 DEF RowStays
    <3>2. CASE b # a
      BY <3>2, <1>3, KeptSelf
    <3> QED
      BY <3>1, <3>2
  <2>3. Kept(filings[row.by], filings'[row.by]) /\ StrayWasSent(row.by)
    BY <1>1, KeptSelf DEF StrayWasSent
  <2>4. RowOK(b, q)'
    BY <2>1, <2>2, <2>3, <1>1, RowKept
  <2> QED
    BY <2>4 DEF RowOK, Reached
<1> QED
  BY <1>1, <1>3, <1>4, RowsMove


\* The tab closes: its scripts end, and what they sent is on its way.
LEMMA CloseTabKeeps == IInv /\ CloseTab => IInv'
<1> SUFFICES ASSUME IInv, CloseTab PROVE IInv'
  OBVIOUS
<1> DEFINE Ended(h) == [h EXCEPT !.state = "closed"]
           sent == { filings[i] : i \in { i \in DOMAIN filings :
                                            Waiting(i) /\ filings[i].net = "sent" } }
<1>1. /\ page' = Elsewhere("other") /\ UNCHANGED <<visit, db, records>>
      /\ strays' = strays \cup sent
      /\ filings' = [i \in DOMAIN filings |->
           IF filings[i].state \in {"waiting", "storing"} THEN [filings[i] EXCEPT !.state = "closed"]
           ELSE filings[i]]
  BY DEF CloseTab
<1>2. filings \in Seq(FilingType) /\ DOMAIN filings = 1..Len(filings) /\ Len(filings) \in Nat
  BY LenProperties DEF IInv, Types
<1>3. \A i \in 1..Len(filings) :
        filings'[i] = IF filings[i].state \in {"waiting", "storing"} THEN Ended(filings[i])
                      ELSE filings[i]
  BY <1>1, <1>2
<1>4. \A h \in FilingType :
        /\ Ended(h) \in FilingType /\ Kept(h, Ended(h)) /\ Ended(h).state = "closed"
        /\ h.state \in {"waiting", "storing"} => Stays(h, Ended(h))
  BY DEF FilingType, Kept, Stays, Live
<1> HIDE DEF Ended
<1>5. \A i \in 1..Len(filings) :
        /\ filings'[i] \in FilingType /\ Kept(filings[i], filings'[i])
        /\ Stays(filings[i], filings'[i]) /\ filings'[i].state \notin {"waiting", "storing"}
  BY <1>3, <1>4, KeptSelf, FilingIs
<1>6. filings' \in Seq(FilingType) /\ Len(filings') = Len(filings)
  <2>1. DOMAIN filings' = 1..Len(filings)
    BY <1>1, <1>2
  <2>2. filings' \in [1..Len(filings) -> FilingType]
    BY <1>1, <1>2, <1>5, <2>1
  <2>3. filings' \in Seq(FilingType)
    BY <1>2, <2>2, SeqDef
  <2> QED
    BY <1>2, <2>1, <2>3, LenProperties
<1>7. \A i \in 1..Len(filings) : FilingOK(i, filings[i])'
  <2> TAKE i \in 1..Len(filings)
  <2> PICK g : g = filings'[i]
    OBVIOUS
  <2>1. FilingOK(i, filings[i]) /\ Kept(filings[i], g) /\ g.state # "waiting"
    BY <1>5, FilingIs
  <2>2. FilingOK(i, g)
    BY <2>1 DEF FilingOK, Kept
  <2> QED
    BY <1>1, <2>2 DEF FilingOK
<1>8. \A s \in sent : /\ s \in FilingType /\ s.id \in 1..Len(filings) /\ s = filings[s.id]
                      /\ s.state = "waiting" /\ s.net = "sent"
  BY <1>2, FilingIs DEF Waiting
<1> HIDE DEF sent
<1>9. \A s \in strays' : StrayOK(s)' /\ s \in FilingType
  <2> TAKE s \in strays'
  <2>1. CASE s \in strays
    <3>1. StrayOK(s) /\ s \in FilingType /\ s.id \in 1..Len(filings)
      BY <2>1, NoStrayWaits DEF IInv
    <3>2. Kept(filings[s.id], filings'[s.id])
      BY <3>1, <1>5
    <3> QED
      BY <3>1, <3>2, <1>6, StrayKept
  <2>2. CASE s \in sent
    <3> PICK i : i = s.id
      OBVIOUS
    <3> PICK g : g = filings'[i]
      OBVIOUS
    <3>1. /\ s \in FilingType /\ i \in 1..Len(filings) /\ s = filings[i]
          /\ s.state = "waiting" /\ s.net = "sent"
      BY <2>2, <1>8
    <3>2. FilingOK(i, s) /\ Kept(s, g) /\ g.state # "waiting"
      BY <3>1, <1>5, FilingIs
    <3>3. s.call <= 4 /\ (s.call = 1 => s.made = NoApp)
      BY <3>1, <3>2 DEF FilingOK
    <3> QED
      BY <3>1, <3>2, <3>3, <1>6 DEF StrayOK, Kept
  <2> QED
    BY <2>1, <2>2, <1>1
<1>10. OneStrayEach'
  <2> SUFFICES ASSUME NEW s \in strays', NEW t \in strays', s.id = t.id PROVE s = t
    BY DEF OneStrayEach
  <2>2. \A x \in strays, y \in sent : x.id # y.id
    BY <1>8, NoStrayWaits
  <2>3. CASE s \in strays /\ t \in strays
    BY <2>3 DEF IInv, OneStrayEach
  <2>4. CASE s \in sent /\ t \in sent
    BY <2>4, <1>8
  <2> QED
    BY <1>1, <2>2, <2>3, <2>4
<1>11. \A i \in 1..Len(filings) : StrayWasSent(i)
  BY <1>1, <1>8 DEF StrayWasSent
<1>12. \A a \in 1..Len(db') : RowOK(a, db[a])'
  <2> TAKE a \in 1..Len(db')
  <2> PICK row : row = db[a]
    OBVIOUS
  <2>1. RowOK(a, row) /\ row.by \in 1..Len(filings) /\ filings[row.by].id = row.by /\ db'[a] = row
    BY <1>1, RowIs, FilingIs
  <2>2. Kept(filings[row.by], filings'[row.by]) /\ RowStays(row, row) /\ StrayWasSent(row.by)
    BY <2>1, <1>5, <1>11, KeptSelf
  <2>3. RowOK(a, row)'
    BY <2>1, <2>2, <1>6, RowKept
  <2> QED
    BY <2>1, <2>3 DEF RowOK, Reached
<1>13. page' \in PageType /\ ButtonMeansNone'
  BY <1>1, ElsewhereIs DEF ButtonMeansNone
<1>14. db' \in Seq(RowType) /\ OneRowEach' /\ strays' \in SUBSET FilingType
  BY <1>1, <1>9 DEF IInv, Types, OneRowEach
<1> QED
  BY <1>1, <1>5, <1>6, <1>7, <1>9, <1>10, <1>12, <1>13, <1>14, ScriptsMove
-----------------------------------------------------------------------------
(* The theorems.                                                           *)

LEMMA InvNext == IInv /\ [Next]_vars => IInv'
<1> SUFFICES ASSUME IInv, [Next]_vars PROVE IInv'
  OBVIOUS
<1>0. DOMAIN filings = 1..Len(filings) /\ DOMAIN db = 1..Len(db)
  BY LenProperties DEF IInv, Types
<1>1. CASE UNCHANGED vars
  <2>1. UNCHANGED <<page, visit, filings, strays, db, records>>
    BY <1>1 DEF vars
  <2>2. ButtonMeansNone'
    BY <2>1 DEF IInv, ButtonMeansNone
  <2>3. visit \in Nat /\ page' \in PageType
    BY <2>1 DEF IInv, Types
  <2> QED
    BY <2>1, <2>2, <2>3, PageMoves
<1>2. CASE Draft
  <2>1. CASE OpenCreate
    BY <2>1, OpenCreateKeeps
  <2>2. CASE \E w \in Words \ {"brief"} : UseRevision(Typed(w)) \/ Edit(w)
    <3>1. PICK w \in Words : UseRevision(Typed(w)) \/ Edit(w)
      BY <2>2
    <3>2. CASE UseRevision(Typed(w))
      BY <3>2, UseRevisionKeeps
    <3>3. CASE Edit(w)
      BY <3>3, ShownStepsKeep
    <3> QED
      BY <3>1, <3>2, <3>3
  <2>3. CASE \E a \in Authorities \cup {NoAuthority} : ChooseAuthority(a)
    <3>1. "brief" \in Words
      BY DEF Words
    <3> QED
      BY <2>3, <3>1, ShownStepsKeep
  <2>4. CASE \/ Continue \/ Back \/ ApplyDoctor \/ KeepMyWording \/ EditRequestText
             \/ FollowCreateLink \/ LeavePage
    <3>1. "brief" \in Words /\ NoAuthority \in Authorities \cup {NoAuthority}
      BY DEF Words
    <3> QED
      BY <2>4, <3>1, ShownStepsKeep
  <2>5. CASE HandleCreate
    BY <2>5, HandleCreateKeeps
  <2>6. CASE CloseTab
    BY <2>6, CloseTabKeeps
  <2> QED
    BY <1>2, <2>1, <2>2, <2>3, <2>4, <2>5, <2>6 DEF Draft
<1>3. CASE \E i \in DOMAIN filings : Serve(i) \/ Answer(i) \/ StoreCase(i)
  <2>1. PICK i \in 1..Len(filings) : Serve(i) \/ Answer(i) \/ StoreCase(i)
    BY <1>0, <1>3
  <2>2. CASE Serve(i)
    BY <2>2, ServeKeeps
  <2>3. CASE Answer(i)
    BY <2>3, ReceiveKeeps, LoseCallKeeps, GarbleAnswerKeeps DEF Answer
  <2>4. CASE StoreCase(i)
    BY <2>4, StoreCaseKeeps
  <2> QED
    BY <2>1, <2>2, <2>3, <2>4
<1>4. CASE \E f \in strays : ServeStray(f)
  BY <1>4, ServeStrayKeeps
<1>5. CASE \E a \in DOMAIN db, type \in {"VALIDATED", "SUBMITTED"} : PostElsewhere(a, type)
  BY <1>0, <1>5, PostElsewhereKeeps
<1> QED
  BY <1>1, <1>2, <1>3, <1>4, <1>5 DEF Next

LEMMA Invariant == Spec => []IInv
  BY InvInit, InvNext, PTL DEF Spec

\* What a record, a script and a row say of each other, read off the invariant.
LEMMA LinkedRow ==
  ASSUME IInv, NEW i \in 1..Len(filings), filings[i].app # NoApp
  PROVE  /\ filings[i].app \in 1..Len(db) /\ db[filings[i].app].by = i
         /\ db[filings[i].app].text = filings[i].text
         /\ db[filings[i].app].authority = filings[i].target
<1> PICK f : f = filings[i]
  OBVIOUS
<1>1. f \in FilingType /\ FilingOK(i, f)
  BY FilingIs
<1>2. f.app = f.made /\ f.app \in 1..Len(db) /\ db[f.app].by = i
  BY <1>1 DEF FilingOK
<1>3. RowOK(f.app, db[f.app])
  BY <1>2, RowIs
<1> QED
  BY <1>2, <1>3 DEF RowOK

LEMMA InvLinked == IInv => LinkedIsSameRequest
<1> SUFFICES ASSUME IInv PROVE LinkedIsSameRequest
  OBVIOUS
<1>1. DOMAIN records = 1..Len(records)
  BY LenProperties DEF IInv, Types
<1>2. ASSUME NEW r \in 1..Len(records), records[r].app # NoApp
      PROVE  \E i \in 1..Len(filings) :
               /\ filings[i].visit = records[r].visit /\ filings[i].app = records[r].app
               /\ db[records[r].app].by = i
               /\ records[r].text = db[records[r].app].text
               /\ records[r].authority = db[records[r].app].authority
  <2>1. PICK i \in 1..Len(filings) :
          /\ filings[i].state = "done" /\ filings[i].visit = records[r].visit
          /\ filings[i].app = records[r].app /\ filings[i].text = records[r].text
          /\ filings[i].target = records[r].authority
    BY DEF IInv, RecordOK
  <2> QED
    BY <1>2, <2>1, LinkedRow
<1>3. ASSUME NEW q \in 1..Len(records), NEW r \in 1..Len(records), records[r].app # NoApp,
             records[q].app = records[r].app
      PROVE  q = r
  <2>1. records[q].visit = records[r].visit
    BY <1>2, <1>3
  <2> QED
    BY <2>1 DEF IInv, OneRecordEach
<1> QED
  BY <1>1, <1>2, <1>3 DEF LinkedIsSameRequest

LEMMA InvOneCase == IInv => OneCasePerVisit
<1> SUFFICES ASSUME IInv PROVE OneCasePerVisit
  OBVIOUS
<1>1. DOMAIN records = 1..Len(records)
  BY LenProperties DEF IInv, Types
<1> QED
  BY <1>1 DEF IInv, OneRecordEach, OneCasePerVisit

LEMMA InvAnswered == IInv => AnsweredIsCommitted
<1> SUFFICES ASSUME IInv, NEW i \in DOMAIN filings, filings[i].app # NoApp
             PROVE  \E m \in {filings[i].call - 1, filings[i].call - 1 + 1} \cap DOMAIN Calls :
                      MadeInOrder(db[filings[i].app], m)
  BY DEF AnsweredIsCommitted
<1> PICK f : f = filings[i]
  OBVIOUS
<1>1. i \in 1..Len(filings)
  BY LenProperties DEF IInv, Types
<1>2. f.app \in 1..Len(db) /\ db[f.app].by = i /\ f \in FilingType
  BY <1>1, LinkedRow, FilingIs
<1>3. RowOK(f.app, db[f.app])
  BY <1>2, RowIs
<1>4. PICK m \in 1..4 : Reached(db[f.app], f, m)
  BY <1>2, <1>3 DEF RowOK
<1>5. m \in {f.call - 1, f.call} /\ MadeInOrder(db[f.app], m) /\ m \in DOMAIN Calls
  BY <1>4, CallsAre DEF Reached
<1>6. f.call - 1 + 1 = f.call
  BY <1>2 DEF FilingType
<1> QED
  BY <1>5, <1>6

LEMMA InvOrphans == IInv => OrphansAreDrafts
<1> SUFFICES ASSUME IInv, NEW a \in DOMAIN db, filings[db[a].by].state = "done",
                    filings[db[a].by].app # a
             PROVE  MadeInOrder(db[a], 1)
  BY DEF OrphansAreDrafts
<1>1. a \in 1..Len(db)
  BY LenProperties DEF IInv, Types
<1> PICK i : i = db[a].by
  OBVIOUS
<1> PICK f : f = filings[i]
  OBVIOUS
<1>2. RowOK(a, db[a]) /\ i \in 1..Len(filings) /\ FilingOK(i, f) /\ f \in FilingType
  BY <1>1, RowIs, FilingIs
<1>3. f.made \in {NoApp, a} /\ \E m \in 1..4 : Reached(db[a], f, m)
  BY <1>2 DEF RowOK
<1>4. f.call = 1
  BY <1>2, <1>3 DEF FilingOK
<1>5. PICK m \in 1..4 : Reached(db[a], f, m)
  BY <1>3
<1>6. m = 1 /\ MadeInOrder(db[a], m)
  BY <1>4, <1>5 DEF Reached
<1> QED
  BY <1>6

\* A case linked to an application is about the request that was filed, and
\* no other case is linked to it, whatever is edited meanwhile.
THEOREM SameRequest == Spec => []LinkedIsSameRequest
  BY Invariant, InvLinked, PTL

\* However often the button is pressed and whatever is lost, delayed or
\* garbled, a visit of the page leaves one case at most.
THEOREM OneCaseEach == Spec => []OneCasePerVisit
  BY Invariant, InvOneCase, PTL

\* The log of a linked application holds every answered call, once each and
\* in the order of the calls, and at most the lost one beyond them.
THEOREM AnswersHold == Spec => []AnsweredIsCommitted
  BY Invariant, InvAnswered, PTL

\* An application its case does not link to is a bare draft.
THEOREM OrphansBare == Spec => []OrphansAreDrafts
  BY Invariant, InvOrphans, PTL

=============================================================================
