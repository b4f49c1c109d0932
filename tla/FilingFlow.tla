----------------------------- MODULE FilingFlow -----------------------------
(***************************************************************************)
(* Filing a request: the page that drafts it (CreateCasePage.tsx), the     *)
(* Application Doctor that hands it a revision (ApplicationDoctorPage.tsx, *)
(* applicationDoctor.ts), the four calls to the backend (lib/api.ts) and   *)
(* what the backend keeps of them, with its audit rows.                    *)
(*                                                                         *)
(* A call may fail before, while or after the backend executes it: fetch   *)
(* has no timeout, and when it rejects the request may still be on its way *)
(* (strays). The script of a pressed button outlives the page that ran it. *)
(* What the two local saves overlap with is the subject of CaseStore.      *)
(***************************************************************************)
EXTENDS RtiStateMachine, Sequences, Integers

CONSTANTS
  Authorities,  \* ids of the demo directory
  NoAuthority,
  NoApp,        \* no application of the backend
  MaxVisits,    \* visits of the page
  MaxMoves,     \* things done on it between the presses
  MaxPresses,   \* presses of "File RTI"
  MaxOthers     \* events another client of the API posts

ASSUME NoneAssumption == NoAuthority \notin Authorities /\ NoApp \notin Nat
ASSUME MaxAssumption == {MaxVisits, MaxMoves, MaxPresses, MaxOthers} \subseteq Nat

VARIABLES
  page,     \* what the tab shows
  visit,    \* which visit of the create page that is, or was last
  moves,    \* things done on the page so far
  filings,  \* the scripts of the presses so far
  strays,   \* requests whose caller has given up, not executed yet
  db,       \* the backend's applications
  others,   \* events posted by another client
  refused,  \* illegal transitions the backend has refused
  records   \* the browser's cases that were created here

vars == <<page, visit, moves, filings, strays, db, others, refused, records>>

(* A text is its wording and how often the Doctor has rewritten it.        *)
Words == {"brief", "plain", "named"}
Typed(w) == [words |-> w, passes |-> 0]

\* A rewrite keeps the subject and the ward, and may drop what named the
\* authority.
SuggestAuthority(t) ==
  IF t.words = "named" /\ t.passes = 0 THEN CHOOSE a \in Authorities : TRUE ELSE NoAuthority

\* Of the analysis: the rewrite.
AnalyzeRequest(t) == [t EXCEPT !.passes = @ + 1]

Version(n, source, t) == [version |-> n, source |-> source, text |-> t]

CreatePage(step, t, prefill) ==
  [ at |-> "create", step |-> step, text |-> t, chosen |-> NoAuthority, applied |-> FALSE,
    creating |-> FALSE, error |-> "none", prefill |-> prefill ]
Elsewhere(at) == [CreatePage(0, Typed("brief"), <<>>) EXCEPT !.at = at]
-----------------------------------------------------------------------------
(* The page.                                                               *)

browser == <<filings, strays, db, others, refused, records>>
CreateOpen == page.at = "create"
Shown(p) ==
  /\ moves < MaxMoves /\ moves' = moves + 1
  /\ page' = p
  /\ UNCHANGED <<visit, browser>>

OpenCreate ==
  /\ ~CreateOpen /\ visit < MaxVisits
  /\ page' = CreatePage(0, Typed("brief"), <<>>)
  /\ visit' = visit + 1
  /\ UNCHANGED <<moves, browser>>

\* "Use this revision in a new RTI": the page opens at its review step.
VersionsFor(t) == <<Version(1, "citizen", t), Version(2, "doctor", AnalyzeRequest(t))>>
UseRevision(t) ==
  /\ ~CreateOpen /\ visit < MaxVisits
  /\ page' = CreatePage(3, AnalyzeRequest(t), VersionsFor(t))
  /\ visit' = visit + 1
  /\ UNCHANGED <<moves, browser>>

Edit(w) == CreateOpen /\ page.step = 0 /\ Shown([page EXCEPT !.text = Typed(w)])

ChooseAuthority(a) == CreateOpen /\ page.step = 1 /\ Shown([page EXCEPT !.chosen = a])

Target == IF page.chosen # NoAuthority THEN page.chosen ELSE SuggestAuthority(page.text)

CanNext ==
  /\ page.step = 0 => page.text.words # "brief" \/ page.text.passes > 0
  /\ page.step = 1 => Target # NoAuthority

Continue == CreateOpen /\ page.step < 4 /\ CanNext /\ Shown([page EXCEPT !.step = @ + 1])
Back     == CreateOpen /\ page.step > 0 /\ Shown([page EXCEPT !.step = @ - 1])

ApplyDoctor ==
  /\ CreateOpen /\ page.step = 3 /\ ~page.applied
  /\ Shown([page EXCEPT !.text = AnalyzeRequest(@), !.applied = TRUE])
KeepMyWording ==
  CreateOpen /\ page.step = 3 /\ ~page.applied /\ Shown([page EXCEPT !.applied = TRUE])
EditRequestText ==
  CreateOpen /\ page.step = 3 /\ page.applied /\ Shown([page EXCEPT !.step = 0])

\* The navigation's own link to the page forgets what was handed over.
FollowCreateLink == CreateOpen /\ page.prefill # <<>> /\ Shown([page EXCEPT !.prefill = <<>>])

LeavePage == CreateOpen /\ Shown(Elsewhere("other"))
-----------------------------------------------------------------------------
(* The script of a press.                                                  *)

\* The calls in order; a filing stands at one of them, or at the local saves.
Calls == <<"CREATE", "VALIDATED", "READY_TO_FILE", "SUBMITTED">>

Filing(versions) ==
  [ id |-> Len(filings) + 1, visit |-> visit, text |-> page.text, target |-> Target, versions |-> versions,
    app |-> NoApp, state |-> "waiting", call |-> 1, net |-> "sent", made |-> NoApp ]

\* The list of a revision handed over is extended in place.
VersionList ==
  LET first == IF page.prefill # <<>> THEN page.prefill
               ELSE <<Version(1, "citizen", page.text)>>
  IN IF page.applied THEN Append(first, Version(Len(first) + 1, "doctor", page.text))
     ELSE first

\* Mutant of HandleCreate: the button is not disabled while filing.
HandleCreateTwice ==
  /\ CreateOpen /\ page.step = 4 /\ Len(filings) < MaxPresses
  /\ Target # NoAuthority
  /\ page' = [page EXCEPT !.creating = TRUE, !.error = "none"]
  /\ filings' = Append(filings, Filing(VersionList))
  /\ UNCHANGED <<visit, moves, strays, db, others, refused, records>>

HandleCreate ==
  /\ CreateOpen /\ page.step = 4 /\ ~page.creating /\ Len(filings) < MaxPresses
  /\ \/ /\ Target = NoAuthority
        /\ page' = [page EXCEPT !.error = "authority", !.step = 1]
        /\ UNCHANGED filings
     \/ /\ Target # NoAuthority
        /\ page' = [page EXCEPT !.creating = TRUE, !.error = "none",
                      !.prefill = IF @ = <<>> THEN @ ELSE VersionList]
        /\ filings' = Append(filings, Filing(VersionList))
  /\ UNCHANGED <<visit, moves, strays, db, others, refused, records>>

Waiting(i) == filings[i].state = "waiting"
Resume(i, f) == filings' = [filings EXCEPT ![i] = f]

\* The backend's half of a call: the row, its event and its audit row are
\* committed together, or none is.
Row(f) == [ by |-> f.id, text |-> f.text, authority |-> f.target,
            status |-> INITIAL_STATE, log |-> <<[type |-> "DRAFT_CREATED", actor |-> "page"]>>,
            audit |-> <<"CREATE">> ]

\* Refused, the row stays as it is.
RecordEvent(row, type, actor) ==
  IF IsTransitionAllowed(row.status, type)
  THEN [row EXCEPT !.status = type, !.log = Append(@, [type |-> type, actor |-> actor]),
                   !.audit = Append(@, type)]
  ELSE row

\* What executing a filing's call leaves in the database.
Execute(f) ==
  IF f.call = 1 THEN Append(db, Row(f))
  ELSE [db EXCEPT ![f.app] = RecordEvent(@, Calls[f.call], "page")]
Refusal(f) == f.call > 1 /\ ~IsTransitionAllowed(db[f.app].status, Calls[f.call])

\* Executed and answered. A 4xx or 5xx may also come of an unknown user or
\* authority, or of a commit that failed.
Serve(i) ==
  LET f == filings[i]
  IN /\ Waiting(i) /\ f.net = "sent"
     /\ \/ /\ ~Refusal(f) /\ db' = Execute(f)
           /\ Resume(i, [f EXCEPT !.net = "ok", !.made = IF f.call = 1 THEN Len(db') ELSE @])
           /\ UNCHANGED refused
        \/ /\ db' = IF Refusal(f) THEN Execute(f) ELSE db
           /\ Resume(i, [f EXCEPT !.net = "error"])
           /\ refused' = IF Refusal(f) THEN refused + 1 ELSE refused
     /\ UNCHANGED <<page, visit, moves, strays, others, records>>

ServeStray(f) ==
  /\ f \in strays
  /\ strays' = strays \ {f}
  /\ db' = Execute(f)
  /\ refused' = IF Refusal(f) THEN refused + 1 ELSE refused
  /\ UNCHANGED <<page, visit, moves, filings, others, records>>

\* Mutant of Receive: the status of the answer is not looked at.
ReceiveAnyStatus(i) ==
  LET f == filings[i]
  IN /\ Waiting(i) /\ f.net \in {"ok", "error"} /\ f.made # NoApp
     /\ Resume(i, IF f.call < 4
                  THEN [f EXCEPT !.app = f.made, !.call = @ + 1, !.net = "sent"]
                  ELSE [f EXCEPT !.state = "storing", !.call = 5])
     /\ UNCHANGED <<page, visit, moves, strays, db, others, refused, records>>

\* Mutant of Receive: the link is kept only once all calls are answered.
ReceiveLinkLast(i) ==
  LET f == filings[i]
  IN /\ Waiting(i)
     /\ \/ /\ f.net = "ok"
           /\ Resume(i, IF f.call < 4
                        THEN [f EXCEPT !.app = f.made, !.call = @ + 1, !.net = "sent"]
                        ELSE [f EXCEPT !.state = "storing", !.call = 5])
        \/ /\ f.net = "error"
           /\ Resume(i, [f EXCEPT !.state = "storing", !.app = NoApp])
     /\ UNCHANGED <<page, visit, moves, strays, db, others, refused, records>>

\* The answer arrives: on to the next call, or to the local saves.
Receive(i) ==
  LET f == filings[i]
  IN /\ Waiting(i)
     /\ \/ /\ f.net = "ok"
           /\ Resume(i, IF f.call < 4
                        THEN [f EXCEPT !.app = f.made, !.call = @ + 1, !.net = "sent"]
                        ELSE [f EXCEPT !.state = "storing", !.call = 5])
        \/ /\ f.net = "error"
           /\ Resume(i, [f EXCEPT !.state = "storing"])
     /\ UNCHANGED <<page, visit, moves, strays, db, others, refused, records>>

\* fetch rejects: the trail is local from here on.
LoseCall(i) ==
  LET f == filings[i]
  IN /\ Waiting(i)
     /\ strays' = IF f.net = "sent" THEN strays \cup {f} ELSE strays
     /\ Resume(i, [f EXCEPT !.state = "storing"])
     /\ UNCHANGED <<page, visit, moves, db, others, refused, records>>

\* Mutant of GarbleAnswer: the button stays disabled.
GarbleAnswerBusy(i) ==
  /\ Waiting(i) /\ filings[i].net = "ok"
  /\ Resume(i, [filings[i] EXCEPT !.state = "failed"])
  /\ page' = IF CreateOpen /\ filings[i].visit = visit
             THEN [page EXCEPT !.error = "failed"] ELSE page
  /\ UNCHANGED <<visit, moves, strays, db, others, refused, records>>

\* The body of a success is no JSON: "Could not create this request."
GarbleAnswer(i) ==
  /\ Waiting(i) /\ filings[i].net = "ok"
  /\ Resume(i, [filings[i] EXCEPT !.state = "failed"])
  /\ page' = IF CreateOpen /\ filings[i].visit = visit
             THEN [page EXCEPT !.creating = FALSE, !.error = "failed"] ELSE page
  /\ UNCHANGED <<visit, moves, strays, db, others, refused, records>>

\* Mutant of StoreCase: it takes the text that is on the page by now.
StoreCaseOnScreen(i) ==
  LET f == filings[i]
  IN /\ f.state = "storing"
     /\ records' = Append(records, [ visit |-> f.visit, app |-> f.app, authority |-> f.target,
                                     text |-> IF CreateOpen THEN page.text ELSE f.text,
                                     versions |-> f.versions, acked |-> f.call - 1 ])
     /\ Resume(i, [f EXCEPT !.state = "done"])
     /\ page' = Elsewhere("case")
     /\ UNCHANGED <<visit, moves, strays, db, others, refused>>

\* createCase, submitCase and the offline copy, then on to the case, wherever
\* the citizen is by now.
StoreCase(i) ==
  LET f == filings[i]
  IN /\ f.state = "storing"
     /\ records' = Append(records, [ visit |-> f.visit, app |-> f.app, authority |-> f.target,
                                     text |-> f.text, versions |-> f.versions,
                                     acked |-> f.call - 1 ])
     /\ Resume(i, [f EXCEPT !.state = "done"])
     /\ page' = Elsewhere("case")
     /\ UNCHANGED <<visit, moves, strays, db, others, refused>>

\* Scripts end with the tab; the requests they sent do not.
CloseTab ==
  /\ page' = Elsewhere("other")
  /\ strays' = strays \cup { filings[i] : i \in { i \in DOMAIN filings :
                                              Waiting(i) /\ filings[i].net = "sent" } }
  /\ filings' = [i \in DOMAIN filings |->
       IF filings[i].state \in {"waiting", "storing"} THEN [filings[i] EXCEPT !.state = "closed"]
       ELSE filings[i]]
  /\ UNCHANGED <<visit, moves, db, others, refused, records>>

\* Another client of the API posts an event of an application.
PostElsewhere(a, type) ==
  /\ others < MaxOthers
  /\ others' = others + 1
  /\ db' = [db EXCEPT ![a] = RecordEvent(@, type, "other")]
  /\ refused' = IF IsTransitionAllowed(db[a].status, type) THEN refused ELSE refused + 1
  /\ UNCHANGED <<page, visit, moves, filings, strays, records>>
-----------------------------------------------------------------------------
Init ==
  /\ page = Elsewhere("other") /\ visit = 0 /\ moves = 0
  /\ filings = <<>> /\ strays = {} /\ db = <<>>
  /\ others = 0 /\ refused = 0 /\ records = <<>>

Draft ==
  \/ OpenCreate
  \/ \E w \in Words \ {"brief"} : UseRevision(Typed(w)) \/ Edit(w)
  \/ \E a \in Authorities \cup {NoAuthority} : ChooseAuthority(a)
  \/ Continue \/ Back \/ ApplyDoctor \/ KeepMyWording \/ EditRequestText
  \/ HandleCreate \/ FollowCreateLink \/ LeavePage \/ CloseTab

Answer(i) == Receive(i) \/ LoseCall(i) \/ GarbleAnswer(i)

Next ==
  \/ Draft
  \/ \E i \in DOMAIN filings : Serve(i) \/ Answer(i) \/ StoreCase(i)
  \/ \E f \in strays : ServeStray(f)
  \/ \E a \in DOMAIN db, type \in {"VALIDATED", "SUBMITTED"} : PostElsewhere(a, type)

Spec == Init /\ [][Next]_vars

\* A call is some day answered or given up, and a suspended script resumed.
Fairness ==
  \A i \in 1..MaxPresses :
    /\ WF_vars(i \in DOMAIN filings /\ Answer(i))
    /\ WF_vars(i \in DOMAIN filings /\ StoreCase(i))

FairSpec == Spec /\ Fairness
=============================================================================
