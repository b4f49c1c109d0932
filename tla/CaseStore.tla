----------------------------- MODULE CaseStore -----------------------------
(***************************************************************************)
(* The case store of the browser (frontend/src/domain/store.ts) and the    *)
(* pages that write it: every open tab reads and writes one localStorage.  *)
(*                                                                         *)
(* A script runs to its next await without interruption, so an operation   *)
(* is cut at the await inside appendEventInternal, while the hash chain is *)
(* computed: before it the record is read and changed in memory, after it  *)
(* the whole record is written back. What another task wrote in between is *)
(* overwritten. Listeners are called in the writing tab only; a page in    *)
(* another tab keeps the record it last rendered.                          *)
(***************************************************************************)
EXTENDS CaseTrail, Integers, FiniteSets

CONSTANTS
  Tabs,               \* open tabs of the browser
  NoTab,              \* not a member of Tabs
  Tasks,              \* operations that may be in flight at once
  SeedCase,           \* the case of the demo workspace (outside Cases: no demo)
  NotificationLimit,  \* 50 in the code
  MaxUuid             \* operations begin only while fewer events were appended

ASSUME NoTabAssumption == NoTab \notin Tabs
ASSUME NotificationLimitAssumption == NotificationLimit \in Nat \ {0}
ASSUME MaxUuidAssumption == MaxUuid \in Nat

VARIABLES
  store,          \* store[c]: the saved record, or NoRecord
  notifications,  \* newest first
  demo,           \* the demo-workspace flag
  copies,         \* copies[c]: the offline copy, or NoCopy
  page,           \* page[p]: the case workspace tab p shows, if any
  task,           \* task[t]: an operation waiting for its hash chain
  uuid            \* the next fresh id

vars == <<store, notifications, demo, copies, page, task, uuid>>

Notification == [caseId : Cases, about : {"submitted", "released", "appeal", "overdue"}]

Page == [ layout : {"none", "citizen", "gov"}, route : Cases \cup {NoCase},
          record : CaseRecord \cup {NoRecord} ]
NoPage == [layout |-> "none", route |-> NoCase, record |-> NoRecord]

Op == {"idle", "create", "submit", "stage", "received", "attach", "appeal",
       "appealed", "load"}
Task == [op : Op, tab : Tabs \cup {NoTab}, record : CaseRecord \cup {NoRecord}]

Exists(c) == store[c] # NoRecord
-----------------------------------------------------------------------------
(* Writing.                                                                *)

Saved(r) == [store EXCEPT ![r.suchnaId] = r]

WithAudit(saved, c, action) == [saved EXCEPT ![c].audit = @ \cup {action}]

\* writeAll and notify in tab p: its page re-reads the store, and the
\* citizen's workspace keeps the offline copy fresh.
Write(p, saved) ==
  LET shown == IF page[p].layout = "none" THEN NoRecord ELSE saved[page[p].route]
  IN /\ store' = saved
     /\ page' = [page EXCEPT ![p].record = shown]
     /\ copies' = IF page[p].layout = "citizen" /\ shown # NoRecord
                  THEN [copies EXCEPT ![shown.suchnaId] = CopyOf(shown)]
                  ELSE copies

\* Mutant of PushNotification: nothing is ever dropped.
PushNotificationUncapped(c, about) ==
  notifications' = <<[caseId |-> c, about |-> about]>> \o notifications

\* Newest first, the oldest beyond the limit dropped.
PushNotification(c, about) ==
  LET all == <<[caseId |-> c, about |-> about]>> \o notifications
  IN notifications' = SubSeq(all, 1, IF Len(all) < NotificationLimit
                                     THEN Len(all) ELSE NotificationLimit)

\* Task t of tab p now waits for the hash chain of r, whose last event is new.
Await(t, p, op, r) ==
  /\ task' = [task EXCEPT ![t] = [op |-> op, tab |-> p, record |-> r]]
  /\ uuid' = uuid + 1

Idle       == [op |-> "idle", tab |-> NoTab, record |-> NoRecord]
CanBegin(t) == task[t] = Idle /\ uuid <= MaxUuid
Done(t)    == task' = [task EXCEPT ![t] = Idle] /\ UNCHANGED uuid
-----------------------------------------------------------------------------
(* Filing: CreateCasePage.                                                 *)

\* createCase: generateSuchnaId is taken to return an id never used before.
CreateCase(t, p, c) ==
  /\ CanBegin(t) /\ page[p].layout = "none"
  /\ c # SeedCase /\ ~Exists(c) /\ copies[c] = NoCopy
  /\ \A u \in Tasks : task[u].record.suchnaId # c
  /\ Await(t, p, "create", Appended(NewRecord(c), uuid, "REQUEST_CREATED", "NONE", 0))
  /\ UNCHANGED <<store, notifications, demo, copies, page>>

\* createCase saves and submitCase begins on what it saved.
FinishCreate(t) ==
  LET r == Settled(task[t].record)
  IN /\ task[t].op = "create"
     /\ Write(task[t].tab, Saved(r))
     /\ Await(t, task[t].tab, "submit",
              Appended([r EXCEPT !.status = "SUBMITTED"], uuid, "REQUEST_SUBMITTED", "NONE", 0))
     /\ UNCHANGED <<notifications, demo>>

\* submitCase saves, the offline copy is taken and the tab opens the case.
FinishSubmit(t) ==
  LET r == Settled(task[t].record)
  IN /\ task[t].op = "submit"
     /\ store' = Saved(r)
     /\ copies' = [copies EXCEPT ![r.suchnaId] = CopyOf(r)]
     /\ page' = [page EXCEPT ![task[t].tab] =
                   [layout |-> "citizen", route |-> r.suchnaId, record |-> r]]
     /\ PushNotification(r.suchnaId, "submitted")
     /\ Done(t)
     /\ UNCHANGED demo
-----------------------------------------------------------------------------
(* The citizen's workspace.                                                *)

\* Opening a case renders what is stored and refreshes its offline copy.
OpenCitizenCase(p, c) ==
  /\ Exists(c)
  /\ page' = [page EXCEPT ![p] = [layout |-> "citizen", route |-> c, record |-> store[c]]]
  /\ copies' = [copies EXCEPT ![c] = CopyOf(store[c])]
  /\ UNCHANGED <<store, notifications, demo, task, uuid>>

\* "Sync now" on the trail passport copies the record as rendered.
SyncOfflineRecord(p) ==
  /\ page[p].layout = "citizen" /\ page[p].record # NoRecord
  /\ copies' = [copies EXCEPT ![page[p].route] = CopyOf(page[p].record)]
  /\ UNCHANGED <<store, notifications, demo, page, task, uuid>>

\* Mutant of FileFirstAppeal: the status is left as it is.
FileFirstAppealQuietly(t, p) ==
  LET c == page[p].route
  IN /\ CanBegin(t) /\ page[p].layout = "citizen"
     /\ page[p].record.status = "OVERDUE" /\ Exists(c)
     /\ Await(t, p, "appeal", Appended(store[c], uuid, "APPEAL_PREPARED", "NONE", 0))
     /\ UNCHANGED <<store, notifications, demo, copies, page>>

\* CaseLegalTab.handleFile, offered when the rendered record is overdue.
FileFirstAppeal(t, p) ==
  LET c == page[p].route
  IN /\ CanBegin(t) /\ page[p].layout = "citizen"
     /\ page[p].record.status = "OVERDUE" /\ Exists(c)
     /\ Await(t, p, "appeal",
              Appended([store[c] EXCEPT !.status = "FIRST_APPEAL"], uuid,
                       "APPEAL_PREPARED", "NONE", 0))
     /\ UNCHANGED <<store, notifications, demo, copies, page>>

\* fileFirstAppeal saves and addEvent begins on what it saved.
FinishAppeal(t) ==
  LET r == Settled(task[t].record)
  IN /\ task[t].op = "appeal"
     /\ Write(task[t].tab, Saved(r))
     /\ PushNotification(r.suchnaId, "appeal")
     /\ Await(t, task[t].tab, "appealed", Appended(r, uuid, "APPEAL_SUBMITTED", "NONE", 0))
     /\ UNCHANGED demo
-----------------------------------------------------------------------------
(* The officer's workspace.                                                *)

\* Opening a case is itself audited.
OpenGovCase(p, c) ==
  LET saved == WithAudit(store, c, "OPENED")
  IN /\ Exists(c)
     /\ store' = saved
     /\ page' = [page EXCEPT ![p] = [layout |-> "gov", route |-> c, record |-> saved[c]]]
     /\ UNCHANGED <<notifications, demo, copies, task, uuid>>

\* Mutant of AdvanceStage: the stage is saved at once, its event later.
AdvanceStageOnScreen(t, p) ==
  LET c == page[p].route
  IN /\ CanBegin(t) /\ page[p].layout = "gov" /\ page[p].record # NoRecord /\ Exists(c)
     /\ \E next \in NextGovStage(page[p].record.govStage) :
          /\ Write(p, [WithAudit(store, c, next) EXCEPT ![c].govStage = next])
          /\ Await(t, p, "stage", Appended([store[c] EXCEPT !.govStage = next], uuid,
                                           "GOV_STAGE_CHANGED", next, 0))
     /\ UNCHANGED <<notifications, demo>>

\* Mutant of AdvanceStage: the event joins the record as it was rendered.
AdvanceStageRendered(t, p) ==
  LET c == page[p].route
  IN /\ CanBegin(t) /\ page[p].layout = "gov" /\ page[p].record # NoRecord /\ Exists(c)
     /\ \E next \in NextGovStage(page[p].record.govStage) :
          /\ Write(p, WithAudit(store, c, next))
          /\ Await(t, p, "stage", Appended([page[p].record EXCEPT !.govStage = next], uuid,
                                           "GOV_STAGE_CHANGED", next, 0))
     /\ UNCHANGED <<notifications, demo>>

\* transitionGovStage, to the stage after the one rendered. The record is
\* read before addAudit saves its entry, so the copy in memory lacks it.
AdvanceStage(t, p) ==
  LET c == page[p].route
  IN /\ CanBegin(t) /\ page[p].layout = "gov" /\ page[p].record # NoRecord /\ Exists(c)
     /\ \E next \in NextGovStage(page[p].record.govStage) :
          /\ Write(p, WithAudit(store, c, next))
          /\ Await(t, p, "stage", Appended([store[c] EXCEPT !.govStage = next], uuid,
                                           "GOV_STAGE_CHANGED", next, 0))
     /\ UNCHANGED <<notifications, demo>>

FinishStage(t) ==
  LET r == Settled(task[t].record)
  IN /\ task[t].op = "stage" /\ r.govStage # "RESPONSE_RELEASED"
     /\ Write(task[t].tab, Saved(r))
     /\ Done(t)
     /\ UNCHANGED <<notifications, demo>>

\* Mutant of FinishRelease: the status waits for the receipt.
FinishReleaseQuietly(t) ==
  LET r == Settled(task[t].record)
  IN /\ task[t].op = "stage" /\ r.govStage = "RESPONSE_RELEASED"
     /\ PushNotification(r.suchnaId, "released")
     /\ Write(task[t].tab, Saved(r))
     /\ Await(t, task[t].tab, "received", Appended(r, uuid, "RESPONSE_RECEIVED", "NONE", 0))
     /\ UNCHANGED demo

\* The last stage releases the response, and GovResponseTab.advance goes on
\* to record its receipt.
FinishRelease(t) ==
  LET r == [Settled(task[t].record) EXCEPT !.status = "RESPONSE_RELEASED"]
  IN /\ task[t].op = "stage" /\ r.govStage = "RESPONSE_RELEASED"
     /\ PushNotification(r.suchnaId, "released")
     /\ Write(task[t].tab, Saved(r))
     /\ Await(t, task[t].tab, "received", Appended(r, uuid, "RESPONSE_RECEIVED", "NONE", 0))
     /\ UNCHANGED demo

\* Mutant of AttachDocument: the event does not name the document.
AttachDocumentUnnamed(t, p) ==
  LET c == page[p].route
  IN /\ CanBegin(t) /\ page[p].layout = "gov" /\ page[p].record # NoRecord /\ Exists(c)
     /\ Await(t, p, "attach",
              Appended([store[c] EXCEPT !.evidence = @ \cup {uuid}], uuid,
                       "DOCUMENT_ADDED", "NONE", 0))
     /\ UNCHANGED <<store, notifications, demo, copies, page>>

\* GovDocumentsTab.attach.
AttachDocument(t, p) ==
  LET c == page[p].route
  IN /\ CanBegin(t) /\ page[p].layout = "gov" /\ page[p].record # NoRecord /\ Exists(c)
     /\ Await(t, p, "attach",
              Appended([store[c] EXCEPT !.evidence = @ \cup {uuid}], uuid,
                       "DOCUMENT_ADDED", "NONE", uuid))
     /\ UNCHANGED <<store, notifications, demo, copies, page>>

\* addEvidence saves, then the attachment is audited.
FinishAttach(t) ==
  LET r == Settled(task[t].record)
  IN /\ task[t].op = "attach"
     /\ Write(task[t].tab, WithAudit(Saved(r), r.suchnaId, "ATTACHED"))
     /\ Done(t)
     /\ UNCHANGED <<notifications, demo>>

\* GovResponseTab.toggle: negate the item as rendered, then audit it.
ToggleChecklist(p, item) ==
  LET c == page[p].route
      r == [store[c] EXCEPT !.checked = IF item \in page[p].record.checked
                                        THEN @ \ {item} ELSE @ \cup {item}]
  IN /\ page[p].layout = "gov" /\ page[p].record # NoRecord /\ Exists(c)
     /\ Write(p, WithAudit(Saved(r), c, "CHECKLIST"))
     /\ UNCHANGED <<notifications, demo, task, uuid>>

\* addEvent as the second step of an operation: receipt of a released
\* response, which sets the status, or submission of an appeal.
FinishEvent(t) ==
  LET settled == Settled(task[t].record)
      r == IF task[t].op = "received"
           THEN [settled EXCEPT !.status = "RESPONSE_RELEASED"] ELSE settled
  IN /\ task[t].op \in {"received", "appealed"}
     /\ Write(task[t].tab, Saved(r))
     /\ Done(t)
     /\ UNCHANGED <<notifications, demo>>
-----------------------------------------------------------------------------
(* The workspace as a whole.                                               *)

\* Case B of the demo workspace: overdue, with two documents that were
\* never attached through the store.
SeedTypes  == <<"REQUEST_CREATED", "REQUEST_SUBMITTED", "REQUEST_ACKNOWLEDGED", "DEADLINE_MISSED">>
SeedEvents ==
  ComputeHashChain([n \in 1..4 |->
    [content |-> [id |-> 0, type |-> SeedTypes[n], stage |-> "NONE", doc |-> 0], hash |-> <<>>]])
SeedRecord ==
  [ suchnaId |-> SeedCase, status |-> "OVERDUE", govStage |-> "UNDER_REVIEW",
    events |-> SeedEvents, trailVersion |-> Len(SeedEvents), evidence |-> {},
    audit |-> {}, checked |-> {} ]

\* loadDemoWorkspace tests the flag, then waits for the chains of the seeds.
LoadDemoWorkspace(t, p) ==
  /\ SeedCase \in Cases
  /\ CanBegin(t) /\ ~demo
  /\ task' = [task EXCEPT ![t] = [op |-> "load", tab |-> p, record |-> NoRecord]]
  /\ UNCHANGED <<store, notifications, demo, copies, page, uuid>>

FinishLoad(t) ==
  /\ task[t].op = "load"
  /\ Write(task[t].tab, Saved(SeedRecord))
  /\ demo' = TRUE
  /\ PushNotification(SeedCase, "overdue")
  /\ Done(t)

\* Mutant of ClearWorkspace: the notifications survive.
ClearWorkspaceKeepingNotifications(p) ==
  /\ store' = [c \in Cases |-> NoRecord]
  /\ demo' = FALSE
  /\ page' = [page EXCEPT ![p] = NoPage]
  /\ UNCHANGED <<copies, notifications, task, uuid>>

\* The offline copies outlive it, and so do operations in flight.
ClearWorkspace(p) ==
  /\ store' = [c \in Cases |-> NoRecord]
  /\ notifications' = <<>>
  /\ demo' = FALSE
  /\ page' = [page EXCEPT ![p] = NoPage]
  /\ UNCHANGED <<copies, task, uuid>>

LeaveCase(p) ==
  /\ page[p].layout # "none"
  /\ page' = [page EXCEPT ![p] = NoPage]
  /\ UNCHANGED <<store, notifications, demo, copies, task, uuid>>

\* Closing or reloading a tab drops its operations.
CloseTab(p) ==
  /\ page' = [page EXCEPT ![p] = NoPage]
  /\ task' = [t \in Tasks |-> IF task[t].tab = p THEN Idle ELSE task[t]]
  /\ UNCHANGED <<store, notifications, demo, copies, uuid>>
-----------------------------------------------------------------------------
Init ==
  /\ store = [c \in Cases |-> NoRecord]
  /\ notifications = <<>>
  /\ demo = FALSE
  /\ copies = [c \in Cases |-> NoCopy]
  /\ page = [p \in Tabs |-> NoPage]
  /\ task = [t \in Tasks |-> Idle]
  /\ uuid = 1

Visit(p) ==
  \/ \E c \in Cases : OpenCitizenCase(p, c) \/ OpenGovCase(p, c)
  \/ \E item \in ChecklistItems : ToggleChecklist(p, item)
  \/ SyncOfflineRecord(p)
  \/ ClearWorkspace(p)
  \/ LeaveCase(p)
  \/ CloseTab(p)

Begin(t, p) ==
  \/ \E c \in Cases : CreateCase(t, p, c)
  \/ FileFirstAppeal(t, p)
  \/ AdvanceStage(t, p)
  \/ AttachDocument(t, p)
  \/ LoadDemoWorkspace(t, p)

Finish(t) ==
  \/ FinishCreate(t)
  \/ FinishSubmit(t)
  \/ FinishAppeal(t)
  \/ FinishStage(t)
  \/ FinishRelease(t)
  \/ FinishAttach(t)
  \/ FinishEvent(t)
  \/ FinishLoad(t)

Next ==
  \/ \E p \in Tabs : Visit(p)
  \/ \E t \in Tasks, p \in Tabs : Begin(t, p)
  \/ \E t \in Tasks : Finish(t)

Spec == Init /\ [][Next]_vars
=============================================================================
