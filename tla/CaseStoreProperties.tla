------------------------ MODULE CaseStoreProperties ------------------------
(***************************************************************************)
(* What the browser's case store guarantees: first whatever operations     *)
(* overlap, then when at most one is in flight.                            *)
(***************************************************************************)
EXTENDS CaseStore

\* Types of the seven variables.
TypeOK ==
  /\ store \in [Cases -> CaseRecord \cup {NoRecord}]
  /\ \A c \in Cases : store[c].suchnaId \in {c, NoCase}
  /\ notifications \in Seq(Notification) /\ Len(notifications) <= NotificationLimit
  /\ demo \in BOOLEAN
  /\ copies \in [Cases -> CitizenCopy]
  /\ page \in [Tabs -> Page]
  /\ task \in [Tasks -> Task]
  /\ uuid \in Nat

Contents(r) == [n \in DOMAIN r.events |-> r.events[n].content]

\* The index of the last event of "which" on the trail, 0 if there is none.
LastOf(r, which(_)) ==
  LET found == { n \in DOMAIN r.events : which(r.events[n].content) }
  IN IF found = {} THEN 0 ELSE CHOOSE n \in found : \A m \in found : m <= n

IsStageEvent(content) == content.type = "GOV_STAGE_CHANGED"

\* The events that carry a status, and the status each one gives.
IsStatusEvent(content) ==
  \/ content.type \in { "REQUEST_CREATED", "REQUEST_SUBMITTED", "DEADLINE_MISSED",
                        "RESPONSE_RECEIVED", "APPEAL_PREPARED" }
  \/ content.stage = "RESPONSE_RELEASED"

StatusGivenBy(content) ==
  CASE content.type = "REQUEST_CREATED"   -> "DRAFT"
    [] content.type = "REQUEST_SUBMITTED" -> "SUBMITTED"
    [] content.type = "DEADLINE_MISSED"   -> "OVERDUE"
    [] content.type = "APPEAL_PREPARED"   -> "FIRST_APPEAL"
    [] OTHER                              -> "RESPONSE_RELEASED"
-----------------------------------------------------------------------------
(* For any number of overlapping operations.                               *)

\* Every stored trail and every offline copy passes verifyTrail, and its
\* version counts its events: no interleaving of whole-record writes mixes
\* two chains (integrity.ts, appendEventInternal, buildTrailPayload).
TrailsVerify ==
  \A c \in Cases : \A trail \in {store[c], copies[c]} :
    VerifyTrail(trail.events) /\ trail.trailVersion = Len(trail.events)

\* The stage of a case is the one its trail last moved to: an overwritten
\* stage takes its event with it (transitionGovStage).
StageMatchesTrail ==
  \A c \in Cases : Exists(c) =>
    LET last == LastOf(store[c], IsStageEvent)
    IN store[c].govStage =
         IF last # 0 THEN store[c].events[last].content.stage
         ELSE IF c = SeedCase THEN SeedRecord.govStage ELSE NewRecord(c).govStage

\* The status of a case is the one its trail last gave it (submitCase,
\* transitionGovStage, addEvent's statusOverride, fileFirstAppeal).
StatusMatchesTrail ==
  \A c \in Cases : Exists(c) =>
    LET last == LastOf(store[c], IsStatusEvent)
    IN last # 0 /\ store[c].status = StatusGivenBy(store[c].events[last].content)

\* The documents of a case are those its trail names, no more and no fewer
\* (addEvidence).
DocumentsMatchTrail ==
  \A c \in Cases :
    store[c].evidence =
      { store[c].events[n].content.doc :
          n \in { n \in DOMAIN store[c].events :
                    store[c].events[n].content.type = "DOCUMENT_ADDED" } }

\* A notification links to a case that is there, also when the workspace is
\* cleared under an operation in flight (pushNotification, clearWorkspace).
NotificationsPointAtCases ==
  \A n \in DOMAIN notifications : Exists(notifications[n].caseId)
-----------------------------------------------------------------------------
(* When at most one operation is in flight.                                *)

\* Loading the demo workspace replaces its case, should it be there.
Reseeded(c) == c = SeedCase /\ ~demo /\ demo'

\* The trail of a stored case only grows at its end, even when the tab that
\* writes it shows an outdated record (appendEventInternal, saveCase).
TrailAppendOnly ==
  [][\A c \in Cases : Exists(c) /\ store'[c] # NoRecord /\ ~Reseeded(c) =>
       /\ Len(store[c].events) <= Len(store'[c].events)
       /\ Contents(store[c]) = SubSeq(Contents(store'[c]), 1, Len(store[c].events))]_vars
=============================================================================
