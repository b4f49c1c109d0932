----------------------------- MODULE CaseTrail -----------------------------
(***************************************************************************)
(* One case as the browser keeps it (frontend/src/domain/types.ts) and the *)
(* hash chain over its trail (frontend/src/domain/integrity.ts).           *)
(*                                                                         *)
(* A digest is the sequence of contents it commits to: SHA-256 is taken to *)
(* be injective and nothing else of it matters. <<>> is "not hashed yet".  *)
(***************************************************************************)
EXTENDS Naturals, Sequences

CONSTANTS
  Cases,           \* Suchna IDs
  NoCase,          \* the id of no case
  ChecklistItems   \* the keys of the review checklist

ASSUME NoCaseAssumption == NoCase \notin Cases

CaseStatus ==
  { "DRAFT", "SUBMITTED", "ACKNOWLEDGED", "FORWARDED", "UNDER_REVIEW",
    "RESPONSE_DRAFTED", "RESPONSE_RELEASED", "OVERDUE", "FIRST_APPEAL",
    "SECOND_APPEAL", "CLOSED" }

GOV_STAGE_ORDER ==
  << "RECEIVED", "UNDER_REVIEW", "INFO_LOCATED", "RESPONSE_DRAFTED",
     "COMPLIANCE_REVIEW", "READY_TO_RELEASE", "RESPONSE_RELEASED" >>

GovStage == { GOV_STAGE_ORDER[i] : i \in 1..7 }

\* The stage after "current", none after the last.
NextGovStage(current) ==
  { GOV_STAGE_ORDER[i + 1] : i \in { i \in 1..6 : GOV_STAGE_ORDER[i] = current } }

CaseEventType ==
  { "REQUEST_CREATED", "REQUEST_SUBMITTED", "REQUEST_ACKNOWLEDGED",
    "DOCUMENT_ADDED", "RESPONSE_RECEIVED", "DEADLINE_MISSED", "APPEAL_PREPARED",
    "APPEAL_SUBMITTED", "GOV_STAGE_CHANGED" }

\* What canonicalEvent serialises; "stage" is the stage a GOV_STAGE_CHANGED
\* names ("NONE" for others), "doc" the documentId (0: none).
Content == [ id : Nat, type : CaseEventType, stage : GovStage \cup {"NONE"}, doc : Nat ]

CaseEvent == [content : Content, hash : Seq(Content)]

\* Each link commits to its event and the link before it.
ComputeHashChain(events) ==
  [n \in DOMAIN events |->
     [ content |-> events[n].content,
       hash    |-> [k \in 1..n |-> events[k].content] ]]

\* Recompute the chain afresh and compare its head.
VerifyTrail(events) ==
  events = <<>> \/ ComputeHashChain(events)[Len(events)].hash = events[Len(events)].hash
-----------------------------------------------------------------------------
\* The audit log, as the set of kinds of entry in it: a stage moved to, a
\* case opened, a document attached, a checklist item changed.
AuditAction == GovStage \cup {"OPENED", "ATTACHED", "CHECKLIST"}

CaseRecord == [ suchnaId : Cases, status : CaseStatus, govStage : GovStage,
                events : Seq(CaseEvent), trailVersion : Nat, evidence : SUBSET Nat,
                audit : SUBSET AuditAction, checked : SUBSET ChecklistItems ]

NoRecord == [ suchnaId |-> NoCase, status |-> "DRAFT", govStage |-> "RECEIVED",
              events |-> <<>>, trailVersion |-> 0, evidence |-> {},
              audit |-> {}, checked |-> {} ]

NewRecord(c) == [NoRecord EXCEPT !.suchnaId = c]

\* appendEventInternal before its await: the event joins the array unhashed.
Appended(r, id, type, stage, doc) ==
  [r EXCEPT !.events = Append(@,
     [content |-> [id |-> id, type |-> type, stage |-> stage, doc |-> doc], hash |-> <<>>])]

\* Mutant of Settled: the chain is not recomputed.
SettledUnhashed(r) == [r EXCEPT !.trailVersion = @ + 1]

\* appendEventInternal after its await.
Settled(r) == [r EXCEPT !.events = ComputeHashChain(@), !.trailVersion = @ + 1]

\* The citizen-held copy of a record: its events and payload.
CitizenCopy == [events : Seq(CaseEvent), trailVersion : Nat]
CopyOf(r)   == [events |-> r.events, trailVersion |-> r.trailVersion]
NoCopy      == [events |-> <<>>, trailVersion |-> 0]
=============================================================================
