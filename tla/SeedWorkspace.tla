--------------------------- MODULE SeedWorkspace ---------------------------
(***************************************************************************)
(* The five linked cases of the demo workspace (frontend/src/domain/       *)
(* seed.ts), as records dated from the moment they are loaded.             *)
(*                                                                         *)
(* Time is counted in half days, so that a difference of dates need not be *)
(* a whole number of days. Of an event, a document or an audit entry the   *)
(* record keeps the kind and the date; names and wording are left out.     *)
(***************************************************************************)
EXTENDS CaseTrail, Integers

Days(n) == 2 * n

Ev(type, at)  == [type |-> type, at |-> at]
Doc(kind, at) == [kind |-> kind, at |-> at]

\* The items of the review checklist that are checked: none in a new case.
BaseChecklist == {}

\* What the five builders share: filed on its second or third event, the
\* trail version counting the events, nothing linked to the backend.
SeedCase(authority, status, stage, due, updated, events, docs, audit, checked, versions) ==
  [ authority |-> authority, status |-> status, govStage |-> stage, due |-> due,
    submitted |-> (CHOOSE e \in { events[i] : i \in DOMAIN events } :
                     e.type = "REQUEST_SUBMITTED").at,
    created |-> events[1].at, updated |-> updated, events |-> events, docs |-> docs,
    audit |-> audit, checked |-> checked, versions |-> versions,
    trailVersion |-> Len(events) ]

\* Answered, two days before its window closed.
BuildCaseA(at) ==
  LET Ago(n) == at - Days(n)
  IN SeedCase("MCD", "RESPONSE_RELEASED", "RESPONSE_RELEASED", Ago(5), Ago(6),
       << Ev("REQUEST_CREATED", Ago(36)), Ev("REQUEST_REVISED", Ago(36)),
          Ev("REQUEST_SUBMITTED", Ago(35)), Ev("REQUEST_ACKNOWLEDGED", Ago(34)),
          Ev("REQUEST_FORWARDED", Ago(32)), Ev("RESPONSE_RECEIVED", Ago(7)),
          Ev("RESPONSE_VERIFIED", Ago(6)) >>,
       << Doc("RECEIPT", Ago(35)), Doc("FORWARDING_NOTICE", Ago(32)),
          Doc("RESPONSE_DOCUMENT", Ago(7)) >>,
       << Ago(9), Ago(7), Ago(7) >>, ChecklistItems, 3)

\* Overdue, nothing filed yet.
BuildCaseB(at) ==
  LET Ago(n) == at - Days(n)
  IN SeedCase("MCD", "OVERDUE", "UNDER_REVIEW", Ago(18), Ago(18),
       << Ev("REQUEST_CREATED", Ago(49)), Ev("REQUEST_SUBMITTED", Ago(48)),
          Ev("REQUEST_ACKNOWLEDGED", Ago(46)), Ev("DEADLINE_MISSED", Ago(18)) >>,
       << Doc("RECEIPT", Ago(48)), Doc("ACKNOWLEDGEMENT", Ago(46)) >>,
       << Ago(18) >>, {"requestUnderstood"}, 1)

\* Under review, due in three days.
BuildCaseC(at) ==
  LET Ago(n) == at - Days(n)
  IN SeedCase("DDA", "UNDER_REVIEW", "INFO_LOCATED", at + Days(3), Ago(20),
       << Ev("REQUEST_CREATED", Ago(28)), Ev("REQUEST_SUBMITTED", Ago(27)),
          Ev("REQUEST_ACKNOWLEDGED", Ago(25)), Ev("REQUEST_FORWARDED", Ago(20)) >>,
       << Doc("RECEIPT", Ago(27)), Doc("FORWARDING_NOTICE", Ago(20)) >>,
       << Ago(21), Ago(19) >>, {"requestUnderstood", "recordsIdentified"}, 1)

\* Answered yesterday; its due date is that day, not 30 days from filing.
BuildCaseD(at) ==
  LET Ago(n) == at - Days(n)
  IN SeedCase("DoE", "RESPONSE_RELEASED", "RESPONSE_RELEASED", Ago(1), Ago(1),
       << Ev("REQUEST_CREATED", Ago(26)), Ev("REQUEST_SUBMITTED", Ago(25)),
          Ev("REQUEST_ACKNOWLEDGED", Ago(23)), Ev("RESPONSE_RECEIVED", Ago(1)) >>,
       << Doc("RECEIPT", Ago(25)), Doc("RESPONSE_DOCUMENT", Ago(1)) >>,
       << Ago(1) >>, ChecklistItems \ {"exemptionReviewDone"}, 1)

\* Overdue and appealed.
BuildCaseE(at) ==
  LET Ago(n) == at - Days(n)
  IN SeedCase("CPWD", "FIRST_APPEAL", "UNDER_REVIEW", Ago(35), Ago(4),
       << Ev("REQUEST_CREATED", Ago(66)), Ev("REQUEST_SUBMITTED", Ago(65)),
          Ev("REQUEST_ACKNOWLEDGED", Ago(63)), Ev("DEADLINE_MISSED", Ago(35)),
          Ev("APPEAL_PREPARED", Ago(5)), Ev("APPEAL_SUBMITTED", Ago(4)) >>,
       << Doc("RECEIPT", Ago(65)), Doc("APPEAL_DOCUMENT", Ago(5)) >>,
       << Ago(35) >>, BaseChecklist, 1)

SeedIds == {"A", "B", "C", "D", "E"}

\* What bulkInsert receives when the workspace is loaded at time "at".
Seeds(at) ==
  [ A |-> BuildCaseA(at), B |-> BuildCaseB(at), C |-> BuildCaseC(at),
    D |-> BuildCaseD(at), E |-> BuildCaseE(at) ]
=============================================================================
