-------------------------- MODULE RtiStateMachine --------------------------
(***************************************************************************)
(* The transition table of an RTI application                              *)
(* (backend/app/domain/case_engine/state_machine.py): a pure relation,     *)
(* consulted by every operation that may write applications.status.        *)
(***************************************************************************)

ApplicationStatus ==
  { "DRAFT", "VALIDATED", "READY_TO_FILE", "SUBMITTED", "ACKNOWLEDGED",
    "TRANSFERRED", "UNDER_PROCESSING", "RESPONSE_RECEIVED",
    "RESPONSE_ANALYSIS", "COMPLETED", "NO_RESPONSE", "INCOMPLETE_RESPONSE",
    "FIRST_APPEAL_ELIGIBLE", "FIRST_APPEAL_FILED", "SECOND_APPEAL_ELIGIBLE" }

\* Mutant of INITIAL_STATE: a default outside the enumeration.
InitialStateUnknown == "NEW"

INITIAL_STATE == "DRAFT"

\* The table as a set of edges; a status with no edge out is a dead end.
TRANSITIONS ==
  { <<"DRAFT", "VALIDATED">>,
    <<"VALIDATED", "READY_TO_FILE">>, <<"VALIDATED", "DRAFT">>,
    <<"READY_TO_FILE", "SUBMITTED">>,
    <<"SUBMITTED", "ACKNOWLEDGED">>,
    <<"ACKNOWLEDGED", "TRANSFERRED">>, <<"ACKNOWLEDGED", "UNDER_PROCESSING">>,
    <<"TRANSFERRED", "UNDER_PROCESSING">>,
    <<"UNDER_PROCESSING", "RESPONSE_RECEIVED">>,
    <<"UNDER_PROCESSING", "NO_RESPONSE">>,
    <<"RESPONSE_RECEIVED", "RESPONSE_ANALYSIS">>,
    <<"RESPONSE_ANALYSIS", "COMPLETED">>,
    <<"RESPONSE_ANALYSIS", "INCOMPLETE_RESPONSE">>,
    <<"NO_RESPONSE", "FIRST_APPEAL_ELIGIBLE">>,
    <<"INCOMPLETE_RESPONSE", "FIRST_APPEAL_ELIGIBLE">>,
    <<"FIRST_APPEAL_ELIGIBLE", "FIRST_APPEAL_FILED">>,
    <<"FIRST_APPEAL_FILED", "SECOND_APPEAL_ELIGIBLE">>,
    <<"FIRST_APPEAL_FILED", "COMPLETED">> }

IsTransitionAllowed(from, to) == <<from, to>> \in TRANSITIONS

=============================================================================
