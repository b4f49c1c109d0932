---------------------------- MODULE MCCaseStore ----------------------------
(* Instances of the case store for TLC.                                    *)
EXTENDS CaseStoreProperties, TLC

Symmetric == Permutations(Tabs) \cup Permutations(Tasks)

\* A reachable state from which the release of a response is explored: one
\* case has been created and submitted, and an officer has moved it through
\* the stages to READY_TO_RELEASE one after the other. The ids of that past
\* are not told apart (0), and only the last fresh one is left.
ReadyTypes  == <<"REQUEST_CREATED", "REQUEST_SUBMITTED">>
ReadyEvents ==
  ComputeHashChain([n \in 1..7 |->
    [ content |-> [ id |-> 0,
                    type |-> IF n <= 2 THEN ReadyTypes[n] ELSE "GOV_STAGE_CHANGED",
                    stage |-> IF n <= 2 THEN "NONE" ELSE GOV_STAGE_ORDER[n - 1],
                    doc |-> 0 ],
      hash |-> <<>> ]])
ReadyRecord(c) ==
  [ NewRecord(c) EXCEPT !.status = "SUBMITTED", !.govStage = "READY_TO_RELEASE",
                        !.events = ReadyEvents, !.trailVersion = 7, !.audit = {"OPENED"} ]

ReadyInit ==
  \E c \in Cases \ {SeedCase} :
    /\ store = [d \in Cases |-> IF d = c THEN ReadyRecord(c) ELSE NoRecord]
    /\ notifications = <<[caseId |-> c, about |-> "submitted"]>>
    /\ demo = FALSE
    /\ copies = [d \in Cases |-> IF d = c THEN CopyOf(ReadyRecord(c)) ELSE NoCopy]
    /\ page = [p \in Tabs |-> NoPage]
    /\ task = [t \in Tasks |-> Idle]
    /\ uuid = MaxUuid

\* From nothing or from there.
FilingSpec == (Init \/ ReadyInit) /\ [][Next]_vars
=============================================================================
