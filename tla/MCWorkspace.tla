---------------------------- MODULE MCWorkspace ----------------------------
(* Instances of the workspace for TLC.                                     *)
EXTENDS WorkspaceProperties

\* Reachable pasts, so that the last days of a window and a release are within the
\* bounds: a request filed 30 days and a half before, in the last half
\* day of its window ...
FiledAt  == 0 - Days(30) - 1
LateCase == [NewCase("MHUA") EXCEPT
  !.due = FiledAt + Days(30), !.submitted = FiledAt, !.created = FiledAt, !.updated = FiledAt,
  !.events = <<Ev("REQUEST_CREATED", FiledAt), Ev("REQUEST_SUBMITTED", FiledAt)>>]

\* ... beside one just filed and the demo workspace, which the officer has moved
\* on: the new case and three of the seeded ones stand at READY_TO_RELEASE.
RECURSIVE MovedTo(_, _)
MovedTo(r, n) ==
  IF r.govStage = GOV_STAGE_ORDER[n] THEN r
  ELSE MovedTo(Advanced(r, CHOOSE s \in NextGovStage(r.govStage) : TRUE), n)

Worked == [c \in SeedIds \cup {"N", "P"} |->
             CASE c = "N" -> LateCase
               [] c = "P" -> MovedTo(NewCase("MHUA"), 6)
               [] c \in {"B", "C", "E"} -> MovedTo(Seeds(0)[c], 6)
               [] OTHER -> Seeds(0)[c]]

PastInit ==
  /\ now = 0 /\ writes = 0
  /\ cases \in {<<>>, Worked} /\ demo = (cases = Worked)
  /\ session = NoSession
  /\ screen = "closed" /\ gate = "choose" /\ pending = {}

PastSpec == PastInit /\ [][Next]_vars

\* A suspended load ends, and the clock goes on.
FairSpec == PastSpec /\ WF_vars(Loads) /\ WF_vars(Tick)
=============================================================================
