---------------------------- MODULE MCCaseEngine ----------------------------
(* Instances of the case engine for TLC.                                   *)
EXTENDS CaseEngineProperties, TLC

Symmetric == Permutations(Workers) \cup Permutations(Apps)

\* A reachable state from which the late part of a case is explored: at time
\* 2 every application has been filed, and acknowledged at time 1 or 2.
FiledLog == << "DRAFT_CREATED", "VALIDATED", "READY_TO_FILE", "SUBMITTED", "ACKNOWLEDGED" >>

FiledAt(acknowledged) ==
  /\ clock = 2
  /\ row = [a \in Apps |-> [NoRow EXCEPT !.status = "ACKNOWLEDGED", !.submitted_at = 1,
                                         !.received_at = acknowledged[a]]]
  /\ events = [a \in Apps |->
       [n \in DOMAIN FiledLog |->
          [type |-> FiledLog[n],
           at |-> IF FiledLog[n] = "ACKNOWLEDGED" THEN acknowledged[a] ELSE 1]]]
  /\ deadlines = [a \in Apps |-> <<>>]
  /\ appeals = [a \in Apps |-> 0]
  /\ ledger = [a \in Apps |-> [i \in Items |-> NewItem]]
  /\ sess = [s \in Sessions |-> IdleSession]

FiledInit == \E acknowledged \in [Apps -> 1..2] : FiledAt(acknowledged)

FiledSpec == FiledInit /\ [][Next]_vars
FiledFairSpec == FiledSpec /\ SweepFairness
=============================================================================
