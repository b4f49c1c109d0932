--------------------------- MODULE CaseLifecycle ---------------------------
(***************************************************************************)
(* What the case engine promises the citizen about one set of              *)
(* applications, with no database in sight: a case moves only along the    *)
(* transition table, its rights clock is armed exactly when the authority  *)
(* starts to process it and is declared missed exactly by NO_RESPONSE, and *)
(* filing the first appeal happens at most once.                           *)
(***************************************************************************)
EXTENDS RtiStateMachine, Naturals, Sequences

CONSTANT Apps

VARIABLES
  status,   \* status[a]: a member of ApplicationStatus, or "NONE" before creation
  trail,    \* trail[a]: the statuses the case has been in, oldest first
  armed,    \* armed[a]: response clocks started and not declared missed
  filed     \* filed[a]: first appeals filed

lifecycleVars == <<status, trail, armed, filed>>

LifecycleInit ==
  /\ status = [a \in Apps |-> "NONE"]
  /\ trail  = [a \in Apps |-> <<>>]
  /\ armed  = [a \in Apps |-> 0]
  /\ filed  = [a \in Apps |-> 0]

Open(a) ==
  /\ status[a] = "NONE"
  /\ status' = [status EXCEPT ![a] = INITIAL_STATE]
  /\ trail'  = [trail EXCEPT ![a] = <<INITIAL_STATE>>]
  /\ UNCHANGED <<armed, filed>>

Move(a, to) ==
  /\ IsTransitionAllowed(status[a], to)
  /\ status' = [status EXCEPT ![a] = to]
  /\ trail'  = [trail EXCEPT ![a] = Append(trail[a], to)]

\* A move with no bearing on the clock or the appeal.
Proceed(a, to) ==
  /\ to \notin {"UNDER_PROCESSING", "NO_RESPONSE", "FIRST_APPEAL_FILED"}
  /\ Move(a, to)
  /\ UNCHANGED <<armed, filed>>

StartClock(a) ==
  /\ Move(a, "UNDER_PROCESSING")
  /\ armed' = [armed EXCEPT ![a] = @ + 1]
  /\ UNCHANGED filed

\* Silence is declared only against a running clock, and stops it.
DeclareSilence(a) ==
  /\ armed[a] > 0
  /\ Move(a, "NO_RESPONSE")
  /\ armed' = [armed EXCEPT ![a] = @ - 1]
  /\ UNCHANGED filed

FileAppeal(a) ==
  /\ filed[a] = 0
  /\ Move(a, "FIRST_APPEAL_FILED")
  /\ filed' = [filed EXCEPT ![a] = 1]
  /\ UNCHANGED armed

LifecycleNext ==
  \E a \in Apps :
    \/ Open(a)
    \/ \E to \in ApplicationStatus : Proceed(a, to)
    \/ StartClock(a)
    \/ DeclareSilence(a)
    \/ FileAppeal(a)

LifecycleSpec == LifecycleInit /\ [][LifecycleNext]_lifecycleVars

=============================================================================
