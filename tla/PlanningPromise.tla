-------------------------- MODULE PlanningPromise ---------------------------
(***************************************************************************)
(* What a planning run promises, whatever the language models say, however *)
(* the run is hosted and whatever the network does: it ends, it judges and *)
(* costs a bounded number of proposals, and the day in force changes only  *)
(* to one that is acceptable when it is adopted.                           *)
(***************************************************************************)
EXTENDS Integers

CONSTANTS
  MaxJudged,      \* proposals one run may judge
  MaxReasonings,  \* times one run may make the agents reason
  NoDay           \* no plan adopted yet

VARIABLES
  day,            \* the plan in force
  acceptable,     \* plans of complete supervision, as the facts are now
  running,
  judged,
  reasonings

vars == <<day, acceptable, running, judged, reasonings>>

Init ==
  /\ day = NoDay
  /\ ~ running
  /\ judged = 0
  /\ reasonings = 0

Begin ==
  /\ ~ running
  /\ running' /\ judged' = 0 /\ reasonings' = 0
  /\ UNCHANGED day

Reason ==
  /\ running /\ reasonings < MaxReasonings
  /\ reasonings' = reasonings + 1
  /\ judged' \in {judged, judged + 1} /\ judged' < MaxJudged
  /\ UNCHANGED <<day, running>>

\* The last proposal comes into force: what that step makes of the facts and
\* the day has to fit.
Adopt ==
  /\ running /\ judged < MaxJudged /\ reasonings < MaxReasonings
  /\ ~ running' /\ judged' = 0 /\ reasonings' = 0
  /\ day' \in acceptable'

GiveUp ==
  /\ running
  /\ ~ running' /\ judged' = 0 /\ reasonings' = 0
  /\ UNCHANGED day

Next == Begin \/ Reason \/ Adopt \/ GiveUp

\* Whatever is acceptable may change with the facts at any time.
Spec == Init /\ [][Next]_<<day, running, judged, reasonings>> /\ (running ~> ~ running)

=============================================================================
