--------------------------- MODULE AutonomyPromise ---------------------------
(***************************************************************************)
(* What DayMend promises a household about one recovery, with nothing said *)
(* about requests, threads, versions or the order of saves.  Plans are     *)
(* offered one after the other.  A parent gives one verdict, about the     *)
(* plan on offer.  An action is carried out only for a plan that needs no  *)
(* approval or was approved.  The recovery counts as resolved only while   *)
(* the plan on offer is authorized and every one of its actions has been   *)
(* carried out.                                                            *)
(***************************************************************************)
EXTENDS Naturals

VARIABLES
  offered,    \* every plan ever offered: [id, needs, duties]
  current,    \* id of the plan on offer, 0 if there is none
  verdicts,   \* pairs <<plan id, verdict>>
  performed,  \* the actions carried out
  resolved

vars == <<offered, current, verdicts, performed, resolved>>

Authorized(p) == p.needs => <<p.id, "APPROVED">> \in verdicts

Init ==
  /\ offered = {}
  /\ current = 0
  /\ verdicts = {}
  /\ performed = {}
  /\ resolved = FALSE

\* A new plan takes the place of the one on offer.
OfferPlan ==
  /\ \E p \in offered' :
       /\ p.id # 0
       /\ \A q \in offered : q.id # p.id
       /\ offered' = offered \cup {p}
       /\ current' = p.id
  /\ resolved' = FALSE
  /\ UNCHANGED <<verdicts, performed>>

\* The plan on offer broke, and nothing replaces it.
Withdraw ==
  /\ current # 0
  /\ current' = 0
  /\ resolved' = FALSE
  /\ UNCHANGED <<offered, verdicts, performed>>

Judge ==
  /\ current # 0
  /\ \A v \in verdicts : v[1] # current
  /\ \E v \in {"APPROVED", "REJECTED"} :
       verdicts' = verdicts \cup {<<current, v>>}
  /\ UNCHANGED <<offered, current, performed, resolved>>

\* Also a plan no longer on offer: a request under way is not called back.
Perform ==
  /\ \E p \in offered : \E a \in p.duties :
       /\ Authorized(p)
       /\ performed' = performed \cup {a}
  /\ UNCHANGED <<offered, current, verdicts, resolved>>

Resolve ==
  /\ \E p \in offered :
       /\ p.id = current
       /\ Authorized(p)
       /\ p.duties \subseteq performed
  /\ resolved' = TRUE
  /\ UNCHANGED <<offered, current, verdicts, performed>>

Next == OfferPlan \/ Withdraw \/ Judge \/ Perform \/ Resolve

Spec == Init /\ [][Next]_vars

=============================================================================
