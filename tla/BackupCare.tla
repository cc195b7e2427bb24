----------------------------- MODULE BackupCare -----------------------------
(***************************************************************************)
(* When research is needed, which candidates it compares, and which of     *)
(* them complete the day (backup_care.py, research_planability.py).  The   *)
(* service asks the last question before it lets an agent run, and the     *)
(* agent workflow asks it again after the research.                        *)
(***************************************************************************)
EXTENDS FeasibleMatrix

CONSTANTS
  Offer,   \* candidate |-> availability windows it offers
  Vetted   \* candidates the family's checks and the child's age allow

ASSUME OfferAssumption ==
  Offer \in [Candidates -> SUBSET Window] /\ Vetted \subseteq Candidates

\* The scope of a planning run: a replan is clipped to the `affected` windows
\* and keeps the `kept` segments; an initial run has neither.
InitialScope == [replan |-> FALSE, affected |-> {}, kept |-> {}]

\* _build_feasible_assignment_matrix, as a planning brief calls it
Scoped(work, scope) ==
  IF scope.replan THEN ReplanningPrimitives(work, scope.affected, scope.kept) ELSE work

Matrix(s, scope) == MatrixOf(Scoped(Primitives(s), scope), scope.kept)

\* assess_known_option_recovery_need
NeedIn(m, s, scope) ==
  [insufficient |-> m.work = {},
   research     |-> m.work = {} /\ s.external,
   requested    |-> IF m.work # {} THEN {}
                    ELSE IF scope.affected # {} THEN scope.affected
                    ELSE m.bridge]

Need(s, scope) == NeedIn(Matrix(s, scope), s, scope)

\* search_backup_care_candidates: hard filters on the offer, nothing else
EligibleCandidates(s, requested) ==
  {k \in Vetted : /\ s.external
                  /\ \A r \in requested : \E w \in Offer[k] : Within(r, w)}

\* add_researched_caregiver: a candidate listed already is listed once more,
\* and the last entry counts, to the matrix as to the validator.
WithResearched(s, k) ==
  [s EXCEPT !.free = [c \in Listed(s) \cup {k} |-> IF c = k THEN Offer[k] ELSE s.free[c]]]

\* Research compares at least two of them.
Comparable(eligible) == IF Cardinality(eligible) < 2 THEN {} ELSE eligible

Compared(s, scope) == Comparable(EligibleCandidates(s, Need(s, scope).requested))

\* The candidate's care is on a full path, and so is all preserved work.
Joins(s, scope, k) ==
  \E m \in {Matrix(WithResearched(s, k), scope)} :
    /\ \E g \in m.work : g.kind = "CARE" /\ g.who = k
    /\ scope.kept \subseteq m.kept

\* planable_research_candidate_ids
Planable(s, scope) == {k \in Compared(s, scope) : Joins(s, scope, k)}

\* run_backup_care_research rejects an ungrounded answer; a grounded one
\* ranks every eligible candidate, in an order of the model's choosing.
Orders(eligible) ==
  {r \in [1 .. Cardinality(eligible) -> eligible] :
     eligible # {} /\ \A k \in eligible : \E i \in DOMAIN r : r[i] = k}

Rankings(s, scope) == Orders(Compared(s, scope))

\* Faulty: takes the recommendation as it is.
SelectedUnasked(s, scope, ranking) == {ranking[1]}

\* select_planable_research_candidate: the first that completes the day
First(places) == {i \in places : \A j \in places : i <= j}

Selected(s, scope, ranking) ==
  {ranking[i] : i \in First({j \in DOMAIN ranking : Joins(s, scope, ranking[j])})}

=============================================================================
