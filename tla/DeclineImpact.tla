--------------------------- MODULE DeclineImpact ----------------------------
(***************************************************************************)
(* What one caregiver decline breaks in a plan with trips: the decliner's  *)
(* care that overlaps it, the trips that only exist for that care, and     *)
(* nothing else (plan_invalidation.py).                                    *)
(***************************************************************************)
EXTENDS DayPlan

Declined == [who : Caregivers, window : Window]

\* The care segments the decline names
DirectlyHit(segments, d) ==
  {g \in segments : g.kind = "CARE" /\ g.who = d.who /\ Overlaps(g.window, d.window)}

\* Faulty: only the trip that brings the child is broken.
HandoffsTo(segments, d, hit) ==
  {g \in segments :
     /\ g.kind = "TRANSPORT" /\ g.to = At[d.who]
     /\ \E h \in hit : Adjacent(segments, g, h) /\ g.window.end = h.window.start}

\* Trips next to broken work that end or start at the decliner's place
ConnectedHandoffs(segments, d, hit) ==
  {g \in segments :
     /\ g.kind = "TRANSPORT"
     /\ \E h \in hit :
          \/ /\ Adjacent(segments, g, h) /\ g.window.end = h.window.start
             /\ g.to = At[d.who]
          \/ /\ Adjacent(segments, h, g) /\ h.window.end = g.window.start
             /\ g.from = At[d.who]}

\* No trip of a valid plan ends where it started, so a broken trip never
\* breaks the next one, and the code's one pass over the day finds these.
Impacted(segments, d) ==
  DirectlyHit(segments, d) \cup ConnectedHandoffs(segments, d, DirectlyHit(segments, d))

\* _merge_windows
Merged(windows) ==
  {m \in Window :
     /\ \E w \in windows : w.start = m.start
     /\ \E w \in windows : w.end = m.end
     /\ \A t \in m.start .. m.end - 1 : \E w \in windows : w.start <= t /\ t < w.end
     /\ \A w \in windows : Within(w, m) \/ w.end < m.start \/ m.end < w.start}

\* apply_caregiver_decline refuses a decline that breaks nothing.  The active
\* assumptions of a valid plan are those of its care segments.
Breaks(segments, d) == DirectlyHit(segments, d) # {}

\* The scope of the replan that repairs it
RepairScope(segments, d) ==
  LET broken == Impacted(segments, d)
  IN  [replan   |-> TRUE,
       affected |-> Merged({g.window : g \in broken}),
       kept     |-> segments \ broken]

\* apply_caregiver_decline_to_scenario
WithoutDeclined(s, d) ==
  [s EXCEPT !.free[d.who] = UNION {Minus(w, {d.window}) : w \in s.free[d.who]}]

=============================================================================
