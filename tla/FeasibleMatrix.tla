--------------------------- MODULE FeasibleMatrix ---------------------------
(***************************************************************************)
(* The feasible-assignment matrix of the constraint planner: from the      *)
(* family's facts, the exact care and transport primitives a plan may be   *)
(* composed of, for a replan clipped to the affected windows and joined    *)
(* with the preserved segments, and then pruned to those on a path through *)
(* the whole required window.  An empty matrix is the service's only proof *)
(* that the known options are insufficient.                                *)
(***************************************************************************)
EXTENDS DayPlan

Eligible(s) ==
  {c \in Listed(s) \ s.out : /\ c \in External => s.external
                             /\ s.trustedOnly => c \in Trusted}

CareWindows(s, c) == UNION {Clip(w, Required) : w \in s.free[c]}

Staffed(s) == {c \in Eligible(s) : CareWindows(s, c) # {}}

Away(s) == {c \in Staffed(s) : At[c] # Home /\ Travel[At[c]] > 0}

\* Faulty: a parent drives whatever the calendar says.
DriveWindowsBusy(s, p) == UNION {Clip(w, Required) : w \in s.drives[p]}

DriveWindows(s, p) ==
  UNION {UNION {Minus(v, s.fixed[p]) : v \in Clip(w, Required)} : w \in s.drives[p]}

\* A parent brings the child when the caregiver's window starts and is back
\* with the child when it ends.
TripsAround(p, c, w) ==
  {Trip(p, Home, At[c], [start |-> w.start - Travel[At[c]], end |-> w.start]),
   Trip(p, At[c], Home, [start |-> w.end - Travel[At[c]], end |-> w.end])}

ParentTrips(s) ==
  {g \in UNION {UNION {UNION {TripsAround(p, c, w) : w \in CareWindows(s, c)} : c \in Away(s)} :
                p \in Parents} :
     \E v \in DriveWindows(s, g.who) : Within(g.window, v)}

\* A caregiver who drives brings the child home at the end of their window.
ProviderTrips(s) ==
  UNION {{Trip(c, At[c], Home, [start |-> w.end - Travel[At[c]], end |-> w.end]) :
            w \in {v \in CareWindows(s, c) : v.end - v.start >= Travel[At[c]]}} :
         c \in {k \in Away(s) \cap Drivers : k \in External => s.providerTrips}}

Trips(s) == ParentTrips(s) \cup ProviderTrips(s)

\* When the earliest of the trips home departs that arrive at the end of w.
CareEnd(c, w, trips) ==
  Min({w.end} \cup {g.window.start : g \in {k \in trips :
         k.from = At[c] /\ k.to = Home /\ k.window.end = w.end}})

\* Care at a caregiver's lasts until then.
CaregiverCare(s, trips) ==
  UNION {{Care(c, At[c], [w EXCEPT !.end = CareEnd(c, w, trips)]) :
            w \in {v \in CareWindows(s, c) : v.start < CareEnd(c, v, trips)}} :
         c \in Staffed(s)}

\* A parent cares at home outside fixed events and outside any trip they could make.
ParentCare(s, trips) ==
  UNION {UNION {{Care(p, Home, v) :
                   v \in Minus(w, {g.window : g \in {k \in trips : k.by = p}})} :
                w \in Minus(Required, s.fixed[p])} : p \in Parents}

WithTrips(s, trips) == CaregiverCare(s, trips) \cup ParentCare(s, trips) \cup trips

Primitives(s) == WithTrips(s, Trips(s))

\* The key of a trip names its transporter and the source of who is assigned.
SameTrip(g, h) ==
  /\ [g EXCEPT !.who = h.who] = h
  /\ g.who \in Parents <=> h.who \in Parents

\* _replanning_primitives: care clipped to the affected windows, trips inside
\* one of them, and the preserved segments as they are, in place of a trip
\* with the same key.
ClippedTo(affected, g) ==
  UNION {{[g EXCEPT !.window = v] : v \in Clip(g.window, a)} : a \in affected}

ReplanningPrimitives(work, affected, kept) ==
  (UNION {ClippedTo(affected, g) : g \in {k \in work : k.kind = "CARE"}})
  \cup {g \in work : /\ g.kind = "TRANSPORT" /\ \E a \in affected : Within(g.window, a)
                     /\ ~ \E k \in kept : SameTrip(k, g)}
  \cup kept

-----------------------------------------------------------------------------
(* Paths: each primitive leads from its place at its start to its          *)
(* destination at its end.                                                 *)

\* Where the child can be at each time, supervised all the time since the start.
\* The loop of the code adds the ends of primitives until nothing changes; as
\* each primitive takes time, this can be said time by time.
Reached(work) ==
  LET places[t \in Time] ==
        (IF t = Required.start THEN {Home} ELSE {})
        \cup {g.to : g \in {k \in work : k.window.end = t /\ k.from \in places[k.window.start]}}
  IN  places

\* From where primitives lead to the end of the day
Leading(work) ==
  LET places[t \in Time] ==
        (IF t = Required.end THEN {g.to : g \in {k \in work : k.window.end = t}} ELSE {})
        \cup {g.from : g \in {k \in work : k.window.start = t /\ k.to \in places[k.window.end]}}
  IN  places

\* Faulty: does not look whether the day can be completed.
PruneAhead(work) == LET ahead == Reached(work) IN {g \in work : g.from \in ahead[g.window.start]}

\* _prune_to_full_coverage_paths
Prune(work) ==
  LET ahead == Reached(work)
      back == Leading(work)
  IN  {g \in work : g.from \in ahead[g.window.start] /\ g.to \in back[g.window.end]}

\* _connected_uncovered_windows: the smallest stay at one place that would
\* join what is reachable to what leads to the end.
Bridge(work) ==
  LET ahead == Reached(work)
      back == Leading(work)
      bridges == {w \in Window : ahead[w.start] \cap back[w.end] # {}}
      Smaller(v, w) ==
        \/ v.end - v.start < w.end - w.start
        \/ v.end - v.start = w.end - w.start /\ v.start < w.start
  IN  IF ahead[Required.end] # {} THEN {}
      ELSE IF bridges = {} THEN {Required}
      ELSE {CHOOSE v \in bridges : \A w \in bridges : w = v \/ Smaller(v, w)}

\* _build_feasible_assignment_matrix.  `kept` are the immutable primitives.
MatrixOf(work, kept) ==
  [work |-> Prune(work), kept |-> Prune(work) \cap kept, bridge |-> Bridge(work)]

-----------------------------------------------------------------------------
(* Selecting primitives instead of writing a plan. *)

\* _has_unmaterialized_calendar_changes
NeedsCalendarChange(s, m) ==
  \E g \in m.work : /\ g.kind = "CARE" /\ g.who \in Parents
                    /\ \E e \in s.movable[g.who] : Overlaps(g.window, e)

\* _uses_primitive_selection, of a replan
UsesSelection(s, m) == m.work # {} /\ ~ NeedsCalendarChange(s, m)

\* materialize_primitive_selection raises on an unknown id and on a missing
\* immutable one; these are the selections it makes a plan of.
Materializable(m) == {chosen \in SUBSET m.work \ {{}} : m.kept \subseteq chosen}

=============================================================================
