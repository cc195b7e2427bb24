------------------------------ MODULE DayPlan -------------------------------
(***************************************************************************)
(* One day of childcare in full detail: windows of time, what the family's *)
(* facts say about each person, a recovery plan as a set of care and       *)
(* transport segments, and what the PlanValidator accepts.  RecoveryCase   *)
(* keeps only who covers which tick; here places, trips, handoff buffers   *)
(* and calendar changes matter.                                            *)
(***************************************************************************)
EXTENDS Integers, FiniteSets, Sequences, SequencesExt

CONSTANTS
  LastTime,    \* the clock of the day runs from 0 to LastTime
  Required,    \* required_coverage
  Parents,
  Known,       \* scenario.caregivers
  Candidates,  \* scenario.backup_care_candidates
  External,    \* caregivers with external_provider; all candidates are
  Trusted,     \* is_trusted; of a candidate: verified and background checked
  Drivers,     \* caregivers with can_transport_child
  Home,        \* family_home_location_id
  At,          \* caregiver |-> location_id
  Travel,      \* location |-> travel_minutes_from_family_home
  Buffer       \* caregiver |-> handoff_buffer_minutes

Caregivers == Known \cup Candidates
Person == Parents \cup Caregivers
Place == {Home} \cup {At[c] : c \in Caregivers}
Time == 0 .. LastTime
Window == {w \in [start : Time, end : Time] : w.start < w.end}

ASSUME TimeAssumption == LastTime \in Nat /\ Required \in Window
ASSUME PersonAssumption ==
  /\ IsFiniteSet(Person) /\ Parents \cap Caregivers = {}
  /\ Known \cap Candidates = {}
  /\ Candidates \subseteq External /\ External \subseteq Caregivers
  /\ Trusted \subseteq Caregivers /\ Drivers \subseteq Caregivers
ASSUME PlaceAssumption ==
  /\ DOMAIN At = Caregivers /\ Buffer \in [Caregivers -> Nat]
  /\ Travel \in [Place -> Nat] /\ Travel[Home] = 0

\* What the family knows: `free` has an entry per listed caregiver, `out` are
\* the unavailable_caregiver_ids; `fixed` are the critical or non-movable
\* events of each parent, `movable` the others, `drives` the windows a parent
\* can transport the child in.
Calendars == [Parents -> SUBSET Window]
IsScenario(s) == \E listed \in SUBSET Caregivers : s \in
  [free : [listed -> SUBSET Window], out : SUBSET Caregivers,
   fixed : Calendars, movable : Calendars, drives : Calendars,
   external : BOOLEAN,       \* policy.allow_external_backup_providers
   providerTrips : BOOLEAN,  \* policy.allow_provider_transport
   trustedOnly : BOOLEAN,    \* require trusted, or no unapproved ones
   handoff : Nat]            \* policy.minimum_handoff_minutes

\* `who` is the person assigned, `by` the transporter, who may be another one.
\* Care stays where it is, and nobody drives: `by` says nothing then.
Segment ==
  {g \in [kind : {"CARE", "TRANSPORT"}, who : Person, by : Person, window : Window,
          from : Place, to : Place] :
     g.kind = "CARE" => g.from = g.to /\ g.by = g.who}

\* `moves`: calendar_changes move every movable meeting out of the way.
DayPlan == [segments : SUBSET Segment, moves : BOOLEAN]

Care(who, place, w) ==
  [kind |-> "CARE", who |-> who, by |-> who, window |-> w, from |-> place, to |-> place]
\* The matrix offers trips that the person assigned drives.
Trip(who, from, to, w) ==
  [kind |-> "TRANSPORT", who |-> who, by |-> who, window |-> w, from |-> from, to |-> to]

-----------------------------------------------------------------------------
(* Windows. *)

Overlaps(v, w) == v.start < w.end /\ w.start < v.end

Within(v, w) == w.start <= v.start /\ v.end <= w.end

\* _window_intersection: one window, or none
Clip(v, w) ==
  {u \in Window : /\ u.start = Max({v.start, w.start})
                  /\ u.end = Min({v.end, w.end})}

\* _subtract_windows: what the blocks leave of w, each piece from edge to edge
Minus(w, blocks) ==
  {v \in Window :
     /\ Within(v, w)
     /\ \A b \in blocks : ~ Overlaps(v, b)
     /\ v.start = w.start \/ \E b \in blocks : b.end = v.start
     /\ v.end = w.end \/ \E b \in blocks : b.start = v.end}

-----------------------------------------------------------------------------
(* PlanValidator.  A validator reports issues; a plan is valid without any. *)

Listed(s) == DOMAIN s.free

\* _validate_assignments
AssignmentOk(s, g) ==
  \/ g.who \in Parents
  \/ /\ g.who \in Listed(s) \ s.out
     /\ g.who \in External => s.external
     /\ s.trustedOnly => g.who \in Trusted
     /\ \E w \in s.free[g.who] : Within(g.window, w)

\* Faulty: asks the person assigned instead of the transporter.
AssigneeDrives(s, g) ==
  IF g.who \in Parents
  THEN /\ \E w \in s.drives[g.who] : Within(g.window, w)
       /\ \A e \in s.fixed[g.who] : ~ Overlaps(g.window, e)
  ELSE /\ g.who \in Listed(s) \cap Drivers
       /\ g.who \in External => s.providerTrips /\ s.external
       /\ \E w \in s.free[g.who] : Within(g.window, w)

\* _validate_transporter: the transporter is capable and available; neither
\* trust nor unavailable_caregiver_ids nor movable meetings count.
TransporterOk(s, g) ==
  IF g.by \in Parents
  THEN /\ \E w \in s.drives[g.by] : Within(g.window, w)
       /\ \A e \in s.fixed[g.by] : ~ Overlaps(g.window, e)
  ELSE /\ g.by \in Listed(s) \cap Drivers
       /\ g.by \in External => s.providerTrips /\ s.external
       /\ \E w \in s.free[g.by] : Within(g.window, w)

\* _validate_locations_and_transport, segment by segment.  Travel times are
\* known between the family's home and one other place only.
PlaceOk(s, g) ==
  LET known == {Home} \cup {At[c] : c \in Listed(s)}
  IN  /\ {g.from, g.to} \subseteq known
      /\ IF g.kind = "CARE"
         THEN g.who \in Listed(s) => g.from = At[g.who]
         ELSE /\ g.from # g.to /\ Home \in {g.from, g.to}
              /\ g.window.end - g.window.start >= Max({Travel[g.from], Travel[g.to]})
              /\ TransporterOk(s, g)

\* _validate_parent_calendars
CalendarOk(s, g, moves) ==
  g.who \in Parents =>
    /\ \A e \in s.fixed[g.who] : ~ Overlaps(g.window, e)
    /\ moves \/ \A e \in s.movable[g.who] : ~ Overlaps(g.window, e)

SegmentOk(s, g, moves) ==
  /\ Within(g.window, Required)
  /\ AssignmentOk(s, g)
  /\ PlaceOk(s, g)
  /\ CalendarOk(s, g, moves)

Before(g, h) ==
  \/ g.window.start < h.window.start
  \/ g.window.start = h.window.start /\ g.window.end < h.window.end

Adjacent(segments, g, h) ==
  Before(g, h) /\ ~ \E k \in segments : Before(g, k) /\ Before(k, h)

\* Faulty: lets the second person arrive late.
HandoffLate(s, g, h) == h.window.start >= g.window.end

\* One person continues exactly; two people overlap by exactly the buffer.
HandoffOk(s, g, h) ==
  g.window.end - h.window.start =
    IF g.who = h.who THEN 0
    ELSE Max({s.handoff, IF h.who \in Listed(s) THEN Buffer[h.who] ELSE 0})

\* Two segments with one window have no order; such plans are left out.
CoverageOk(s, segments) ==
  /\ segments # {}
  /\ \A g \in segments, h \in segments : g.window = h.window => g = h
  /\ \A g \in segments :
       (\A h \in segments : ~ Before(h, g)) => g.window.start = Required.start
  /\ \A g \in segments :
       (\A h \in segments : ~ Before(g, h)) => g.window.end = Required.end
  /\ \A g \in segments, h \in segments :
       Adjacent(segments, g, h) => HandoffOk(s, g, h) /\ g.to = h.from

\* PlanValidator.validate
Valid(s, p) ==
  /\ CoverageOk(s, p.segments)
  /\ \A g \in p.segments : SegmentOk(s, g, p.moves)

\* _preserved_work_survives
Survives(g, p) ==
  \E h \in p.segments :
    /\ Within(g.window, h.window)
    /\ [h EXCEPT !.window = g.window] = g

\* PlanValidator.validate_repair
ValidRepair(s, p, kept) == Valid(s, p) /\ \A g \in kept : Survives(g, p)

-----------------------------------------------------------------------------
(* Plans the validator accepts, built from the end of the day backwards.   *)

\* Segments a plan may use
Usable(s, moves) == {g \in Segment : SegmentOk(s, g, moves)}

\* Nobody passes the child on to themselves where they are.
Distinct(g, h) == g.who # h.who \/ g.kind # h.kind

\* Sets of segments, one handing over to the next, from g or later segments of
\* `usable` to the end of the day: ends[t] are those whose first starts at t.
Handovers(s, usable) ==
  LET First(c) == CHOOSE g \in c : \A h \in c : g = h \/ Before(g, h)
      Extended(g, later) ==
        {{g} \cup c : c \in {k \in UNION Range(later) :
                               LET h == First(k)
                               IN  Before(g, h) /\ g.to = h.from /\ HandoffOk(s, g, h)
                                   /\ Distinct(g, h)}}
      Step(later, t) ==
        [later EXCEPT ![t] = UNION {(IF g.window.end = Required.end THEN {{g}} ELSE {})
                                    \cup Extended(g, later) :
                                    g \in {k \in usable : k.window.start = t}}]
  IN  FoldLeft(Step, [t \in Time |-> {}], Reverse([i \in 1 .. LastTime |-> i - 1]))[Required.start]

ValidPlans(s) ==
  {p \in UNION {{[segments |-> c, moves |-> m] : c \in Handovers(s, Usable(s, m))} :
                m \in {FALSE, \E q \in Parents : s.movable[q] # {}}} :
     p \in DayPlan /\ Valid(s, p)}

=============================================================================
