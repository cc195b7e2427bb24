------------------------- MODULE PlanningRunProofs --------------------------
(***************************************************************************)
(* Proofs about PlanningRun, for every family, every deployment and every  *)
(* answer a language model may give.  Four layers: operators on segments,  *)
(* scenarios and the matrix return what their names say; a run keeps its   *)
(* type and its budget (Working); it works on the facts of its case and    *)
(* has passed the gate (GroundedInv); the plan in force is a chain of      *)
(* segments, each with somebody who can be there (DayInv).  From the last  *)
(* follow the safety of adopted days, what a replacement keeps, and the    *)
(* safety part of PlanningPromise.                                         *)
(***************************************************************************)
EXTENDS PlanningRun, TLAPS, WellFoundedInduction, FiniteSetTheorems

-----------------------------------------------------------------------------
(* First and last of a set of numbers, of segments. *)

\* A set of natural numbers has a smallest one.
LEMMA SmallestExists ==
  ASSUME NEW S \in SUBSET Nat, S # {}
  PROVE  \E m \in S : \A n \in S : m <= n
<1> DEFINE R == OpToRel(<, Nat)
<1>1. R = {ss \in Nat \X Nat : ss[1] < ss[2]}
  BY DEF OpToRel
<1>2. IsWellFoundedOn(R, Nat)
  BY Zenon, NatLessThanWellFounded
<1> HIDE DEF R
<1>3. PICK m \in S : \A n \in S : ~ (<<n, m>> \in R)
  BY <1>2, WFMin
<1>4. \A n \in S : ~ (n < m)
  BY <1>1, <1>3
<1> QED
  BY <1>4

\* And a largest one, if it is bounded.
LEMMA LargestExists ==
  ASSUME NEW S \in SUBSET Nat, S # {}, NEW b \in Nat, \A n \in S : n <= b
  PROVE  \E m \in S : \A n \in S : n <= m
<1> DEFINE T == {b - n : n \in S}
<1>1. T \in SUBSET Nat /\ T # {}
  <2>1. \A n \in S : b - n \in Nat
    OBVIOUS
  <2> QED
    BY <2>1
<1>2. PICK k \in T : \A n \in T : k <= n
  BY <1>1, SmallestExists
<1>3. PICK m \in S : k = b - m
  BY <1>2
<1>4. ASSUME NEW n \in S PROVE n <= m
  <2>1. k <= b - n
    BY <1>2
  <2> QED
    BY <1>3, <2>1
<1> QED
  BY <1>4

\* Min and Max of the library, of two numbers and of more.
LEMMA MinIsLeast ==
  ASSUME NEW S \in SUBSET Nat, S # {}
  PROVE  Min(S) \in S /\ \A n \in S : Min(S) <= n
BY SmallestExists DEF Min

LEMMA MaxOfTwo ==
  ASSUME NEW a \in Int, NEW b \in Int
  PROVE  Max({a, b}) = IF a <= b THEN b ELSE a
<1>1. CASE a <= b
  <2>1. b \in {a, b} /\ \A y \in {a, b} : b >= y
    BY <1>1
  <2>2. Max({a, b}) \in {a, b} /\ \A y \in {a, b} : Max({a, b}) >= y
    BY <2>1 DEF Max
  <2> QED
    BY <1>1, <2>2
<1>2. CASE b < a
  <2>1. a \in {a, b} /\ \A y \in {a, b} : a >= y
    BY <1>2
  <2>2. Max({a, b}) \in {a, b} /\ \A y \in {a, b} : Max({a, b}) >= y
    BY <2>1 DEF Max
  <2> QED
    BY <1>2, <2>2
<1> QED
  BY <1>1, <1>2

\* The window of a segment
LEMMA SegmentWindow ==
  ASSUME NEW g \in Segment
  PROVE  /\ g.window \in Window
         /\ g.window.start \in Nat /\ g.window.end \in Nat
         /\ g.window.start < g.window.end /\ g.window.end <= LastTime
BY TimeAssumption DEF Segment, Window, Time

\* Before is an order, and a total one of segments with different windows.
LEMMA BeforeIsOrder ==
  ASSUME NEW g \in Segment, NEW h \in Segment
  PROVE  /\ Before(g, h) => ~ Before(h, g)
         /\ ~ Before(g, h) /\ ~ Before(h, g) => g.window = h.window
         /\ \A k \in Segment : Before(g, k) /\ Before(k, h) => Before(g, h)
<1>1. /\ g.window.start \in Nat /\ g.window.end \in Nat
      /\ h.window.start \in Nat /\ h.window.end \in Nat
  BY SegmentWindow
<1>2. ~ Before(g, h) /\ ~ Before(h, g) => g.window = h.window
  BY <1>1, SegmentWindow DEF Before, Window
<1>3. ASSUME NEW k \in Segment, Before(g, k), Before(k, h)
      PROVE  Before(g, h)
  <2>1. k.window.start \in Nat /\ k.window.end \in Nat
    BY SegmentWindow
  <2> QED
    BY <1>1, <1>3, <2>1 DEF Before
<1> QED
  BY <1>1, <1>2, <1>3 DEF Before

\* Segments have a first one,
LEMMA FirstExists ==
  ASSUME NEW S \in SUBSET Segment, S # {}
  PROVE  \E g \in S : \A h \in S : ~ Before(h, g)
<1> DEFINE Starts == {g.window.start : g \in S}
<1>1. \A g \in S : g.window.start \in Nat /\ g.window.end \in Nat
  BY SegmentWindow
<1>2. Starts \in SUBSET Nat /\ Starts # {}
  BY <1>1
<1>3. PICK m \in Starts : \A n \in Starts : m <= n
  BY <1>2, SmallestExists
<1> DEFINE Ends == {g.window.end : g \in {k \in S : k.window.start = m}}
<1>4. Ends \in SUBSET Nat /\ Ends # {}
  BY <1>1, <1>3
<1>5. PICK e \in Ends : \A n \in Ends : e <= n
  BY <1>4, SmallestExists
<1>6. PICK g \in S : g.window.start = m /\ g.window.end = e
  BY <1>5
<1>7. ASSUME NEW h \in S PROVE ~ Before(h, g)
  <2>1. m <= h.window.start /\ m \in Nat /\ e \in Nat
    BY <1>2, <1>3, <1>4, <1>5
  <2>2. h.window.start = m => e <= h.window.end
    BY <1>5
  <2> QED
    BY <1>1, <1>6, <2>1, <2>2 DEF Before
<1> QED
  BY <1>6, <1>7

\* and a last one.
LEMMA LastExists ==
  ASSUME NEW S \in SUBSET Segment, S # {}
  PROVE  \E g \in S : \A h \in S : ~ Before(g, h)
<1> DEFINE Starts == {g.window.start : g \in S}
<1>1. \A g \in S : /\ g.window.start \in Nat /\ g.window.end \in Nat
                   /\ g.window.start <= LastTime /\ g.window.end <= LastTime
  BY SegmentWindow, TimeAssumption
<1>2. Starts \in SUBSET Nat /\ Starts # {} /\ \A n \in Starts : n <= LastTime
  BY <1>1
<1>3. PICK m \in Starts : \A n \in Starts : n <= m
  BY <1>2, LargestExists, TimeAssumption
<1> DEFINE Ends == {g.window.end : g \in {k \in S : k.window.start = m}}
<1>4. Ends \in SUBSET Nat /\ Ends # {} /\ \A n \in Ends : n <= LastTime
  BY <1>1, <1>3
<1>5. PICK e \in Ends : \A n \in Ends : n <= e
  BY <1>4, LargestExists, TimeAssumption
<1>6. PICK g \in S : g.window.start = m /\ g.window.end = e
  BY <1>5
<1>7. ASSUME NEW h \in S PROVE ~ Before(g, h)
  <2>1. h.window.start <= m /\ m \in Nat /\ e \in Nat
    BY <1>2, <1>3, <1>4, <1>5
  <2>2. h.window.start = m => h.window.end <= e
    BY <1>5
  <2> QED
    BY <1>1, <1>6, <2>1, <2>2 DEF Before
<1> QED
  BY <1>6, <1>7

\* A segment that is not the last has a next one,
LEMMA NextExists ==
  ASSUME NEW S \in SUBSET Segment, NEW g \in S, NEW k \in S, Before(g, k)
  PROVE  \E h \in S : Adjacent(S, g, h)
<1> DEFINE T == {h \in S : Before(g, h)}
<1>1. PICK h \in T : \A j \in T : ~ Before(j, h)
  BY FirstExists
<1> QED
  BY <1>1 DEF Adjacent

\* and one that is not the first a previous one, which is the only one.
LEMMA PreviousExists ==
  ASSUME NEW S \in SUBSET Segment, NEW g \in S, NEW k \in S, Before(k, g)
  PROVE  \E h \in S : Adjacent(S, h, g)
<1> DEFINE T == {h \in S : Before(h, g)}
<1>1. PICK h \in T : \A j \in T : ~ Before(h, j)
  BY LastExists
<1> QED
  BY <1>1 DEF Adjacent

-----------------------------------------------------------------------------
(* A chain of segments that hand over to each other covers the day.        *)

\* What CoverageOk says of the times, whoever is listed: the first segment
\* starts the day, the last one ends it, and nobody comes late.
Relay(S) ==
  /\ S # {}
  /\ \A g \in S, h \in S : g.window = h.window => g = h
  /\ \A g \in S : (\A h \in S : ~ Before(h, g)) => g.window.start = Required.start
  /\ \A g \in S : (\A h \in S : ~ Before(g, h)) => g.window.end = Required.end
  /\ \A g \in S, h \in S :
       Adjacent(S, g, h) => h.window.start <= g.window.end /\ g.to = h.from

\* No tick of the day is without a segment.
LEMMA RelayCovers ==
  ASSUME NEW S \in SUBSET Segment, Relay(S),
         NEW t \in Required.start .. Required.end - 1
  PROVE  \E g \in S : t \in Ticks(g)
<1> DEFINE Begun == {g \in S : g.window.start <= t}
<1>1. /\ t \in Nat /\ Required.start \in Nat /\ Required.end \in Nat
      /\ Required.start <= t /\ t < Required.end
  BY TimeAssumption DEF Window, Time
<1>2. \A g \in S : g.window.start \in Nat /\ g.window.end \in Nat
  BY SegmentWindow
<1>3. Begun # {}
  <2>1. PICK g \in S : \A h \in S : ~ Before(h, g)
    BY FirstExists DEF Relay
  <2>2. g.window.start = Required.start
    BY <2>1 DEF Relay
  <2> QED
    BY <1>1, <2>2
<1>4. PICK g \in Begun : \A h \in Begun : ~ Before(g, h)
  BY <1>3, LastExists
<1>5. t < g.window.end
  <2> SUFFICES ASSUME g.window.end <= t PROVE FALSE
    BY <1>1, <1>2
  <2>1. g.window.end # Required.end
    BY <1>1, <1>2
  <2>2. PICK k \in S : Before(g, k)
    BY <2>1 DEF Relay
  <2>3. PICK h \in S : Adjacent(S, g, h)
    BY <2>2, NextExists
  <2>4. h.window.start <= g.window.end
    BY <2>3 DEF Relay
  <2>5. h \in Begun
    BY <1>1, <1>2, <2>4
  <2> QED
    BY <1>4, <2>3, <2>5 DEF Adjacent
<1> QED
  BY <1>1, <1>2, <1>5 DEF Ticks

-----------------------------------------------------------------------------
(* Scenarios: what research, declines and the case make of the facts.      *)

\* Two scenarios differ in nothing but who is free when.
SameFamily(s, n) ==
  /\ n.out = s.out /\ n.fixed = s.fixed /\ n.movable = s.movable /\ n.drives = s.drives
  /\ n.external = s.external /\ n.providerTrips = s.providerTrips
  /\ n.trustedOnly = s.trustedOnly /\ n.handoff = s.handoff

\* The fields of a scenario
LEMMA ScenarioFields ==
  ASSUME NEW s, IsScenario(s)
  PROVE  /\ Listed(s) \in SUBSET Caregivers
         /\ s.free \in [Listed(s) -> SUBSET Window]
         /\ s.out \in SUBSET Caregivers
         /\ s.fixed \in Calendars /\ s.movable \in Calendars /\ s.drives \in Calendars
         /\ s.external \in BOOLEAN /\ s.providerTrips \in BOOLEAN
         /\ s.trustedOnly \in BOOLEAN /\ s.handoff \in Nat
<1>1. PICK listed \in SUBSET Caregivers : s \in
        [free : [listed -> SUBSET Window], out : SUBSET Caregivers,
         fixed : Calendars, movable : Calendars, drives : Calendars,
         external : BOOLEAN, providerTrips : BOOLEAN, trustedOnly : BOOLEAN,
         handoff : Nat]
  BY DEF IsScenario
<1>2. Listed(s) = listed
  BY <1>1 DEF Listed
<1> QED
  BY <1>1, <1>2

\* A scenario with other availability
LEMMA ScenarioEdited ==
  ASSUME NEW s, IsScenario(s), NEW D \in SUBSET Caregivers,
         NEW f \in [D -> SUBSET Window], NEW n, n = [s EXCEPT !.free = f]
  PROVE  IsScenario(n) /\ n.free = f /\ Listed(n) = D /\ SameFamily(s, n)
<1>1. PICK listed \in SUBSET Caregivers : s \in
        [free : [listed -> SUBSET Window], out : SUBSET Caregivers,
         fixed : Calendars, movable : Calendars, drives : Calendars,
         external : BOOLEAN, providerTrips : BOOLEAN, trustedOnly : BOOLEAN,
         handoff : Nat]
  BY DEF IsScenario
<1>2. n.free = f /\ SameFamily(s, n)
  BY <1>1 DEF SameFamily
<1>3. n \in [free : [D -> SUBSET Window], out : SUBSET Caregivers,
             fixed : Calendars, movable : Calendars, drives : Calendars,
             external : BOOLEAN, providerTrips : BOOLEAN, trustedOnly : BOOLEAN,
             handoff : Nat]
  BY <1>1
<1>4. IsScenario(n)
  BY <1>3 DEF IsScenario
<1> QED
  BY <1>2, <1>4 DEF Listed

\* add_researched_caregiver: the candidate is free when they offered to be.
LEMMA ResearchedScenario ==
  ASSUME NEW s, IsScenario(s), NEW k \in Candidates, NEW n, n = WithResearched(s, k)
  PROVE  /\ IsScenario(n) /\ SameFamily(s, n) /\ Listed(n) = Listed(s) \cup {k}
         /\ n.free[k] = Offer[k]
         /\ \A c \in Listed(s) \ {k} : n.free[c] = s.free[c]
<1> DEFINE D == Listed(s) \cup {k}
           f == [c \in D |-> IF c = k THEN Offer[k] ELSE s.free[c]]
<1>1. D \in SUBSET Caregivers
  BY ScenarioFields DEF Caregivers
<1>2. f \in [D -> SUBSET Window]
  BY ScenarioFields, OfferAssumption
<1>3. n = [s EXCEPT !.free = f]
  BY DEF WithResearched
<1>4. /\ f[k] = Offer[k]
      /\ \A c \in Listed(s) \ {k} : f[c] = s.free[c]
  OBVIOUS
<1> HIDE DEF f
<1> QED
  BY <1>1, <1>2, <1>3, <1>4, ScenarioEdited

\* n is s without the declined time of the decliner.
Less(s, d, n) ==
  /\ SameFamily(s, n) /\ Listed(n) = Listed(s)
  /\ \A c \in Listed(s) : c # d.who => n.free[c] = s.free[c]
  /\ \A c \in Listed(s) : c = d.who =>
       \A w \in n.free[c] : \E u \in s.free[c] : w \in Minus(u, {d.window})

\* apply_caregiver_decline_to_scenario: less the declined time
LEMMA DeclinedScenario ==
  ASSUME NEW s, IsScenario(s), NEW d, NEW n, n = WithoutDeclined(s, d)
  PROVE  IsScenario(n) /\ Less(s, d, n)
<1> DEFINE f == [c \in Listed(s) |->
                   IF c = d.who THEN UNION {Minus(w, {d.window}) : w \in s.free[c]}
                   ELSE s.free[c]]
<1>1. Listed(s) \in SUBSET Caregivers /\ s.free \in [Listed(s) -> SUBSET Window]
  BY ScenarioFields
<1>2. \A c : UNION {Minus(w, {d.window}) : w \in s.free[c]} \in SUBSET Window
  BY DEF Minus
<1>3. f \in [Listed(s) -> SUBSET Window]
  BY <1>1, <1>2
<1>4. n = [s EXCEPT !.free = [s.free EXCEPT ![d.who] = UNION {Minus(w, {d.window}) : w \in s.free[d.who]}]]
  BY DEF WithoutDeclined
<1>5. [s.free EXCEPT ![d.who] = UNION {Minus(w, {d.window}) : w \in s.free[d.who]}] = f
  BY <1>1
<1>6. n = [s EXCEPT !.free = f]
  BY <1>4, <1>5
<1>7. /\ \A c \in Listed(s) : c # d.who => f[c] = s.free[c]
      /\ \A c \in Listed(s) : c = d.who =>
           \A w \in f[c] : \E u \in s.free[c] : w \in Minus(u, {d.window})
  OBVIOUS
<1> HIDE DEF f
<1> QED
  <2>1. IsScenario(n) /\ n.free = f /\ Listed(n) = Listed(s) /\ SameFamily(s, n)
    BY <1>1, <1>3, <1>6, ScenarioEdited
  <2> QED
    BY <1>7, <2>1 DEF Less

\* When somebody offered to be there, whatever they declined since
Offered(c) == IF c \in Candidates THEN Offer[c] ELSE snapshot.free[c]

\* _scenario_for: the facts of the case
LEMMA CaseScenario ==
  ASSUME IsScenario(snapshot), Listed(snapshot) \subseteq Known,
         researched \in Candidates \cup {NoOne}
  PROVE  /\ IsScenario(CaseFacts) /\ SameFamily(snapshot, CaseFacts)
         /\ \A c \in Listed(CaseFacts) :
              /\ Offered(c) \subseteq Window
              /\ \A w \in CaseFacts.free[c] : \E v \in Offered(c) : w \in Minus(v, DeclinedBy(c))
<1> DEFINE s == IF researched = NoOne THEN snapshot ELSE WithResearched(snapshot, researched)
           f == [c \in Listed(s) |-> UNION {Minus(w, DeclinedBy(c)) : w \in s.free[c]}]
<1>1. Listed(snapshot) \cap Candidates = {}
  BY PersonAssumption
<1>2. /\ IsScenario(s) /\ SameFamily(snapshot, s)
      /\ \A c \in Listed(s) : s.free[c] = Offered(c)
  <2>1. CASE researched = NoOne
    BY <1>1, <2>1, ScenarioFields DEF SameFamily, Offered
  <2>2. CASE researched # NoOne
    BY <1>1, <2>2, ResearchedScenario DEF Offered
  <2> QED
    BY <2>1, <2>2
<1>3. \A c : UNION {Minus(w, DeclinedBy(c)) : w \in s.free[c]} \in SUBSET Window
  BY DEF Minus
<1>4. Listed(s) \in SUBSET Caregivers /\ f \in [Listed(s) -> SUBSET Window]
  BY <1>2, <1>3, ScenarioFields
<1>5. CaseFacts = [s EXCEPT !.free = f]
  BY DEF CaseFacts
<1>6. \A c \in Listed(s) : f[c] = UNION {Minus(w, DeclinedBy(c)) : w \in s.free[c]}
  OBVIOUS
<1> HIDE DEF f, s
<1>7. /\ IsScenario(CaseFacts) /\ CaseFacts.free = f /\ Listed(CaseFacts) = Listed(s)
      /\ SameFamily(s, CaseFacts)
  BY <1>2, <1>4, <1>5, ScenarioEdited
<1>8. ASSUME NEW c \in Listed(CaseFacts), NEW w \in CaseFacts.free[c]
      PROVE  \E v \in Offered(c) : w \in Minus(v, DeclinedBy(c))
  <2>1. w \in UNION {Minus(v, DeclinedBy(c)) : v \in s.free[c]}
    BY <1>6, <1>7, <1>8
  <2>2. s.free[c] = Offered(c)
    BY <1>2, <1>7, <1>8
  <2> QED
    BY <2>1, <2>2
<1>9. SameFamily(snapshot, CaseFacts)
  BY <1>2, <1>7 DEF SameFamily
<1>10. \A c \in Listed(CaseFacts) : Offered(c) \subseteq Window
  <2>1. s.free \in [Listed(s) -> SUBSET Window]
    BY <1>2, ScenarioFields
  <2> QED
    BY <1>2, <1>7, <2>1
<1> QED
  BY <1>7, <1>8, <1>9, <1>10

-----------------------------------------------------------------------------
(* Primitives of the feasible-assignment matrix are segments.              *)

\* Every caregiver is at a place, some travel time from home.
LEMMA CaregiverPlace ==
  ASSUME NEW c \in Caregivers
  PROVE  At[c] \in Place /\ Travel[At[c]] \in Nat
BY PlaceAssumption DEF Place

\* A care segment and a trip, of people, places and windows there are.
LEMMA CareIsSegment ==
  ASSUME NEW who \in Person, NEW place \in Place, NEW w \in Window
  PROVE  Care(who, place, w) \in Segment
BY DEF Care, Segment

LEMMA TripIsSegment ==
  ASSUME NEW who \in Person, NEW from \in Place, NEW to \in Place, NEW w \in Window
  PROVE  Trip(who, from, to, w) \in Segment
BY DEF Trip, Segment

\* The windows for care and for driving are windows.
LEMMA WindowsAreWindows ==
  ASSUME NEW s
  PROVE  /\ \A v, w : Clip(v, w) \subseteq Window
         /\ \A c : CareWindows(s, c) \subseteq Window
         /\ \A p : DriveWindows(s, p) \subseteq Window
<1>1. \A v, w : Clip(v, w) \subseteq Window
  BY Zenon DEF Clip
<1>2. \A w, blocks : Minus(w, blocks) \subseteq Window
  BY Zenon DEF Minus
<1>3. \A c : CareWindows(s, c) \subseteq Window
  BY <1>1 DEF CareWindows
<1>4. \A p : DriveWindows(s, p) \subseteq Window
  BY <1>2 DEF DriveWindows
<1> QED
  BY <1>1, <1>3, <1>4

\* Caregivers that may be considered are caregivers.
LEMMA StaffedAreCaregivers ==
  ASSUME NEW s, IsScenario(s), NEW c \in Staffed(s)
  PROVE  c \in Caregivers /\ c \in Person
<1>1. c \in Listed(s)
  BY DEF Staffed, Eligible
<1>2. c \in Caregivers
  BY <1>1, ScenarioFields
<1> QED
  BY <1>2 DEF Person

\* _parent_transport_primitives: trips within a window the parent can drive in
LEMMA ParentTripsAreSegments ==
  ASSUME NEW s, IsScenario(s)
  PROVE  ParentTrips(s) \subseteq Segment
<1> SUFFICES ASSUME NEW g \in ParentTrips(s) PROVE g \in Segment
  OBVIOUS
<1>1. PICK p, c, w : /\ p \in Parents /\ c \in Away(s) /\ w \in CareWindows(s, c)
                     /\ g \in TripsAround(p, c, w)
  <2>1. PICK p \in Parents :
          g \in UNION {UNION {TripsAround(p, c, w) : w \in CareWindows(s, c)} : c \in Away(s)}
    BY DEF ParentTrips
  <2>2. PICK c \in Away(s) : g \in UNION {TripsAround(p, c, w) : w \in CareWindows(s, c)}
    BY <2>1
  <2> QED
    BY <2>2
<1>2. PICK v \in DriveWindows(s, g.who) : Within(g.window, v)
  BY DEF ParentTrips
<1>3. v \in Window /\ w \in Window
  BY <1>1, <1>2, WindowsAreWindows
<1>4. c \in Caregivers /\ Travel[At[c]] > 0 /\ p \in Person /\ Home \in Place
  BY <1>1, StaffedAreCaregivers DEF Away, Person, Place
<1>5. /\ At[c] \in Place /\ Travel[At[c]] \in Nat
      /\ v.start \in Nat /\ w.start \in Nat /\ w.end \in Nat /\ w.start <= LastTime
      /\ w.end <= LastTime /\ LastTime \in Nat
  BY <1>3, <1>4, CaregiverPlace, TimeAssumption DEF Window, Time
<1>6. CASE g = Trip(p, Home, At[c], [start |-> w.start - Travel[At[c]], end |-> w.start])
  <2>1. g.window = [start |-> w.start - Travel[At[c]], end |-> w.start]
    BY <1>6 DEF Trip
  <2>2. v.start <= w.start - Travel[At[c]]
    BY <1>2, <2>1 DEF Within
  <2>3. [start |-> w.start - Travel[At[c]], end |-> w.start] \in Window
    BY <1>4, <1>5, <2>2 DEF Window, Time
  <2> QED
    BY <1>4, <1>5, <1>6, <2>3, TripIsSegment
<1>7. CASE g = Trip(p, At[c], Home, [start |-> w.end - Travel[At[c]], end |-> w.end])
  <2>1. g.window = [start |-> w.end - Travel[At[c]], end |-> w.end]
    BY <1>7 DEF Trip
  <2>2. v.start <= w.end - Travel[At[c]]
    BY <1>2, <2>1 DEF Within
  <2>3. [start |-> w.end - Travel[At[c]], end |-> w.end] \in Window
    BY <1>4, <1>5, <2>2 DEF Window, Time
  <2> QED
    BY <1>4, <1>5, <1>7, <2>3, TripIsSegment
<1> QED
  BY <1>1, <1>6, <1>7 DEF TripsAround

\* Trips home of caregivers who drive, at the end of their time
LEMMA ProviderTripsAreSegments ==
  ASSUME NEW s, IsScenario(s)
  PROVE  ProviderTrips(s) \subseteq Segment
<1> SUFFICES ASSUME NEW g \in ProviderTrips(s) PROVE g \in Segment
  OBVIOUS
<1>1. PICK c, w :
        /\ c \in Away(s)
        /\ w \in CareWindows(s, c) /\ w.end - w.start >= Travel[At[c]]
        /\ g = Trip(c, At[c], Home, [start |-> w.end - Travel[At[c]], end |-> w.end])
  BY DEF ProviderTrips
<1>2. w \in Window
  BY <1>1, WindowsAreWindows
<1>3. c \in Caregivers /\ Travel[At[c]] > 0 /\ c \in Person /\ Home \in Place
  BY <1>1, StaffedAreCaregivers DEF Away, Place
<1>4. /\ At[c] \in Place /\ Travel[At[c]] \in Nat
      /\ w.start \in Nat /\ w.end \in Nat /\ w.end <= LastTime /\ LastTime \in Nat
  BY <1>2, <1>3, CaregiverPlace, TimeAssumption DEF Window, Time
<1>5. [start |-> w.end - Travel[At[c]], end |-> w.end] \in Window
  BY <1>1, <1>3, <1>4 DEF Window, Time
<1> QED
  BY <1>1, <1>3, <1>4, <1>5, TripIsSegment

LEMMA TripsAreSegments ==
  ASSUME NEW s, IsScenario(s)
  PROVE  Trips(s) \subseteq Segment
BY ParentTripsAreSegments, ProviderTripsAreSegments DEF Trips

\* The care that a trip home ends ends at a time of the day.
LEMMA CareEndsInTime ==
  ASSUME NEW c, NEW w \in Window, NEW trips \in SUBSET Segment
  PROVE  CareEnd(c, w, trips) \in Time
<1> DEFINE ends == {w.end} \cup {g.window.start : g \in {k \in trips :
                      k.from = At[c] /\ k.to = Home /\ k.window.end = w.end}}
<1>1. w.end \in Time /\ \A g \in trips : g.window.start \in Time
  BY DEF Segment, Window
<1>2. ends \subseteq Time /\ ends # {}
  BY <1>1
<1>3. ends \in SUBSET Nat
  BY <1>2, TimeAssumption DEF Time
<1> HIDE DEF ends
<1>4. Min(ends) \in ends
  BY <1>2, <1>3, MinIsLeast
<1> QED
  BY <1>2, <1>4 DEF CareEnd, ends

\* _care_primitives
LEMMA CaregiverCareIsSegments ==
  ASSUME NEW s, IsScenario(s), NEW trips \in SUBSET Segment
  PROVE  CaregiverCare(s, trips) \subseteq Segment
<1> SUFFICES ASSUME NEW g \in CaregiverCare(s, trips) PROVE g \in Segment
  OBVIOUS
<1>1. PICK c, w :
        /\ c \in Staffed(s)
        /\ w \in CareWindows(s, c) /\ w.start < CareEnd(c, w, trips)
        /\ g = Care(c, At[c], [w EXCEPT !.end = CareEnd(c, w, trips)])
  BY DEF CaregiverCare
<1>2. w \in Window
  BY <1>1, WindowsAreWindows
<1>3. c \in Caregivers /\ c \in Person
  BY <1>1, StaffedAreCaregivers
<1>4. CareEnd(c, w, trips) \in Time
  BY <1>2, CareEndsInTime
<1>5. [w EXCEPT !.end = CareEnd(c, w, trips)] \in Window
  BY <1>1, <1>2, <1>4 DEF Window
<1> QED
  BY <1>1, <1>3, <1>5, CaregiverPlace, CareIsSegment

\* Everything a plan may be composed of
LEMMA PrimitivesAreSegments ==
  ASSUME NEW s, IsScenario(s)
  PROVE  Primitives(s) \subseteq Segment
<1>1. Trips(s) \in SUBSET Segment
  BY TripsAreSegments
<1>2. ParentCare(s, Trips(s)) \subseteq Segment
  <2> SUFFICES ASSUME NEW g \in ParentCare(s, Trips(s)) PROVE g \in Segment
    OBVIOUS
  <2>1. PICK p \in Parents, v \in Window : g = Care(p, Home, v)
    BY DEF ParentCare, Minus
  <2> QED
    BY <2>1, CareIsSegment DEF Person, Place
<1> QED
  BY <1>1, <1>2, CaregiverCareIsSegments DEF Primitives, WithTrips

\* The scope of a run
Scope == [replan : BOOLEAN, affected : SUBSET Window, kept : SUBSET Segment]

\* What a replan may be composed of
LEMMA ScopedAreSegments ==
  ASSUME NEW work \in SUBSET Segment, NEW scope \in Scope
  PROVE  Scoped(work, scope) \subseteq Segment
<1>1. \A g \in Segment, v \in Window : [g EXCEPT !.window = v] \in Segment
  BY DEF Segment
<1>2. \A v, w : Clip(v, w) \subseteq Window
  BY DEF Clip
<1>3. ReplanningPrimitives(work, scope.affected, scope.kept) \subseteq Segment
  <2> SUFFICES ASSUME NEW g \in ReplanningPrimitives(work, scope.affected, scope.kept)
               PROVE  g \in Segment
    OBVIOUS
  <2>1. scope.kept \subseteq Segment
    BY DEF Scope
  <2> DEFINE care == UNION {ClippedTo(scope.affected, k) : k \in {h \in work : h.kind = "CARE"}}
             trips == {k \in work : k.kind = "TRANSPORT" /\ \E a \in scope.affected : Within(k.window, a)}
  <2>2. g \in care \cup trips \cup scope.kept
    BY DEF ReplanningPrimitives
  <2>3. ASSUME g \in care PROVE g \in Segment
    <3>1. PICK k \in work : g \in ClippedTo(scope.affected, k)
      BY <2>3
    <3>2. PICK a, v : /\ a \in scope.affected /\ v \in Clip(k.window, a)
                     /\ g = [k EXCEPT !.window = v]
      BY <3>1 DEF ClippedTo
    <3> QED
      BY <1>1, <1>2, <3>2
  <2>4. trips \subseteq Segment
    OBVIOUS
  <2> QED
    BY <2>1, <2>2, <2>3, <2>4
<1> QED
  BY <1>3 DEF Scoped

\* What is left of it after pruning
LEMMA MatrixIsOfSegments ==
  ASSUME NEW s, IsScenario(s), NEW scope \in Scope
  PROVE  Matrix(s, scope).work \subseteq Segment
<1>1. Scoped(Primitives(s), scope) \subseteq Segment
  BY PrimitivesAreSegments, ScopedAreSegments
<1>2. Matrix(s, scope).work = Prune(Scoped(Primitives(s), scope))
  BY DEF Matrix, MatrixOf
<1>3. \A work : Prune(work) \subseteq work
  BY DEF Prune
<1> QED
  BY <1>1, <1>2, <1>3

-----------------------------------------------------------------------------
(* What planning runs produce.                                             *)

\* Whatever is proposed is a plan in form.
LEMMA ProposalsAreDays ==
  ASSUME NEW facts, IsScenario(facts), NEW scope \in Scope
  PROVE  /\ FreeProposals(facts) \subseteq DayPlan
         /\ PlannerProposals(facts, scope) \subseteq DayPlan
<1>1. \A s : ValidPlans(s) \subseteq DayPlan
  BY DEF ValidPlans
<1>2. FreeProposals(facts) \subseteq DayPlan
  <2>1. NoPlan \in DayPlan
    BY DEF NoPlan, DayPlan
  <2> QED
    BY <1>1, <2>1 DEF FreeProposals
<1>3. \A c \in Materializable(Matrix(facts, scope)) : [segments |-> c, moves |-> FALSE] \in DayPlan
  <2>1. \A c \in Materializable(Matrix(facts, scope)) : c \subseteq Matrix(facts, scope).work
    BY DEF Materializable
  <2> QED
    BY <2>1, MatrixIsOfSegments DEF DayPlan
<1>4. PlannerProposals(facts, scope) \subseteq DayPlan
  <2>1. CASE scope.replan /\ UsesSelection(facts, Matrix(facts, scope))
    BY <1>3, <2>1 DEF PlannerProposals, ProposalsFrom
  <2>2. CASE ~ (scope.replan /\ UsesSelection(facts, Matrix(facts, scope)))
    BY <1>2, <2>2 DEF PlannerProposals, ProposalsFrom
  <2> QED
    BY <2>1, <2>2
<1> QED
  BY <1>2, <1>4

\* Research compares candidates, finitely many of them.
LEMMA ComparedAreCandidates ==
  ASSUME NEW s, NEW scope
  PROVE  Compared(s, scope) \subseteq Candidates /\ IsFiniteSet(Compared(s, scope))
<1>1. Compared(s, scope) \subseteq Candidates
  BY OfferAssumption DEF Compared, Comparable, EligibleCandidates
<1>2. Compared(s, scope) \subseteq Person
  BY <1>1 DEF Person, Caregivers
<1> QED
  BY <1>1, <1>2, PersonAssumption, FS_Subset

\* A finite set can be ranked,
LEMMA RankingExists ==
  ASSUME NEW S, IsFiniteSet(S), S # {}
  PROVE  Orders(S) # {}
<1>1. PICK f : f \in Bijection(1 .. Cardinality(S), S)
  BY FS_CardinalityType DEF ExistsBijection
<1>2. f \in [1 .. Cardinality(S) -> S] /\ \A k \in S : \E i \in 1 .. Cardinality(S) : f[i] = k
  BY <1>1 DEF Bijection, Injection, Surjection
<1>3. DOMAIN f = 1 .. Cardinality(S)
  BY <1>2
<1> QED
  BY <1>2, <1>3 DEF Orders

\* and who is selected from a ranking is ranked.
LEMMA SelectedAreRanked ==
  ASSUME NEW s, NEW scope, NEW r \in Rankings(s, scope)
  PROVE  /\ \A k \in Selected(s, scope, r) : k \in Compared(s, scope) /\ Joins(s, scope, k)
         /\ Planable(s, scope) # {} => Selected(s, scope, r) # {}
<1> DEFINE good == {j \in DOMAIN r : Joins(s, scope, r[j])}
<1>1. /\ r \in [1 .. Cardinality(Compared(s, scope)) -> Compared(s, scope)]
      /\ \A k \in Compared(s, scope) : \E i \in DOMAIN r : r[i] = k
  BY DEF Rankings, Orders
<1>2. IsFiniteSet(Compared(s, scope)) /\ Cardinality(Compared(s, scope)) \in Nat
  BY ComparedAreCandidates, FS_CardinalityType
<1>3. good \in SUBSET Nat
  BY <1>1, <1>2
<1>4. Selected(s, scope, r) = {r[i] : i \in First(good)}
  BY DEF Selected
<1>5. First(good) \subseteq good
  BY DEF First
<1>6. \A k \in Selected(s, scope, r) : k \in Compared(s, scope) /\ Joins(s, scope, k)
  BY <1>1, <1>4, <1>5
<1>7. ASSUME Planable(s, scope) # {} PROVE Selected(s, scope, r) # {}
  <2>1. good # {}
    BY <1>1, <1>7 DEF Planable
  <2> HIDE DEF good
  <2>2. First(good) # {}
    BY <1>3, <2>1, SmallestExists DEF First
  <2> QED
    BY <1>4, <2>2
<1> QED
  BY <1>6, <1>7

\* A run hires a candidate or nobody.
LEMMA HireableAreCandidates ==
  ASSUME NEW facts, NEW scope
  PROVE  Hireable(facts, scope) \subseteq Candidates \cup {NoOne}
<1>1. \A r \in Rankings(facts, scope) : Selected(facts, scope, r) \subseteq Candidates
  BY SelectedAreRanked, ComparedAreCandidates
<1> QED
  BY <1>1 DEF Hireable

-----------------------------------------------------------------------------
(* Types, and what a run has cost so far.                                  *)

\* A run that is idle is the idle run; a local run reasons once more for each
\* verdict; a remote one at most twice as often, less what is not sent yet.
Budget ==
  /\ run.phase = "idle" => run = Idle
  /\ run.phase \in {"brief", "research", "propose"} =>
       run.sends = 0 /\ run.reasonings = run.judged
  /\ run.phase = "send" =>
       run.sends <= 1 /\ run.reasonings <= 2 * run.judged + run.sends
  /\ run.phase = "runtime" =>
       run.sends >= 1 /\ run.reasonings <= 2 * run.judged + run.sends - 1

Working == TypeOK /\ Budget /\ snapshot \in Snapshots

RunOf(f) ==
  [phase : {"idle", "brief", "research", "propose", "send", "runtime"},
   facts : {f},
   scope : Scope,
   decline : Declined \cup {NoDecline},
   hired : Candidates \cup {NoOne},
   judged : 0 .. 2, sends : 0 .. 2, reasonings : 0 .. 5]

\* The type of a run, with the bounds as numbers
LEMMA RunType ==
  /\ TypeOK <=>
       /\ IsScenario(snapshot) /\ host \in Hosts
       /\ status \in {"none", "active", "no_option", "broken"}
       /\ plan \in DayPlan /\ researched \in Candidates \cup {NoOne} /\ declines \subseteq Declined
       /\ IsScenario(run.facts) /\ run \in RunOf(run.facts)
  /\ TypeOK' <=>
       /\ IsScenario(snapshot') /\ host' \in Hosts
       /\ status' \in {"none", "active", "no_option", "broken"}
       /\ plan' \in DayPlan /\ researched' \in Candidates \cup {NoOne} /\ declines' \subseteq Declined
       /\ IsScenario(run'.facts) /\ run' \in RunOf(run'.facts)
<1>1. /\ MAX_PLAN_ATTEMPTS - 1 = 2 /\ TRANSPORT_ATTEMPTS = 2
      /\ MAX_PLAN_ATTEMPTS * TRANSPORT_ATTEMPTS - 1 = 5
  BY DEF MAX_PLAN_ATTEMPTS, TRANSPORT_ATTEMPTS
<1> QED
  BY <1>1, Zenon DEF TypeOK, RunOf, Scope

\* A run that ends leaves nothing behind.
LEMMA IdleWorks ==
  ASSUME IsScenario(snapshot)
  PROVE  Idle \in RunOf(snapshot) /\ Idle.facts = snapshot /\ Idle.phase = "idle"
         /\ Idle.judged = 0 /\ Idle.sends = 0 /\ Idle.reasonings = 0
<1>1. InitialScope \in Scope
  BY DEF InitialScope, Scope
<1> QED
  BY <1>1 DEF Idle, RunOf

\* A run in another phase, with other counts
LEMMA RunEdited ==
  ASSUME NEW f, NEW x \in RunOf(f), NEW phase \in {"propose", "send"},
         NEW k \in Candidates \cup {NoOne}, NEW j \in 0 .. 2, NEW s \in 0 .. 2, NEW r \in 0 .. 5,
         NEW y, y = [x EXCEPT !.phase = phase, !.hired = k, !.judged = j, !.sends = s,
                              !.reasonings = r]
  PROVE  y \in RunOf(f)
<1>1. phase \in {"idle", "brief", "research", "propose", "send", "runtime"}
  OBVIOUS
<1> QED
  BY <1>1, Zenon DEF RunOf

\* A verdict on a plan in form, at the end of an attempt
LEMMA JudgeWorks ==
  ASSUME Working, NEW k \in Candidates \cup {NoOne}, NEW p \in DayPlan,
         NEW next \in {"propose", "send"}, Judge(k, p, next),
         next = "propose" => run.phase = "propose", next = "send" => run.phase = "runtime"
  PROVE  Working'
<1>1. /\ IsScenario(snapshot) /\ host \in Hosts
      /\ status \in {"none", "active", "no_option", "broken"}
      /\ plan \in DayPlan /\ researched \in Candidates \cup {NoOne} /\ declines \subseteq Declined
      /\ IsScenario(run.facts) /\ run \in RunOf(run.facts)
  BY RunType DEF Working
<1>2. declines \cup ({run.decline} \ {NoDecline}) \subseteq Declined
  BY <1>1 DEF RunOf
<1>3. CASE run' = Idle
  <2>1. UNCHANGED <<snapshot, host>>
    BY DEF Judge, Adopt, Exhaust, case
  <2>2. /\ status' \in {"none", "active", "no_option", "broken"}
        /\ plan' \in DayPlan /\ researched' \in Candidates \cup {NoOne} /\ declines' \subseteq Declined
    BY <1>1, <1>2 DEF Judge, Adopt, Exhaust, case
  <2>3. run' \in RunOf(run'.facts) /\ IsScenario(run'.facts) /\ Idle' = Idle
    BY <1>1, <1>3, <2>1, IdleWorks DEF Idle
  <2>4. Budget'
    BY <1>1, <1>3, <2>3, IdleWorks DEF Budget
  <2> QED
    BY <1>1, <2>1, <2>2, <2>3, <2>4, RunType DEF Working
<1>4. CASE /\ run' = [run EXCEPT !.phase = next, !.hired = k, !.judged = @ + 1,
                                 !.sends = 0, !.reasonings = @ + 1]
           /\ run.judged + 1 # MAX_PLAN_ATTEMPTS
           /\ UNCHANGED case
  <2>1. /\ run'.phase = next /\ run'.judged = run.judged + 1 /\ run'.sends = 0
        /\ run'.reasonings = run.reasonings + 1 /\ run'.facts = run.facts
    BY <1>1, <1>4 DEF RunOf
  <2>2. run.judged \in 0 .. 1 /\ run.reasonings \in Nat /\ run.sends \in 0 .. 2
    BY <1>1, <1>4 DEF RunOf, MAX_PLAN_ATTEMPTS
  <2>3. /\ next = "propose" => run.reasonings = run.judged
        /\ next = "send" => run.reasonings <= 2 * run.judged + run.sends - 1
    BY DEF Working, Budget
  <2>4. run.reasonings <= 3 /\ next \in {"propose", "send"}
    BY <2>2, <2>3
  <2>5. run.judged + 1 \in 0 .. 2 /\ run.reasonings + 1 \in 0 .. 5
    BY <2>2, <2>4
  <2>6. run' \in RunOf(run.facts)
    <3>1. PICK j \in 0 .. 2, r \in 0 .. 5 : j = run.judged + 1 /\ r = run.reasonings + 1
      BY <2>5
    <3>2. run' = [run EXCEPT !.phase = next, !.hired = k, !.judged = j, !.sends = 0,
                             !.reasonings = r]
      BY <1>4, <3>1
    <3>3. 0 \in 0 .. 2 /\ run \in RunOf(run.facts)
      BY <1>1
    <3> QED
      BY <2>4, <3>2, <3>3, RunEdited
  <2>7. next = "propose" => run.reasonings + 1 = run.judged + 1
    BY <2>3
  <2>8. next = "send" => run.reasonings + 1 <= 2 * (run.judged + 1) + 0
    BY <2>2, <2>3
  <2>9. Budget'
    BY <2>1, <2>4, <2>7, <2>8 DEF Budget
  <2> QED
    BY <1>1, <1>4, <2>1, <2>6, <2>9, RunType DEF Working, case
<1> QED
  BY <1>3, <1>4 DEF Judge, Adopt, Exhaust

\* An exception
LEMMA RaiseWorks ==
  ASSUME Working, Raise
  PROVE  Working'
<1>1. IsScenario(snapshot) /\ UNCHANGED case /\ run' = Idle
  BY RunType DEF Working, Raise
<1>2. run' \in RunOf(run'.facts) /\ IsScenario(run'.facts) /\ Idle' = Idle
  BY <1>1, IdleWorks DEF Idle, case
<1>3. Budget'
  BY <1>1, <1>2, IdleWorks DEF Budget
<1> QED
  BY <1>1, <1>2, <1>3, RunType DEF Working, case

\* A run that is started
LEMMA BeginWorks ==
  ASSUME Working, run.phase = "idle",
         NEW facts, IsScenario(facts), NEW scope \in Scope, NEW d \in Declined \cup {NoDecline},
         Begin(facts, scope, d)
  PROVE  Working'
<1>1. IsScenario(snapshot)
  BY RunType DEF Working
<1>2. Idle \in RunOf(snapshot) /\ Idle.judged = 0 /\ Idle.sends = 0 /\ Idle.reasonings = 0
  BY <1>1, IdleWorks
<1>3. PICK phase \in {"send", "brief"} :
        run' = [Idle EXCEPT !.phase = phase, !.facts = facts, !.scope = scope, !.decline = d]
  BY DEF Begin
<1>4. /\ run' \in RunOf(facts) /\ run'.facts = facts /\ run'.phase = phase
      /\ run'.judged = 0 /\ run'.sends = 0 /\ run'.reasonings = 0
  BY <1>2, <1>3 DEF RunOf
<1>5. Budget'
  BY <1>4 DEF Budget
<1> QED
  BY <1>4, <1>5, RunType DEF Working, Begin, case

\* The scope of a repair
LEMMA RepairScopeType ==
  ASSUME NEW S \in SUBSET Segment, NEW d
  PROVE  RepairScope(S, d) \in Scope
<1>1. Merged({g.window : g \in Impacted(S, d)}) \subseteq Window
  BY Zenon DEF Merged
<1> QED
  BY <1>1 DEF RepairScope, Scope

\* Requests, answered at once or starting a run
LEMMA RequestWorks ==
  ASSUME Working, StartRecovery \/ \E d \in Reports : ReportDecline(d)
  PROVE  Working'
<1>1. /\ IsScenario(snapshot) /\ host \in Hosts
      /\ status \in {"none", "active", "no_option", "broken"}
      /\ plan \in DayPlan /\ researched \in Candidates \cup {NoOne} /\ declines \subseteq Declined
      /\ IsScenario(run.facts) /\ run \in RunOf(run.facts)
  BY RunType DEF Working
<1>2. ASSUME run' = run, UNCHANGED <<snapshot, host, plan, researched>>,
             status' = "no_option", declines' \subseteq Declined
      PROVE  Working'
  <2>1. Budget'
    BY <1>2 DEF Working, Budget, Idle
  <2> QED
    BY <1>1, <1>2, <2>1, RunType DEF Working
<1>3. CASE StartRecovery
  <2>1. CASE Hopeless(snapshot, InitialScope)
    BY <1>1, <1>2, <1>3, <2>1 DEF StartRecovery
  <2>2. CASE ~ Hopeless(snapshot, InitialScope)
    <3>1. Begin(snapshot, InitialScope, NoDecline) /\ run.phase = "idle"
      BY <1>3, <2>2 DEF StartRecovery
    <3>2. InitialScope \in Scope
      BY DEF InitialScope, Scope
    <3> QED
      BY <1>1, <3>1, <3>2, BeginWorks
  <2> QED
    BY <2>1, <2>2
<1>4. ASSUME NEW d \in Reports, ReportDecline(d)
      PROVE  Working'
  <2> DEFINE facts == WithoutDeclined(CaseFacts, d)
             scope == RepairScope(plan.segments, d)
  <2>1. d \in Declined
    BY InputAssumption
  <2>2. CASE Hopeless(facts, scope)
    <3>1. /\ run' = run /\ UNCHANGED <<snapshot, host, plan, researched>>
          /\ status' = "no_option" /\ declines' = declines \cup {d}
      BY <1>4, <2>2 DEF ReportDecline
    <3> QED
      BY <1>1, <1>2, <2>1, <3>1
  <2>3. CASE ~ Hopeless(facts, scope)
    <3>1. Begin(facts, scope, d) /\ run.phase = "idle"
      BY <1>4, <2>3 DEF ReportDecline
    <3>2. IsScenario(facts)
      <4>1. Listed(snapshot) \subseteq Known
        BY InputAssumption DEF Working
      <4> QED
        BY <1>1, <4>1, CaseScenario, DeclinedScenario
    <3>3. scope \in Scope
      BY <1>1, RepairScopeType DEF DayPlan
    <3> QED
      BY <2>1, <3>1, <3>2, <3>3, BeginWorks
  <2> QED
    BY <2>2, <2>3
<1> QED
  BY <1>3, <1>4

\* A run that goes on without a verdict: only its own phase, candidate and
\* counts change.
LEMMA GoesOnWorks ==
  ASSUME Working, UNCHANGED case,
         NEW phase \in {"brief", "research", "propose", "send", "runtime"},
         NEW k \in Candidates \cup {NoOne}, NEW sends \in 0 .. 2, NEW r \in 0 .. 5,
         run' = [run EXCEPT !.phase = phase, !.hired = k, !.sends = sends, !.reasonings = r],
         phase \in {"brief", "research", "propose"} => sends = 0 /\ r = run.judged,
         phase = "send" => sends <= 1 /\ r <= 2 * run.judged + sends,
         phase = "runtime" => sends >= 1 /\ r <= 2 * run.judged + sends - 1
  PROVE  Working'
<1>1. TypeOK /\ run \in RunOf(run.facts)
  BY RunType DEF Working
<1>2. phase \in {"idle", "brief", "research", "propose", "send", "runtime"}
  OBVIOUS
<1>3. run' \in RunOf(run.facts)
  BY <1>1, <1>2, Zenon DEF RunOf
<1>4. /\ run'.phase = phase /\ run'.sends = sends /\ run'.reasonings = r
      /\ run'.judged = run.judged /\ run'.facts = run.facts
  BY <1>1 DEF RunOf
<1>5. Budget'
  BY <1>4 DEF Budget
<1> QED
  BY <1>1, <1>3, <1>4, <1>5, RunType DEF Working, case

\* In the service's own process
LEMMA LocalGoesOn ==
  ASSUME Working, UNCHANGED case, run.phase \in {"brief", "research"},
         NEW next \in {"research", "propose"}, NEW k \in Candidates \cup {NoOne},
         run' = [run EXCEPT !.phase = next, !.hired = k]
  PROVE  Working'
<1>1. run \in RunOf(run.facts)
  BY RunType DEF Working
<1>2. run.sends = 0 /\ run.reasonings = run.judged
  BY DEF Working, Budget
<1>3. next \in {"idle", "brief", "research", "propose", "send", "runtime"}
  OBVIOUS
<1>4. run' \in RunOf(run.facts)
  BY <1>1, <1>3, Zenon DEF RunOf
<1>5. /\ run'.phase = next /\ run'.sends = run.sends /\ run'.reasonings = run.reasonings
      /\ run'.judged = run.judged /\ run'.facts = run.facts
  BY <1>1 DEF RunOf
<1>6. Budget'
  BY <1>2, <1>5 DEF Budget
<1> QED
  BY <1>4, <1>5, <1>6, RunType DEF Working, case

\* Steps of a run in the service's own process
LEMMA LocalWorks ==
  ASSUME Working, LocalStep
  PROVE  Working'
<1>1. /\ IsScenario(snapshot) /\ IsScenario(run.facts) /\ run \in RunOf(run.facts)
  BY RunType DEF Working
<1>2. run.hired \in Candidates \cup {NoOne} /\ run.scope \in Scope
      /\ run.sends \in 0 .. 2 /\ run.reasonings \in 0 .. 5
  BY <1>1 DEF RunOf
<1>3. ASSUME NEW next \in {"research", "propose"}, run.phase \in {"brief", "research"}, Goes(next)
      PROVE  Working'
  <2>1. run' = [run EXCEPT !.phase = next, !.hired = run.hired]
    BY <1>1, <1>3 DEF Goes, RunOf
  <2>2. UNCHANGED case
    BY <1>3 DEF Goes
  <2> QED
    BY <1>2, <1>3, <2>1, <2>2, LocalGoesOn
<1>4. ASSUME run.phase = "research", Hires
      PROVE  Working'
  <2>1. PICK k \in Hireable(run.facts, run.scope) :
          run' = [run EXCEPT !.phase = "propose", !.hired = k] /\ UNCHANGED case
    BY <1>4 DEF Hires
  <2>2. k \in Candidates \cup {NoOne}
    BY HireableAreCandidates
  <2> QED
    BY <1>4, <2>1, <2>2, LocalGoesOn
<1>5. CASE PlannerAttempt
  <2>1. PICK p \in PlannerProposals(Judging(run.hired), run.scope) : Judge(run.hired, p, "propose")
    BY <1>5 DEF PlannerAttempt
  <2>2. IsScenario(Judging(run.hired))
    BY <1>1, <1>2, ResearchedScenario DEF Judging
  <2>3. p \in DayPlan
    BY <1>2, <2>2, ProposalsAreDays
  <2> QED
    <3>1. run.phase = "propose"
      BY <1>5 DEF PlannerAttempt
    <3>2. PICK k \in Candidates \cup {NoOne} : k = run.hired
      BY <1>2
    <3>3. Judge(k, p, "propose")
      BY <2>1, <3>2
    <3> QED
      BY <2>3, <3>1, <3>3, JudgeWorks
<1>6. CASE SingleAgentAttempt
  <2>1. PICK p \in FreeProposals(run.facts) : Judge(NoOne, p, "propose")
    BY <1>6 DEF SingleAgentAttempt
  <2>2. p \in DayPlan
    BY <1>1, <1>2, ProposalsAreDays
  <2> QED
    BY <1>6, <2>1, <2>2, JudgeWorks DEF SingleAgentAttempt
<1>7. CASE LocalRunRaises
  BY <1>7, RaiseWorks DEF LocalRunRaises
<1> QED
  BY <1>3, <1>4, <1>5, <1>6, <1>7
  DEF LocalStep, GatherContext, RefreshContext, ScopeInitial, ScopeReplan, SkipResearch,
      ResearchInitial, ResearchReplan

\* Steps of a run on AgentCore
LEMMA RemoteWorks ==
  ASSUME Working, RemoteStep
  PROVE  Working'
<1>1. /\ IsScenario(snapshot) /\ IsScenario(run.facts) /\ run \in RunOf(run.facts)
  BY RunType DEF Working
<1>2. /\ run.hired \in Candidates \cup {NoOne} /\ run.scope \in Scope
      /\ run.sends \in 0 .. 2 /\ run.judged \in 0 .. 2 /\ run.reasonings \in 0 .. 5
  BY <1>1 DEF RunOf
<1>3. CASE Send
  <2>1. run.sends <= 1 /\ run.reasonings <= 2 * run.judged + run.sends
    BY <1>3 DEF Send, Working, Budget
  <2>2. PICK sends \in 0 .. 2 : sends = run.sends + 1
    BY <1>2, <2>1
  <2>3. run' = [run EXCEPT !.phase = "runtime", !.hired = run.hired, !.sends = sends,
                           !.reasonings = run.reasonings]
    BY <1>1, <1>3, <2>2 DEF Send, RunOf
  <2>4. sends >= 1 /\ run.reasonings <= 2 * run.judged + sends - 1
    BY <1>2, <2>1, <2>2
  <2>5. UNCHANGED case
    BY <1>3 DEF Send
  <2> QED
    BY <1>2, <2>3, <2>4, <2>5, GoesOnWorks
<1>4. CASE ConnectFails
  <2>1. run.sends = 1 /\ run.reasonings <= 2 * run.judged + run.sends - 1
    BY <1>2, <1>4 DEF ConnectFails, Working, Budget, TRANSPORT_ATTEMPTS
  <2>2. run.sends <= 1 /\ run.reasonings <= 2 * run.judged + run.sends
    BY <1>2, <2>1
  <2>3. run' = [run EXCEPT !.phase = "send", !.hired = run.hired, !.sends = run.sends,
                           !.reasonings = run.reasonings]
    BY <1>1, <1>4 DEF ConnectFails, RunOf
  <2>4. UNCHANGED case
    BY <1>4 DEF ConnectFails
  <2> QED
    BY <1>2, <2>2, <2>3, <2>4, GoesOnWorks
<1>5. CASE ConnectionClosed
  <2>1. run.sends = 1 /\ run.reasonings <= 2 * run.judged + run.sends - 1
    BY <1>2, <1>5 DEF ConnectionClosed, Working, Budget, TRANSPORT_ATTEMPTS
  <2>2. PICK r \in 0 .. 5 : r = run.reasonings + 1
    BY <1>2, <2>1
  <2>3. run.sends <= 1 /\ r <= 2 * run.judged + run.sends
    BY <1>2, <2>1, <2>2
  <2>4. run' = [run EXCEPT !.phase = "send", !.hired = run.hired, !.sends = run.sends,
                           !.reasonings = r]
    BY <1>1, <1>5, <2>2 DEF ConnectionClosed, RunOf
  <2>5. UNCHANGED case
    BY <1>5 DEF ConnectionClosed
  <2> QED
    BY <1>2, <2>3, <2>4, <2>5, GoesOnWorks
<1>6. CASE InvocationFails
  BY <1>6, RaiseWorks DEF InvocationFails
<1>7. CASE RuntimeAnswers
  <2>1. PICK k, p : /\ k \in RuntimeCandidates
                     /\ p \in PlannerProposals(Judging(k), run.scope)
                     /\ Judge(k, p, "send")
    BY <1>7 DEF RuntimeAnswers, RuntimeReasoning
  <2>2. k \in Candidates \cup {NoOne}
    BY <1>2, <2>1, HireableAreCandidates DEF RuntimeCandidates
  <2>3. IsScenario(Judging(k))
    BY <1>1, <2>2, ResearchedScenario DEF Judging
  <2>4. p \in DayPlan
    BY <1>2, <2>1, <2>3, ProposalsAreDays
  <2> QED
    BY <1>7, <2>1, <2>2, <2>4, JudgeWorks DEF RuntimeAnswers
<1> QED
  BY <1>3, <1>4, <1>5, <1>6, <1>7 DEF RemoteStep

LEMMA InitWorks == Init => Working
<1> SUFFICES ASSUME Init PROVE Working
  OBVIOUS
<1>1. IsScenario(snapshot) /\ NoPlan \in DayPlan
  BY InputAssumption DEF Init, NoPlan, DayPlan
<1>2. run \in RunOf(run.facts) /\ IsScenario(run.facts)
  BY <1>1, IdleWorks DEF Init
<1>3. Budget
  BY <1>1, IdleWorks DEF Init, Budget
<1> QED
  BY <1>1, <1>2, <1>3, RunType DEF Working, Init

LEMMA StepWorks == Working /\ [Next]_vars => Working'
<1> SUFFICES ASSUME Working, [Next]_vars PROVE Working'
  OBVIOUS
<1>1. CASE UNCHANGED vars
  BY <1>1, RunType DEF Working, Budget, vars, Idle
<1> QED
  BY <1>1, RequestWorks, LocalWorks, RemoteWorks DEF Next

\* Every variable keeps its type: a run judges at most three proposals, sends
\* each request at most twice and never makes the agents reason more than
\* twice as often as it may judge (runtime_gateway.py, AgentCoreClient.invoke
\* and _validate_with_repairs; recovery_agent.py, run_bounded_plan_attempts).
THEOREM TypeCorrect == Spec => []TypeOK
<1>1. Working => TypeOK
  BY DEF Working
<1> QED
  BY <1>1, InitWorks, StepWorks, PTL DEF Spec

-----------------------------------------------------------------------------
(* What any step of a run can do, and what a run knows.                    *)

\* The run goes on: the case and what the run is about stay, and at most one
\* more proposal is judged for one more reasoning.
GoesOn ==
  /\ UNCHANGED case
  /\ run'.phase # "idle"
  /\ run'.facts = run.facts /\ run'.scope = run.scope /\ run'.decline = run.decline
  /\ \/ run'.judged = run.judged /\ run'.reasonings = run.reasonings
     \/ run'.judged = run.judged /\ run'.reasonings = run.reasonings + 1
     \/ run'.judged = run.judged + 1 /\ run'.reasonings = run.reasonings + 1

\* It raises, gives up, adopts a plan it accepts, or goes on.
Stepped ==
  /\ run.phase # "idle"
  /\ \/ Raise
     \/ Exhaust
     \/ \E k \in Candidates \cup {NoOne}, p \in DayPlan : Accepts(k, p) /\ Adopt(k, p)
     \/ GoesOn

\* A verdict is one of these,
LEMMA JudgeSteps ==
  ASSUME run \in RunOf(run.facts), NEW k \in Candidates \cup {NoOne}, NEW p \in DayPlan,
         NEW next \in {"propose", "send"}, Judge(k, p, next), run.phase # "idle"
  PROVE  Stepped
<1>1. CASE Accepts(k, p)
  BY <1>1 DEF Judge, Stepped
<1>2. CASE Exhaust
  BY <1>2 DEF Stepped
<1>3. CASE /\ run' = [run EXCEPT !.phase = next, !.hired = k, !.judged = @ + 1,
                                 !.sends = 0, !.reasonings = @ + 1]
           /\ UNCHANGED case
  <2>1. GoesOn
    BY <1>3 DEF GoesOn, RunOf
  <2> QED
    BY <2>1 DEF Stepped
<1> QED
  BY <1>1, <1>2, <1>3 DEF Judge

\* and so is every other step.
LEMMA RunSteps ==
  ASSUME Working, LocalStep \/ RemoteStep
  PROVE  Stepped
<1>1. /\ IsScenario(run.facts) /\ run \in RunOf(run.facts)
  BY RunType DEF Working
<1>2. run.hired \in Candidates \cup {NoOne} /\ run.scope \in Scope
  BY <1>1 DEF RunOf
<1>3. ASSUME NEW next \in {"research", "propose"}, run.phase # "idle", Goes(next)
      PROVE  Stepped
  <2>1. GoesOn
    BY <1>1, <1>3 DEF Goes, GoesOn, RunOf
  <2> QED
    BY <1>3, <2>1 DEF Stepped
<1>4. ASSUME run.phase # "idle", Hires
      PROVE  Stepped
  <2>1. GoesOn
    BY <1>1, <1>4 DEF Hires, GoesOn, RunOf
  <2> QED
    BY <1>4, <2>1 DEF Stepped
<1>5. CASE PlannerAttempt
  <2>1. PICK p \in PlannerProposals(Judging(run.hired), run.scope) : Judge(run.hired, p, "propose")
    BY <1>5 DEF PlannerAttempt
  <2>2. IsScenario(Judging(run.hired))
    BY <1>1, <1>2, ResearchedScenario DEF Judging
  <2>3. p \in DayPlan
    BY <1>2, <2>2, ProposalsAreDays
  <2>4. PICK k \in Candidates \cup {NoOne} : k = run.hired
    BY <1>2
  <2>5. Judge(k, p, "propose") /\ run.phase # "idle"
    BY <1>5, <2>1, <2>4 DEF PlannerAttempt
  <2> QED
    BY <1>1, <2>3, <2>5, JudgeSteps
<1>6. CASE SingleAgentAttempt
  <2>1. PICK p \in FreeProposals(run.facts) : Judge(NoOne, p, "propose")
    BY <1>6 DEF SingleAgentAttempt
  <2>2. p \in DayPlan
    BY <1>1, <1>2, ProposalsAreDays
  <2>3. run.phase # "idle"
    BY <1>6 DEF SingleAgentAttempt
  <2> QED
    BY <1>1, <2>1, <2>2, <2>3, JudgeSteps
<1>7. CASE LocalRunRaises \/ InvocationFails
  BY <1>7 DEF LocalRunRaises, InvocationFails, Stepped
<1>8. CASE Send \/ ConnectFails \/ ConnectionClosed
  <2>1. GoesOn /\ run.phase # "idle"
    BY <1>1, <1>8 DEF Send, ConnectFails, ConnectionClosed, GoesOn, RunOf
  <2> QED
    BY <2>1 DEF Stepped
<1>9. CASE RuntimeAnswers
  <2>1. PICK k, p : /\ k \in RuntimeCandidates
                     /\ p \in PlannerProposals(Judging(k), run.scope)
                     /\ Judge(k, p, "send")
    BY <1>9 DEF RuntimeAnswers, RuntimeReasoning
  <2>2. k \in Candidates \cup {NoOne}
    BY <1>2, <2>1, HireableAreCandidates DEF RuntimeCandidates
  <2>3. IsScenario(Judging(k))
    BY <1>1, <2>2, ResearchedScenario DEF Judging
  <2>4. p \in DayPlan
    BY <1>2, <2>1, <2>3, ProposalsAreDays
  <2>5. run.phase # "idle"
    BY <1>9 DEF RuntimeAnswers
  <2> QED
    BY <1>1, <2>1, <2>2, <2>4, <2>5, JudgeSteps
<1>10. CASE LocalStep
  BY <1>3, <1>4, <1>5, <1>6, <1>7, <1>10
  DEF LocalStep, GatherContext, RefreshContext, ScopeInitial, ScopeReplan, SkipResearch,
      ResearchInitial, ResearchReplan
<1> QED
  BY <1>7, <1>8, <1>9, <1>10 DEF RemoteStep

\* Where the case comes from
Origin ==
  status = "none" => declines = {} /\ researched = NoOne

\* A run in progress works on the facts of the case as it is, less the decline
\* it repairs, on the scope of that decline in the plan in force, and the gate
\* let it pass.
Grounded ==
  run.phase # "idle" =>
    /\ ~ Hopeless(run.facts, run.scope)
    /\ IF run.scope.replan
       THEN /\ status = "active" /\ run.decline \in Reports
            /\ run.scope = RepairScope(plan.segments, run.decline)
            /\ run.facts = WithoutDeclined(CaseFacts, run.decline)
       ELSE /\ status = "none" /\ run.decline = NoDecline
            /\ run.scope = InitialScope /\ run.facts = snapshot

GroundedInv == Working /\ Origin /\ Grounded

\* A run that is started knows the facts.
LEMMA BeginGrounded ==
  ASSUME Origin, NEW facts, IsScenario(facts), NEW scope \in Scope, NEW d,
         run.phase = "idle", Begin(facts, scope, d), IsScenario(snapshot),
         ~ Hopeless(facts, scope),
         IF scope.replan
         THEN /\ status = "active" /\ d \in Reports
              /\ scope = RepairScope(plan.segments, d)
              /\ facts = WithoutDeclined(CaseFacts, d)
         ELSE /\ status = "none" /\ d = NoDecline
              /\ scope = InitialScope /\ facts = snapshot
  PROVE  Origin' /\ Grounded'
<1>1. UNCHANGED <<snapshot, host, status, plan, researched, declines>>
  BY DEF Begin, case
<1>2. Idle \in RunOf(snapshot)
  BY IdleWorks
<1>3. run'.facts = facts /\ run'.scope = scope /\ run'.decline = d
  BY <1>2 DEF Begin, RunOf
<1>4. CaseFacts' = CaseFacts
  BY <1>1 DEF CaseFacts, DeclinedBy
<1> QED
  BY <1>1, <1>3, <1>4 DEF Origin, Grounded

LEMMA StepGrounded == GroundedInv /\ [Next]_vars => GroundedInv'
<1> SUFFICES ASSUME GroundedInv, [Next]_vars PROVE Origin' /\ Grounded'
  BY StepWorks DEF GroundedInv
<1>1. /\ IsScenario(snapshot) /\ plan \in DayPlan /\ researched \in Candidates \cup {NoOne}
      /\ Origin /\ Grounded /\ Working
  BY RunType DEF GroundedInv, Working
<1>2. CASE UNCHANGED vars
  BY <1>1, <1>2 DEF Origin, Grounded, vars, CaseFacts, DeclinedBy
<1>3. CASE StartRecovery
  <2>1. CASE Hopeless(snapshot, InitialScope)
    BY <1>1, <1>3, <2>1 DEF StartRecovery, Origin, Grounded
  <2>2. CASE ~ Hopeless(snapshot, InitialScope)
    <3>1. InitialScope \in Scope /\ ~ InitialScope.replan
      BY DEF InitialScope, Scope
    <3>2. Begin(snapshot, InitialScope, NoDecline) /\ run.phase = "idle" /\ status = "none"
      BY <1>3, <2>2 DEF StartRecovery
    <3> QED
      BY <1>1, <2>2, <3>1, <3>2, BeginGrounded
  <2> QED
    BY <2>1, <2>2
<1>4. ASSUME NEW d \in Reports, ReportDecline(d)
      PROVE  Origin' /\ Grounded'
  <2> DEFINE facts == WithoutDeclined(CaseFacts, d)
             scope == RepairScope(plan.segments, d)
  <2>1. CASE Hopeless(facts, scope)
    BY <1>1, <1>4, <2>1 DEF ReportDecline, Origin, Grounded
  <2>2. CASE ~ Hopeless(facts, scope)
    <3>1. scope \in Scope /\ scope.replan /\ IsScenario(facts)
      <4>1. Listed(snapshot) \subseteq Known
        BY <1>1, InputAssumption DEF Working
      <4>2. IsScenario(facts)
        BY <1>1, <4>1, CaseScenario, DeclinedScenario
      <4> QED
        BY <1>1, <4>2, RepairScopeType DEF DayPlan, RepairScope
    <3>2. Begin(facts, scope, d) /\ run.phase = "idle" /\ status = "active"
      BY <1>4, <2>2 DEF ReportDecline
    <3> QED
      BY <1>1, <2>2, <3>1, <3>2, BeginGrounded
  <2> QED
    BY <2>1, <2>2
<1>5. CASE LocalStep \/ RemoteStep
  <2>1. Stepped
    BY <1>1, <1>5, RunSteps
  <2>2. CASE run'.phase = "idle" /\ (Raise \/ Exhaust \/ \E k, p : Adopt(k, p))
    <3>1. Grounded'
      BY <2>2 DEF Grounded
    <3>2. status = "none" => run.decline = NoDecline /\ run.scope = InitialScope
      BY <1>1, <2>1 DEF Stepped, Grounded
    <3>3. Origin'
      BY <1>1, <2>2, <3>2 DEF Origin, Raise, Exhaust, Adopt, case
    <3> QED
      BY <3>1, <3>3
  <2>3. CASE GoesOn
    <3>1. CaseFacts' = CaseFacts
      BY <2>3 DEF GoesOn, CaseFacts, DeclinedBy, case
    <3> QED
      BY <1>1, <2>1, <2>3, <3>1 DEF GoesOn, Stepped, Origin, Grounded, case
  <2>4. Idle.phase = "idle"
    BY DEF Idle
  <2> QED
    BY <2>1, <2>2, <2>3, <2>4 DEF Stepped, Raise, Exhaust, Adopt
<1> QED
  BY <1>2, <1>3, <1>4, <1>5 DEF Next

LEMMA InitGrounded == Init => GroundedInv
<1>1. Idle.phase = "idle"
  BY DEF Idle
<1> QED
  BY <1>1, InitWorks DEF Init, GroundedInv, Origin, Grounded

\* Once the service has let a run start, the research of that run finds a
\* candidate, however the model ranks them: the gate and the workflow ask the
\* same question of the same facts (research_planability.py,
\* NoPlanableResearchCandidateError is unreachable).
THEOREM GateAndResearchAgree == Spec => []GateAgreesWithResearch
<1>1. GroundedInv => GateAgreesWithResearch
  <2> SUFFICES ASSUME GroundedInv, Starting, Need(run.facts, run.scope).research
               PROVE  /\ Rankings(run.facts, run.scope) # {}
                      /\ \A r \in Rankings(run.facts, run.scope) :
                           Selected(run.facts, run.scope, r) # {}
    BY DEF GateAgreesWithResearch
  <2>1. ~ Hopeless(run.facts, run.scope)
    BY DEF GroundedInv, Grounded, Starting
  <2>2. Need(run.facts, run.scope).insufficient /\ run.facts.external
    BY DEF Need, NeedIn
  <2>3. Planable(run.facts, run.scope) # {}
    BY <2>1, <2>2 DEF Hopeless
  <2>4. Compared(run.facts, run.scope) # {}
    BY <2>3 DEF Planable
  <2> QED
    BY <2>3, <2>4, ComparedAreCandidates, RankingExists, SelectedAreRanked DEF Rankings
<1> QED
  BY <1>1, InitGrounded, StepGrounded, PTL DEF Spec

-----------------------------------------------------------------------------
(* The plan in force.                                                      *)

\* A tick of what subtraction leaves is a tick of the window and of no block.
LEMMA MinusTick ==
  ASSUME NEW v \in Window, NEW blocks \in SUBSET Window, NEW w \in Minus(v, blocks),
         NEW t \in Int, w.start <= t, t < w.end
  PROVE  v.start <= t /\ t < v.end /\ ~ Busy(blocks, t)
<1>1. w \in Window /\ Within(w, v) /\ \A b \in blocks : ~ Overlaps(w, b)
  BY Zenon DEF Minus
<1>2. /\ w.start \in Nat /\ w.end \in Nat /\ v.start \in Nat /\ v.end \in Nat
      /\ \A b \in blocks : b.start \in Nat /\ b.end \in Nat
  BY <1>1, TimeAssumption DEF Window, Time
<1>3. v.start <= t /\ t < v.end
  BY <1>1, <1>2 DEF Within
<1>4. ASSUME NEW b \in blocks, b.start <= t, t < b.end
      PROVE  FALSE
  BY <1>1, <1>2, <1>4 DEF Overlaps
<1> QED
  BY <1>3, <1>4 DEF Busy

\* A run in progress, with whatever candidate it hires, counts on nobody who
\* did not offer the time, and on nobody but candidates for time they declined.
LEMMA FactsHold ==
  ASSUME GroundedInv, run.phase # "idle", NEW k \in Candidates \cup {NoOne}
  PROVE  /\ IsScenario(Judging(k)) /\ SameFamily(snapshot, Judging(k))
         /\ \A c \in Listed(Judging(k)) : \A w \in Judging(k).free[c] :
              \A t \in w.start .. w.end - 1 :
                /\ Busy(Offered(c), t)
                /\ c \notin Candidates =>
                     /\ ~ Busy(DeclinedBy(c), t)
                     /\ run.scope.replan /\ run.decline.who = c => ~ Busy({run.decline.window}, t)
<1> DEFINE Holds(c, w) ==
             \A t \in w.start .. w.end - 1 :
               /\ Busy(Offered(c), t)
               /\ c \notin Candidates =>
                    /\ ~ Busy(DeclinedBy(c), t)
                    /\ run.scope.replan /\ run.decline.who = c => ~ Busy({run.decline.window}, t)
<1>1. /\ IsScenario(snapshot) /\ researched \in Candidates \cup {NoOne}
      /\ declines \subseteq Declined /\ Listed(snapshot) \subseteq Known /\ IsScenario(run.facts)
  BY RunType, InputAssumption DEF GroundedInv, Working
<1>2. \A c : DeclinedBy(c) \in SUBSET Window
  BY <1>1 DEF DeclinedBy, Declined
<1>3. \A w \in Window : w.start \in Int /\ w.end \in Int
  BY TimeAssumption DEF Window, Time
<1>4. /\ SameFamily(snapshot, run.facts)
      /\ \A c \in Listed(run.facts) : \A w \in run.facts.free[c] : Holds(c, w)
  <2>1. CASE run.scope.replan
    <3>1. run.decline \in Declined /\ run.facts = WithoutDeclined(CaseFacts, run.decline)
      BY <2>1, InputAssumption DEF GroundedInv, Grounded
    <3>2. /\ IsScenario(CaseFacts) /\ SameFamily(snapshot, CaseFacts)
          /\ \A c \in Listed(CaseFacts) :
               /\ Offered(c) \subseteq Window
               /\ \A w \in CaseFacts.free[c] : \E v \in Offered(c) : w \in Minus(v, DeclinedBy(c))
      BY <1>1, CaseScenario
    <3>3. /\ SameFamily(CaseFacts, run.facts) /\ Listed(run.facts) = Listed(CaseFacts)
          /\ \A c \in Listed(CaseFacts) :
               c # run.decline.who => run.facts.free[c] = CaseFacts.free[c]
          /\ \A c \in Listed(CaseFacts) : c = run.decline.who =>
               \A w \in run.facts.free[c] : \E u \in CaseFacts.free[c] :
                 w \in Minus(u, {run.decline.window})
      <4>1. Less(CaseFacts, run.decline, run.facts)
        BY <3>1, <3>2, DeclinedScenario
      <4> QED
        BY <4>1 DEF Less
    <3>4. ASSUME NEW c \in Listed(run.facts), NEW w \in run.facts.free[c],
                 NEW t \in w.start .. w.end - 1
          PROVE  /\ Busy(Offered(c), t) /\ ~ Busy(DeclinedBy(c), t)
                 /\ run.decline.who = c => ~ Busy({run.decline.window}, t)
      <4>1. w \in Window
        BY <1>1, ScenarioFields
      <4>2. t \in Int /\ w.start <= t /\ t < w.end
        BY <1>3, <4>1
      <4>3. PICK u \in CaseFacts.free[c] :
              /\ u \in Window /\ u.start <= t /\ t < u.end
              /\ run.decline.who = c => ~ Busy({run.decline.window}, t)
        <5>1. CaseFacts.free[c] \subseteq Window /\ {run.decline.window} \in SUBSET Window
          BY <3>1, <3>2, <3>3, ScenarioFields DEF Declined
        <5>2. CASE c = run.decline.who
          <6>1. PICK u \in CaseFacts.free[c] : w \in Minus(u, {run.decline.window})
            BY <3>3, <5>2
          <6> QED
            BY <4>2, <5>1, <6>1, MinusTick
        <5>3. CASE c # run.decline.who
          BY <3>3, <4>1, <4>2, <5>3
        <5> QED
          BY <5>2, <5>3
      <4>4. PICK v \in Offered(c) : v \in Window /\ u \in Minus(v, DeclinedBy(c))
        BY <3>2, <3>3
      <4>5. v.start <= t /\ t < v.end /\ ~ Busy(DeclinedBy(c), t)
        BY <1>2, <4>2, <4>3, <4>4, MinusTick
      <4> QED
        BY <4>3, <4>4, <4>5 DEF Busy
    <3> QED
      BY <3>2, <3>3, <3>4 DEF SameFamily
  <2>2. CASE ~ run.scope.replan
    <3>1. run.facts = snapshot /\ declines = {}
      BY <2>2 DEF GroundedInv, Grounded, Origin
    <3>2. \A c \in Listed(snapshot) : Offered(c) = snapshot.free[c]
      BY <1>1, PersonAssumption DEF Offered
    <3>3. \A c, t : ~ Busy(DeclinedBy(c), t)
      BY <3>1 DEF Busy, DeclinedBy
    <3>4. ASSUME NEW c \in Listed(snapshot), NEW w \in snapshot.free[c],
                 NEW t \in w.start .. w.end - 1
          PROVE  Busy(Offered(c), t)
      <4>1. w \in Window
        BY <1>1, ScenarioFields
      <4> QED
        BY <1>3, <3>2, <4>1 DEF Busy
    <3> QED
      BY <2>2, <3>1, <3>3, <3>4 DEF SameFamily
  <2> QED
    BY <2>1, <2>2
<1> HIDE DEF Holds
<1>5. CASE k = NoOne
  BY <1>1, <1>4, <1>5 DEF Judging, Holds
<1>6. CASE k # NoOne
  <2>1. /\ IsScenario(Judging(k)) /\ SameFamily(run.facts, Judging(k))
        /\ Listed(Judging(k)) = Listed(run.facts) \cup {k}
        /\ Judging(k).free[k] = Offer[k]
        /\ \A c \in Listed(run.facts) \ {k} : Judging(k).free[c] = run.facts.free[c]
    BY <1>1, <1>6, ResearchedScenario DEF Judging
  <2>2. ASSUME NEW c \in Listed(Judging(k)), NEW w \in Judging(k).free[c]
        PROVE  Holds(c, w)
    <3>1. CASE c = k
      <4>1. w \in Offered(k) /\ w \in Window /\ k \in Candidates
        BY <1>6, <2>1, <2>2, <3>1, OfferAssumption DEF Offered
      <4> QED
        BY <1>3, <3>1, <4>1 DEF Holds, Busy
    <3>2. CASE c # k
      BY <1>4, <2>1, <2>2, <3>2
    <3> QED
      BY <3>1, <3>2
  <2>3. SameFamily(snapshot, Judging(k))
    BY <1>4, <2>1 DEF SameFamily
  <2> QED
    BY <2>1, <2>2, <2>3 DEF Holds
<1> QED
  BY <1>5, <1>6

\* Nobody waits for anybody when there are no buffers; trips start or end at
\* home.
Punctual(S, s) ==
  /\ Unbuffered(s) => \A g \in S, h \in S : Adjacent(S, g, h) => h.window.start = g.window.end
  /\ \A g \in S : g.kind = "TRANSPORT" => g.from # g.to /\ Home \in {g.from, g.to}

\* A valid plan is a chain of segments.
LEMMA ValidIsRelay ==
  ASSUME NEW s, IsScenario(s), NEW p \in DayPlan, Valid(s, p)
  PROVE  Relay(p.segments) /\ Punctual(p.segments, s)
<1>1. /\ CoverageOk(s, p.segments) /\ \A g \in p.segments : PlaceOk(s, g)
      /\ p.segments \in SUBSET Segment
  BY DEF Valid, SegmentOk, DayPlan
<1>2. ASSUME NEW g \in p.segments, NEW h \in p.segments, Adjacent(p.segments, g, h)
      PROVE  /\ h.window.start <= g.window.end /\ g.to = h.from
             /\ Unbuffered(s) => h.window.start = g.window.end
  <2>1. HandoffOk(s, g, h) /\ g.to = h.from
    BY <1>1, <1>2 DEF CoverageOk
  <2>2. /\ g.window.end \in Nat /\ h.window.start \in Nat
    BY <1>1, SegmentWindow
  <2>3. CASE g.who = h.who
    BY <2>1, <2>2, <2>3 DEF HandoffOk
  <2>4. CASE g.who # h.who
    <3> DEFINE b == IF h.who \in Listed(s) THEN Buffer[h.who] ELSE 0
    <3>1. s.handoff \in Nat /\ b \in Nat /\ (Unbuffered(s) => s.handoff = 0 /\ b = 0)
      BY ScenarioFields, PlaceAssumption DEF Unbuffered
    <3>2. g.window.end - h.window.start = Max({s.handoff, b})
      BY <2>1, <2>4 DEF HandoffOk
    <3> HIDE DEF b
    <3>3. Max({s.handoff, b}) = IF s.handoff <= b THEN b ELSE s.handoff
      BY <3>1, MaxOfTwo
    <3> QED
      BY <2>1, <2>2, <3>1, <3>2, <3>3
  <2> QED
    BY <2>3, <2>4
<1>3. Relay(p.segments)
  BY <1>1, <1>2 DEF CoverageOk, Relay
<1>4. \A g \in p.segments : g.kind = "TRANSPORT" => g.from # g.to /\ Home \in {g.from, g.to}
  BY <1>1 DEF PlaceOk
<1> QED
  BY <1>2, <1>3, <1>4 DEF Punctual

\* The caregiver offered tick t and, unless they are a candidate, declined it
\* neither earlier nor now.
CountsOn(c, t) ==
  /\ Busy(Offered(c), t)
  /\ c \notin Candidates =>
       /\ ~ Busy(DeclinedBy(c), t)
       /\ run.scope.replan /\ run.decline.who = c => ~ Busy({run.decline.window}, t)

\* A window of the facts that contains a segment is one to count on.
LEMMA WindowStaffs ==
  ASSUME GroundedInv, run.phase # "idle", NEW k \in Candidates \cup {NoOne},
         NEW c \in Listed(Judging(k)), NEW w \in Judging(k).free[c],
         NEW g \in Segment, Within(g.window, w), NEW t \in Ticks(g)
  PROVE  CountsOn(c, t)
<1>1. /\ IsScenario(Judging(k))
      /\ \A x \in w.start .. w.end - 1 :
           /\ Busy(Offered(c), x)
           /\ c \notin Candidates =>
                /\ ~ Busy(DeclinedBy(c), x)
                /\ run.scope.replan /\ run.decline.who = c => ~ Busy({run.decline.window}, x)
  BY FactsHold
<1>2. w \in Window
  BY <1>1, ScenarioFields
<1>3. w.start \in Int /\ w.end \in Int
  BY <1>2, TimeAssumption DEF Window, Time
<1>4. /\ g.window.start \in Nat /\ g.window.end \in Nat /\ t \in Int
      /\ g.window.start <= t /\ t < g.window.end
  BY SegmentWindow DEF Ticks
<1>5. t \in w.start .. w.end - 1
  BY <1>3, <1>4 DEF Within
<1> QED
  BY <1>1, <1>5 DEF CountsOn

\* Nobody is busy during a segment that overlaps none of their events.
LEMMA FreeOfEvents ==
  ASSUME NEW g \in Segment, NEW t \in Ticks(g), NEW events \in SUBSET Window,
         \A e \in events : ~ Overlaps(g.window, e)
  PROVE  ~ Busy(events, t)
<1>1. /\ g.window.start \in Nat /\ g.window.end \in Nat /\ t \in Int
      /\ g.window.start <= t /\ t < g.window.end
  BY SegmentWindow DEF Ticks
<1>2. \A w \in Window : w.start \in Int /\ w.end \in Int
  BY TimeAssumption DEF Window, Time
<1> QED
  BY <1>1, <1>2 DEF Overlaps, Busy

\* The person a valid plan puts in charge can be there, tick by tick.
LEMMA ValidIsStaffed ==
  ASSUME GroundedInv, run.phase # "idle", NEW k \in Candidates \cup {NoOne},
         NEW p \in DayPlan, Valid(Judging(k), p),
         NEW g \in p.segments, NEW t \in Ticks(g)
  PROVE  /\ g.who \in Parents =>
              /\ ~ Busy(snapshot.fixed[g.who], t)
              /\ p.moves \/ ~ Busy(snapshot.movable[g.who], t)
         /\ g.who \notin Parents =>
              /\ g.who \notin snapshot.out
              /\ g.who \in External => snapshot.external
              /\ snapshot.trustedOnly => g.who \in Trusted
              /\ CountsOn(g.who, t)
<1>1. IsScenario(Judging(k)) /\ SameFamily(snapshot, Judging(k))
  BY FactsHold
<1>2. AssignmentOk(Judging(k), g) /\ CalendarOk(Judging(k), g, p.moves) /\ g \in Segment
  BY DEF Valid, SegmentOk, DayPlan
<1>3. ASSUME g.who \in Parents
      PROVE  /\ ~ Busy(snapshot.fixed[g.who], t)
             /\ p.moves \/ ~ Busy(snapshot.movable[g.who], t)
  <2>1. /\ Judging(k).fixed[g.who] \in SUBSET Window
        /\ Judging(k).movable[g.who] \in SUBSET Window
    BY <1>1, <1>3, ScenarioFields DEF Calendars
  <2>2. /\ \A e \in Judging(k).fixed[g.who] : ~ Overlaps(g.window, e)
        /\ p.moves \/ \A e \in Judging(k).movable[g.who] : ~ Overlaps(g.window, e)
    BY <1>2, <1>3 DEF CalendarOk
  <2>3. snapshot.fixed = Judging(k).fixed /\ snapshot.movable = Judging(k).movable
    BY <1>1 DEF SameFamily
  <2> QED
    BY <1>2, <2>1, <2>2, <2>3, FreeOfEvents
<1>4. ASSUME g.who \notin Parents
      PROVE  /\ g.who \notin snapshot.out
             /\ g.who \in External => snapshot.external
             /\ snapshot.trustedOnly => g.who \in Trusted
             /\ CountsOn(g.who, t)
  <2>1. /\ g.who \in Listed(Judging(k)) \ Judging(k).out
        /\ g.who \in External => Judging(k).external
        /\ Judging(k).trustedOnly => g.who \in Trusted
    BY <1>2, <1>4 DEF AssignmentOk
  <2>2. PICK w \in Judging(k).free[g.who] : Within(g.window, w)
    BY <1>2, <1>4 DEF AssignmentOk
  <2>3. CountsOn(g.who, t)
    BY <1>2, <2>1, <2>2, WindowStaffs
  <2>4. /\ snapshot.out = Judging(k).out /\ snapshot.external = Judging(k).external
        /\ snapshot.trustedOnly = Judging(k).trustedOnly
    BY <1>1 DEF SameFamily
  <2> QED
    BY <2>1, <2>3, <2>4
<1> QED
  BY <1>3, <1>4

\* The person a valid plan lets drive is able and free to, tick by tick.
LEMMA ValidIsDriven ==
  ASSUME GroundedInv, run.phase # "idle", NEW k \in Candidates \cup {NoOne},
         NEW p \in DayPlan, Valid(Judging(k), p),
         NEW g \in p.segments, g.kind = "TRANSPORT", NEW t \in Ticks(g)
  PROVE  /\ g.by \in Parents =>
              /\ Busy(snapshot.drives[g.by], t)
              /\ ~ Busy(snapshot.fixed[g.by], t)
         /\ g.by \notin Parents =>
              /\ g.by \in Drivers
              /\ g.by \in External => snapshot.external /\ snapshot.providerTrips
              /\ CountsOn(g.by, t)
<1>1. IsScenario(Judging(k)) /\ SameFamily(snapshot, Judging(k))
  BY FactsHold
<1>2. TransporterOk(Judging(k), g) /\ g \in Segment
  BY DEF Valid, SegmentOk, PlaceOk, DayPlan
<1>3. /\ g.window.start \in Nat /\ g.window.end \in Nat /\ t \in Int
      /\ g.window.start <= t /\ t < g.window.end
  BY <1>2, SegmentWindow DEF Ticks
<1>4. ASSUME g.by \in Parents
      PROVE  Busy(snapshot.drives[g.by], t) /\ ~ Busy(snapshot.fixed[g.by], t)
  <2>1. /\ Judging(k).fixed[g.by] \in SUBSET Window
        /\ Judging(k).drives[g.by] \in SUBSET Window
    BY <1>1, <1>4, ScenarioFields DEF Calendars
  <2>2. /\ \A e \in Judging(k).fixed[g.by] : ~ Overlaps(g.window, e)
        /\ \E w \in Judging(k).drives[g.by] : Within(g.window, w)
    BY <1>2, <1>4 DEF TransporterOk
  <2>3. snapshot.fixed = Judging(k).fixed /\ snapshot.drives = Judging(k).drives
    BY <1>1 DEF SameFamily
  <2>4. \A w \in Window : w.start \in Int /\ w.end \in Int
    BY TimeAssumption DEF Window, Time
  <2>5. Busy(snapshot.drives[g.by], t)
    BY <1>3, <2>1, <2>2, <2>3, <2>4 DEF Busy, Within
  <2> QED
    BY <1>2, <2>1, <2>2, <2>3, <2>5, FreeOfEvents
<1>5. ASSUME g.by \notin Parents
      PROVE  /\ g.by \in Drivers
             /\ g.by \in External => snapshot.external /\ snapshot.providerTrips
             /\ CountsOn(g.by, t)
  <2>1. /\ g.by \in Listed(Judging(k)) \cap Drivers
        /\ g.by \in External => Judging(k).providerTrips /\ Judging(k).external
    BY <1>2, <1>5 DEF TransporterOk
  <2>2. PICK w \in Judging(k).free[g.by] : Within(g.window, w)
    BY <1>2, <1>5 DEF TransporterOk
  <2>3. CountsOn(g.by, t)
    BY <1>2, <2>1, <2>2, WindowStaffs
  <2>4. /\ snapshot.external = Judging(k).external
        /\ snapshot.providerTrips = Judging(k).providerTrips
    BY <1>1 DEF SameFamily
  <2> QED
    BY <2>1, <2>3, <2>4
<1> QED
  BY <1>4, <1>5

\* The plan in force is a safe day: the segments hand over to each other, which
\* is why no tick of the day is without one.
DayInv ==
  /\ GroundedInv
  /\ AdoptedDaysAreSafe
  /\ status = "active" => Relay(plan.segments) /\ Punctual(plan.segments, snapshot)

\* A plan that is adopted is one.
LEMMA AdoptedIsSafe ==
  ASSUME GroundedInv, run.phase # "idle", NEW k \in Candidates \cup {NoOne},
         NEW p \in DayPlan, Accepts(k, p), Adopt(k, p)
  PROVE  /\ AdoptedDaysAreSafe'
         /\ Relay(p.segments) /\ Punctual(p.segments, snapshot)
<1>1. /\ plan' = p /\ snapshot' = snapshot /\ p.segments \in SUBSET Segment
      /\ declines' = declines \cup ({run.decline} \ {NoDecline})
  BY DEF Adopt, DayPlan
<1>2. /\ Valid(Judging(k), p) /\ IsScenario(Judging(k)) /\ SameFamily(snapshot, Judging(k))
  BY FactsHold DEF Accepts, ValidRepair
<1>3. Relay(p.segments) /\ Punctual(p.segments, Judging(k))
  BY <1>2, ValidIsRelay
<1>4. Punctual(p.segments, snapshot)
  BY <1>2, <1>3 DEF Punctual, Unbuffered, SameFamily
<1>5. ASSUME NEW c, NEW t, CountsOn(c, t)
      PROVE  Offers(c, t)'
  <2>1. CASE c \in Candidates
    BY <1>5, <2>1 DEF CountsOn, Offers, Offered
  <2>2. CASE c \notin Candidates
    <3>1. /\ Busy(snapshot.free[c], t) /\ ~ Busy(DeclinedBy(c), t)
          /\ run.scope.replan /\ run.decline.who = c => ~ Busy({run.decline.window}, t)
      BY <1>5, <2>2 DEF CountsOn, Offered
    <3>2. ~ run.scope.replan => run.decline = NoDecline
      BY DEF GroundedInv, Grounded
    <3>3. ~ Busy(DeclinedBy(c), t)'
      BY <1>1, <3>1, <3>2 DEF Busy, DeclinedBy
    <3> QED
      BY <1>1, <2>2, <3>1, <3>3 DEF Offers
  <2> QED
    BY <2>1, <2>2
<1>6. ASSUME NEW g \in p.segments, NEW t \in Ticks(g)
      PROVE  Present(g.who, t)'
  <2>1. CASE g.who \in Parents
    BY <1>1, <1>2, <2>1, ValidIsStaffed DEF Present
  <2>2. CASE g.who \notin Parents
    <3>1. /\ g.who \notin snapshot.out
          /\ g.who \in External => snapshot.external
          /\ snapshot.trustedOnly => g.who \in Trusted
          /\ CountsOn(g.who, t)
      BY <1>2, <2>2, ValidIsStaffed
    <3>2. Offers(g.who, t)'
      BY <1>5, <3>1
    <3> QED
      BY <1>1, <2>2, <3>1, <3>2 DEF Present
  <2> QED
    BY <2>1, <2>2
<1>7. ASSUME NEW g \in p.segments, g.kind = "TRANSPORT", NEW t \in Ticks(g)
      PROVE  CanDrive(g.by, t)'
  <2>1. CASE g.by \in Parents
    BY <1>1, <1>2, <1>7, <2>1, ValidIsDriven DEF CanDrive
  <2>2. CASE g.by \notin Parents
    <3>1. /\ g.by \in Drivers
          /\ g.by \in External => snapshot.external /\ snapshot.providerTrips
          /\ CountsOn(g.by, t)
      BY <1>2, <1>7, <2>2, ValidIsDriven
    <3>2. Offers(g.by, t)'
      BY <1>5, <3>1
    <3> QED
      BY <1>1, <2>2, <3>1, <3>2 DEF CanDrive
  <2> QED
    BY <2>1, <2>2
<1>8. \A t \in Required.start .. Required.end - 1 : \E g \in p.segments : t \in Ticks(g)
  BY <1>1, <1>3, RelayCovers
<1>9. \A g \in p.segments, h \in p.segments : Adjacent(p.segments, g, h) => g.to = h.from
  BY <1>3 DEF Relay
<1> QED
  BY <1>1, <1>3, <1>4, <1>6, <1>7, <1>8, <1>9 DEF AdoptedDaysAreSafe

\* Every step leaves the plan in force a safe day.
LEMMA StepDay == DayInv /\ [Next]_vars => DayInv'
<1> SUFFICES ASSUME DayInv, [Next]_vars PROVE DayInv'
  OBVIOUS
<1>1. GroundedInv'
  BY StepGrounded DEF DayInv
<1>2. CASE UNCHANGED case
  <2>1. /\ plan' = plan /\ snapshot' = snapshot /\ declines' = declines /\ status' = status
    BY <1>2 DEF case
  <2>2. \A c, t : Offers(c, t)' <=> Offers(c, t)
    BY <2>1 DEF Offers, DeclinedBy
  <2>3. \A c, t : (Present(c, t)' <=> Present(c, t)) /\ (CanDrive(c, t)' <=> CanDrive(c, t))
    BY <2>1, <2>2 DEF Present, CanDrive
  <2>4. AdoptedDaysAreSafe'
    BY <2>1, <2>3, Zenon DEF DayInv, AdoptedDaysAreSafe
  <2> QED
    BY <1>1, <2>1, <2>4 DEF DayInv
<1>3. CASE status' # "active"
  BY <1>1, <1>3 DEF DayInv, AdoptedDaysAreSafe
<1>4. CASE StartRecovery \/ \E d \in Reports : ReportDecline(d)
  BY <1>2, <1>3, <1>4 DEF StartRecovery, ReportDecline, Begin
<1>5. CASE LocalStep \/ RemoteStep
  <2>1. Stepped
    BY <1>5, RunSteps DEF DayInv, GroundedInv
  <2>2. CASE Raise \/ GoesOn
    BY <1>2, <2>2 DEF Raise, GoesOn
  <2>3. CASE Exhaust
    <3>1. ~ run.scope.replan => status = "none"
      BY <2>1 DEF DayInv, GroundedInv, Grounded, Stepped
    <3> QED
      BY <1>3, <2>3, <3>1 DEF Exhaust
  <2>4. ASSUME NEW k \in Candidates \cup {NoOne}, NEW p \in DayPlan, Accepts(k, p), Adopt(k, p)
        PROVE  DayInv'
    <3>1. AdoptedDaysAreSafe' /\ Relay(p.segments) /\ Punctual(p.segments, snapshot)
      BY <2>1, <2>4, AdoptedIsSafe DEF DayInv, Stepped
    <3>2. plan' = p /\ snapshot' = snapshot
      BY <2>4 DEF Adopt
    <3> QED
      BY <1>1, <3>1, <3>2 DEF DayInv
  <2> QED
    BY <2>1, <2>2, <2>3, <2>4 DEF Stepped
<1> QED
  BY <1>2, <1>4, <1>5 DEF Next, vars, case

LEMMA InitDay == Init => DayInv
BY InitGrounded DEF Init, DayInv, AdoptedDaysAreSafe

\* Somebody who is trusted as the family demands and can be there is always in
\* charge of the child, whoever drives it is able and free to, and it never
\* changes place without a trip: whatever was proposed, rejected or retried,
\* declined or hired on the way to the plan in force (plan_validator.py).
\* Whether a driver is trusted or out that day is not asked of plans.
THEOREM AdoptedPlansAreSafe == Spec => []AdoptedDaysAreSafe
<1>1. DayInv => AdoptedDaysAreSafe
  BY DEF DayInv
<1> QED
  BY <1>1, InitDay, StepDay, PTL DEF Spec

-----------------------------------------------------------------------------
(* What a replacement keeps.                                               *)

\* Two windows that overlap have a tick in common.
LEMMA OverlapTick ==
  ASSUME NEW g \in Segment, NEW w \in Window, Overlaps(g.window, w)
  PROVE  \E t \in Ticks(g) : Busy({w}, t)
<1>1. /\ g.window.start \in Nat /\ g.window.end \in Nat /\ g.window.start < g.window.end
      /\ w.start \in Nat /\ w.end \in Nat /\ w.start < w.end
  BY SegmentWindow, TimeAssumption DEF Window, Time
<1>2. CASE g.window.start <= w.start
  BY <1>1, <1>2 DEF Overlaps, Ticks, Busy
<1>3. CASE w.start < g.window.start
  BY <1>1, <1>3 DEF Overlaps, Ticks, Busy
<1> QED
  BY <1>1, <1>2, <1>3

\* What a decline breaks it touches.
LEMMA ImpactedIsTouched ==
  ASSUME NEW S \in SUBSET Segment, NEW d \in Declined, NEW g \in Impacted(S, d)
  PROVE  g \in S /\ Touched(g, d)
<1>1. CASE g \in DirectlyHit(S, d)
  <2>1. g \in S /\ g.who = d.who /\ Overlaps(g.window, d.window)
    BY <1>1 DEF DirectlyHit
  <2>2. d.window \in Window
    BY DEF Declined
  <2> QED
    BY <2>1, <2>2, OverlapTick DEF Touched
<1>2. CASE g \in ConnectedHandoffs(S, d, DirectlyHit(S, d))
  BY <1>2 DEF ConnectedHandoffs, Touched
<1> QED
  BY <1>1, <1>2 DEF Impacted

\* A kept segment is somewhere in a plan it survives in, tick by tick.
LEMMA SurvivesTicks ==
  ASSUME NEW p \in DayPlan, NEW g \in Segment, Survives(g, p), NEW t \in Ticks(g)
  PROVE  \E h \in p.segments :
           t \in Ticks(h) /\ h.who = g.who /\ h.by = g.by /\ h.from = g.from /\ h.to = g.to
<1>1. PICK h \in p.segments : Within(g.window, h.window) /\ [h EXCEPT !.window = g.window] = g
  BY DEF Survives
<1>2. h \in Segment
  BY DEF DayPlan
<1>3. h.who = g.who /\ h.by = g.by /\ h.from = g.from /\ h.to = g.to
  BY <1>1, <1>2 DEF Segment
<1>4. t \in Ticks(h)
  <2>1. /\ g.window.start \in Nat /\ g.window.end \in Nat
        /\ h.window.start \in Nat /\ h.window.end \in Nat
    BY <1>2, SegmentWindow
  <2> QED
    BY <1>1, <2>1 DEF Within, Ticks
<1> QED
  BY <1>3, <1>4

\* A replacement leaves alone what the decline did not touch: whoever had the
\* child at a tick still has, at the same place, whatever was proposed
\* (plan_invalidation.py; plan_validator.py, validate_repair).
THEOREM UntouchedWorkStays == Spec => OnlyTouchedWorkChanges
<1> DEFINE Kept ==
      run.phase # "idle" /\ run.scope.replan /\ status' = "active" /\ run'.phase = "idle"
        /\ declines' # declines
      => \A g \in plan.segments :
           ~ Touched(g, run.decline) =>
             \A t \in Ticks(g) : \E h \in plan'.segments :
               /\ t \in Ticks(h) /\ h.who = g.who /\ h.by = g.by
               /\ h.from = g.from /\ h.to = g.to
<1>1. GroundedInv /\ [Next]_vars => [Kept]_vars
  <2> SUFFICES ASSUME GroundedInv, Next, run.phase # "idle", run.scope.replan,
                      status' = "active", run'.phase = "idle", declines' # declines,
                      NEW g \in plan.segments, ~ Touched(g, run.decline), NEW t \in Ticks(g)
               PROVE  \E h \in plan'.segments :
                        t \in Ticks(h) /\ h.who = g.who /\ h.by = g.by /\ h.from = g.from /\ h.to = g.to
    OBVIOUS
  <2>1. LocalStep \/ RemoteStep
    BY DEF Next, StartRecovery, ReportDecline
  <2>2. Stepped
    BY <2>1, RunSteps DEF GroundedInv
  <2>3. PICK k \in Candidates \cup {NoOne}, p \in DayPlan : Accepts(k, p) /\ Adopt(k, p)
    BY <2>2 DEF Stepped, Raise, Exhaust, GoesOn, case
  <2>4. /\ run.decline \in Declined /\ run.scope = RepairScope(plan.segments, run.decline)
        /\ plan.segments \in SUBSET Segment
    BY RunType, InputAssumption DEF GroundedInv, Working, Grounded, DayPlan
  <2>5. g \notin Impacted(plan.segments, run.decline)
    BY <2>4, ImpactedIsTouched
  <2>6. g \in run.scope.kept
    BY <2>4, <2>5 DEF RepairScope
  <2>7. Survives(g, p) /\ plan' = p
    BY <2>3, <2>6 DEF Accepts, ValidRepair, Adopt
  <2> QED
    BY <2>3, <2>4, <2>7, SurvivesTicks
<1> QED
  BY <1>1, InitGrounded, StepGrounded, PTL DEF Spec, OnlyTouchedWorkChanges

\* A segment has one next and one previous segment at most.
LEMMA NeighboursAreUnique ==
  ASSUME NEW S \in SUBSET Segment, Relay(S), NEW g \in S, NEW h \in S, NEW k \in S
  PROVE  /\ Adjacent(S, g, h) /\ Adjacent(S, k, h) => g = k
         /\ Adjacent(S, h, g) /\ Adjacent(S, h, k) => g = k
<1>1. \A a \in S, b \in S : ~ Before(a, b) /\ ~ Before(b, a) => a = b
  <2>1. \A a \in S, b \in S : ~ Before(a, b) /\ ~ Before(b, a) => a.window = b.window
    BY BeforeIsOrder
  <2> QED
    BY <2>1 DEF Relay
<1> QED
  BY <1>1 DEF Adjacent

\* In a chain without buffers, what follows or precedes a trip that is kept is
\* kept as well, at the end that is at the decliner's.
LEMMA TripsMeetCare ==
  ASSUME NEW S \in SUBSET Segment, Relay(S), Punctual(S, snapshot), Unbuffered(snapshot),
         NEW d, At[d.who] # Home, NEW g \in S, g.kind = "TRANSPORT", g \notin Impacted(S, d)
  PROVE  /\ g.to = At[d.who] /\ g.window.end # Required.end =>
              \E h \in S : h \notin Impacted(S, d) /\ h.window.start = g.window.end /\ h.from = g.to
         /\ g.from = At[d.who] /\ g.window.start # Required.start =>
              \E h \in S : h \notin Impacted(S, d) /\ h.window.end = g.window.start /\ h.to = g.from
<1> DEFINE hit == DirectlyHit(S, d)
<1>1. g \notin ConnectedHandoffs(S, d, hit)
  BY DEF Impacted
<1>2. \A k \in hit : k \in S /\ k.kind = "CARE"
  BY DEF DirectlyHit
<1> HIDE DEF hit
<1>3. ASSUME g.to = At[d.who], g.window.end # Required.end
      PROVE  \E h \in S : h \notin Impacted(S, d) /\ h.window.start = g.window.end /\ h.from = g.to
  <2>1. PICK k \in S : Before(g, k)
    BY <1>3 DEF Relay
  <2>2. PICK h \in S : Adjacent(S, g, h)
    BY <2>1, NextExists
  <2>3. h.window.start = g.window.end /\ g.to = h.from
    BY <2>2 DEF Relay, Punctual
  <2>4. h \notin hit
    BY <1>1, <1>3, <2>2, <2>3 DEF ConnectedHandoffs
  <2>5. ASSUME h \in ConnectedHandoffs(S, d, hit) PROVE FALSE
    <3>1. h.kind = "TRANSPORT" /\ h.to # At[d.who]
      BY <1>3, <2>3, <2>5 DEF ConnectedHandoffs, Punctual
    <3>2. PICK j \in hit : Adjacent(S, j, h)
      BY <2>5, <3>1 DEF ConnectedHandoffs
    <3>3. j = g
      BY <1>2, <2>2, <3>2, NeighboursAreUnique
    <3> QED
      BY <1>2, <3>2, <3>3
  <2>6. h \notin Impacted(S, d)
    BY <2>4, <2>5 DEF Impacted, hit
  <2> QED
    BY <2>3, <2>6
<1>4. ASSUME g.from = At[d.who], g.window.start # Required.start
      PROVE  \E h \in S : h \notin Impacted(S, d) /\ h.window.end = g.window.start /\ h.to = g.from
  <2>1. PICK k \in S : Before(k, g)
    BY <1>4 DEF Relay
  <2>2. PICK h \in S : Adjacent(S, h, g)
    BY <2>1, PreviousExists
  <2>3. h.window.end = g.window.start /\ h.to = g.from
    BY <2>2 DEF Relay, Punctual
  <2>4. h \notin hit
    BY <1>1, <1>4, <2>2, <2>3 DEF ConnectedHandoffs
  <2>5. ASSUME h \in ConnectedHandoffs(S, d, hit) PROVE FALSE
    <3>1. h.kind = "TRANSPORT" /\ h.from # At[d.who]
      BY <1>4, <2>3, <2>5 DEF ConnectedHandoffs, Punctual
    <3>2. PICK j \in hit : Adjacent(S, h, j)
      BY <2>5, <3>1 DEF ConnectedHandoffs
    <3>3. j = g
      BY <1>2, <2>2, <3>2, NeighboursAreUnique
    <3> QED
      BY <1>2, <3>2, <3>3
  <2>6. h \notin Impacted(S, d)
    BY <2>4, <2>5 DEF Impacted, hit
  <2> QED
    BY <2>3, <2>6
<1> QED
  BY <1>3, <1>4

\* Whoever may decline next, nobody is left to bring the child to them or to
\* fetch it there (plan_invalidation.py, the connected handoffs): the plan in
\* force is a chain of segments, so the neighbour of a trip at the decliner's
\* place is the care that meets it, and both are broken or both are kept.
THEOREM KeptTripsMeetCare == Spec => []PreservedTripsMeetCare
<1>1. DayInv => PreservedTripsMeetCare
  <2> SUFFICES ASSUME DayInv, NEW d \in Reports, status = "active", Unbuffered(snapshot),
                      At[d.who] # Home, NEW g \in RepairScope(plan.segments, d).kept,
                      g.kind = "TRANSPORT"
               PROVE  /\ g.to = At[d.who] /\ g.window.end # Required.end =>
                           \E h \in RepairScope(plan.segments, d).kept :
                             h.window.start = g.window.end /\ h.from = g.to
                      /\ g.from = At[d.who] /\ g.window.start # Required.start =>
                           \E h \in RepairScope(plan.segments, d).kept :
                             h.window.end = g.window.start /\ h.to = g.from
    BY DEF PreservedTripsMeetCare
  <2>1. RepairScope(plan.segments, d).kept = plan.segments \ Impacted(plan.segments, d)
    BY DEF RepairScope
  <2>2. /\ plan.segments \in SUBSET Segment
        /\ Relay(plan.segments) /\ Punctual(plan.segments, snapshot)
    BY RunType DEF DayInv, GroundedInv, Working, DayPlan
  <2>3. g \in plan.segments /\ g \notin Impacted(plan.segments, d)
    BY <2>1
  <2> QED
    BY <2>1, <2>2, <2>3, TripsMeetCare
<1> QED
  BY <1>1, InitDay, StepDay, PTL DEF Spec

-----------------------------------------------------------------------------
(* The abstract run.                                                       *)

\* One step of the abstract run, in the terms of this one
LEMMA StepPromised ==
  ASSUME DayInv, DayInv', Next
  PROVE  \/ Promise!Next
         \/ UNCHANGED <<plan, run.phase # "idle", run.judged, run.reasonings>>
<1>1. /\ run.judged \in 0 .. 2 /\ run.reasonings \in 0 .. 5
      /\ run'.judged \in 0 .. 2 /\ run'.reasonings \in 0 .. 5
  <2>1. run \in RunOf(run.facts) /\ run' \in RunOf(run'.facts)
    BY RunType DEF DayInv, GroundedInv, Working
  <2> QED
    BY <2>1 DEF RunOf
<1>2. /\ IsScenario(snapshot)
      /\ Idle.phase = "idle" /\ Idle.judged = 0 /\ Idle.reasonings = 0
  BY RunType, IdleWorks DEF DayInv, GroundedInv, Working
<1>3. MAX_PLAN_ATTEMPTS = 3 /\ MAX_PLAN_ATTEMPTS * TRANSPORT_ATTEMPTS = 6
  BY DEF MAX_PLAN_ATTEMPTS, TRANSPORT_ATTEMPTS
<1>4. ASSUME NEW facts, NEW scope, NEW d, run.phase = "idle", Begin(facts, scope, d)
      PROVE  Promise!Next
  <2>1. run'.phase \in {"send", "brief"} /\ run'.judged = 0 /\ run'.reasonings = 0
    BY <1>4 DEF Begin, Idle
  <2>2. plan' = plan
    BY <1>4 DEF Begin, case
  <2> QED
    BY <1>4, <2>1, <2>2 DEF Promise!Next, Promise!Begin
<1>5. CASE StartRecovery \/ \E d \in Reports : ReportDecline(d)
  BY <1>4, <1>5 DEF StartRecovery, ReportDecline
<1>6. CASE LocalStep \/ RemoteStep
  <2>1. Stepped
    BY <1>6, RunSteps DEF DayInv, GroundedInv
  <2>2. run.phase # "idle"
    BY <2>1 DEF Stepped
  <2>3. CASE Raise \/ Exhaust
    BY <1>2, <2>2, <2>3 DEF Raise, Exhaust, case, Promise!Next, Promise!GiveUp
  <2>4. CASE \E k \in Candidates \cup {NoOne}, p \in DayPlan : Accepts(k, p) /\ Adopt(k, p)
    <3>1. run' = Idle /\ AdoptedDaysAreSafe'
      BY <2>4 DEF Adopt, DayInv
    <3> QED
      BY <1>1, <1>2, <1>3, <2>2, <3>1 DEF Promise!Next, Promise!Adopt
  <2>5. CASE GoesOn
    BY <1>1, <1>3, <2>2, <2>5 DEF GoesOn, case, Promise!Next, Promise!Reason
  <2> QED
    BY <2>1, <2>3, <2>4, <2>5 DEF Stepped
<1> QED
  BY <1>5, <1>6 DEF Next

\* Every run, wherever it is hosted, is one of PlanningPromise up to its end,
\* which is liveness: it judges at most three proposals, makes the agents
\* reason at most twice as often, leaves the plan in force alone when it gives
\* up or raises, and replaces it only by a safe day.
THEOREM RunsFollowPromise ==
  Spec => Promise!Init /\ [][Promise!Next]_<<plan, run.phase # "idle", run.judged, run.reasonings>>
<1>1. Init => Promise!Init
  BY DEF Init, Idle, Promise!Init
<1>2. DayInv /\ DayInv' /\ [Next]_vars =>
        [Promise!Next]_<<plan, run.phase # "idle", run.judged, run.reasonings>>
  BY StepPromised DEF vars
<1> QED
  BY <1>1, <1>2, InitDay, StepDay, PTL DEF Spec

=============================================================================
