---------------------------- MODULE JourneyProofs ----------------------------
(***************************************************************************)
(* Journeys through the feasible matrix: pruning keeps exactly the         *)
(* primitives that are part of one, a complete journey is a valid plan,    *)
(* and the provider research hires completes the day.                      *)
(*                                                                         *)
(* Reached, Leading and Onward are functions defined by recursion, along   *)
(* the times of the day and the primitives.  That such functions exist     *)
(* is proved once; what they are is shown by the least, or the latest,     *)
(* counterexample.                                                         *)
(***************************************************************************)
EXTENDS PlanningRunProofs

-----------------------------------------------------------------------------
(* Functions defined by recursion.                                         *)

\* F maps functions on D to functions on D, whose value at d only depends on the
\* arguments of a smaller rank; and ranks are bounded.
Descends(D, V, rank, F) ==
  /\ V # {} /\ rank \in [D -> Nat] /\ F \in [[D -> V] -> [D -> V]]
  /\ \E n \in Nat : \A d \in D : rank[d] < n
  /\ \A f \in [D -> V], g \in [D -> V], d \in D :
       (\A e \in D : rank[e] < rank[d] => f[e] = g[e]) => F[f][d] = F[g][d]

\* Then there is a function F leaves as it is.
LEMMA FixedPointExists ==
  ASSUME NEW D, NEW V, NEW rank, NEW F, Descends(D, V, rank, F)
  PROVE  \E f \in [D -> V] : F[f] = f
<1> USE DEF Descends
<1> PICK v \in V : TRUE
  OBVIOUS
<1> PICK bound \in Nat : \A d \in D : rank[d] < bound
  OBVIOUS
<1> DEFINE Settles(n) == \E f \in [D -> V] : \A d \in D : rank[d] < n => F[f][d] = f[d]
           Open == {n \in Nat : ~ Settles(n)}
<1>1. Settles(0)
  <2>1. [d \in D |-> v] \in [D -> V] /\ \A d \in D : ~ (rank[d] < 0)
    OBVIOUS
  <2> QED
    BY <2>1
<1>2. ASSUME NEW n \in Nat, Settles(n) PROVE Settles(n + 1)
  <2>1. PICK f \in [D -> V] : \A d \in D : rank[d] < n => F[f][d] = f[d]
    BY <1>2
  <2>2. F[f] \in [D -> V]
    BY <2>1
  <2>3. ASSUME NEW d \in D, rank[d] < n + 1
        PROVE  F[F[f]][d] = F[f][d]
    <3>1. \A e \in D : rank[e] < rank[d] => rank[e] < n
      BY <2>3
    <3>2. \A e \in D : rank[e] < rank[d] => F[f][e] = f[e]
      BY <2>1, <3>1
    <3> QED
      BY <2>2, <3>2
  <2> QED
    BY <2>2, <2>3
<1>3. Open = {}
  <2> SUFFICES ASSUME Open # {} PROVE FALSE
    OBVIOUS
  <2>1. PICK m \in Open : \A n \in Open : m <= n
    BY SmallestExists
  <2>2. m # 0
    BY <1>1
  <2>3. m - 1 \in Nat /\ (m - 1) + 1 = m
    BY <2>2
  <2>4. Settles(m - 1)
    BY <2>1, <2>3
  <2> HIDE DEF Settles
  <2>5. Settles((m - 1) + 1)
    BY <1>2, <2>3, <2>4
  <2> QED
    BY <2>3, <2>5
<1>4. PICK f \in [D -> V] : \A d \in D : rank[d] < bound => F[f][d] = f[d]
  BY <1>3
<1>5. F[f] \in [D -> V]
  OBVIOUS
<1> QED
  BY <1>4, <1>5

\* The places that can be reached at a time are what Reached says.
LEMMA ReachedIs ==
  ASSUME NEW work \in SUBSET Segment
  PROVE  Reached(work) =
           [t \in Time |-> (IF t = Required.start THEN {Home} ELSE {})
              \cup {g.to : g \in {k \in work : k.window.end = t
                                     /\ k.from \in Reached(work)[k.window.start]}}]
<1> DEFINE Def(f) ==
      [t \in Time |-> (IF t = Required.start THEN {Home} ELSE {})
         \cup {g.to : g \in {k \in work : k.window.end = t /\ k.from \in f[k.window.start]}}]
    V == SUBSET Place
    F == [f \in [Time -> V] |-> Def(f)]
    rank == [t \in Time |-> t]
<1>1. \A g \in work : /\ g.to \in Place /\ g.window.start \in Time /\ g.window.end \in Time
                      /\ g.window.start < g.window.end
  BY SegmentWindow DEF Segment, Window
<1>2. Home \in Place /\ {} \in V
  BY DEF Place
<1>3. ASSUME NEW f \in [Time -> V] PROVE Def(f) \in [Time -> V]
  <2>1. \A t \in Time : Def(f)[t] \subseteq Place
    BY <1>1, <1>2
  <2> QED
    BY <2>1
<1>4. F \in [[Time -> V] -> [Time -> V]]
  BY <1>3
<1>5. rank \in [Time -> Nat] /\ LastTime + 1 \in Nat /\ \A t \in Time : rank[t] < LastTime + 1
  BY TimeAssumption DEF Time
<1>6. \A f \in [Time -> V], g \in [Time -> V], t \in Time :
        (\A e \in Time : rank[e] < rank[t] => f[e] = g[e]) => F[f][t] = F[g][t]
  <2> SUFFICES ASSUME NEW f \in [Time -> V], NEW g \in [Time -> V], NEW t \in Time,
                      \A e \in Time : rank[e] < rank[t] => f[e] = g[e]
               PROVE  F[f][t] = F[g][t]
    OBVIOUS
  <2>1. \A k \in work : k.window.end = t => f[k.window.start] = g[k.window.start]
    BY <1>1
  <2> QED
    BY <2>1
<1> HIDE DEF Def
<1>0. \A f \in [Time -> V] : F[f] = Def(f)
  OBVIOUS
<1> HIDE DEF F, rank
<1>11. Descends(Time, V, rank, F)
  BY <1>2, <1>4, <1>5, <1>6 DEF Descends
<1> HIDE DEF V
<1>7. PICK f \in [Time -> V] : F[f] = f
  BY <1>11, FixedPointExists
<1>8. f = Def(f)
  BY <1>0, <1>7
<1>9. Reached(work) = CHOOSE h : h = Def(h)
  BY DEF Reached, Def
<1>10. Reached(work) = Def(Reached(work))
  BY <1>8, <1>9
<1> QED
  BY <1>10 DEF Def

\* The places from which the end of the day can be reached are what Leading says.
LEMMA LeadingIs ==
  ASSUME NEW work \in SUBSET Segment
  PROVE  Leading(work) =
           [t \in Time |->
              (IF t = Required.end THEN {g.to : g \in {k \in work : k.window.end = t}} ELSE {})
              \cup {g.from : g \in {k \in work : k.window.start = t
                                       /\ k.to \in Leading(work)[k.window.end]}}]
<1> DEFINE Def(f) ==
      [t \in Time |->
         (IF t = Required.end THEN {g.to : g \in {k \in work : k.window.end = t}} ELSE {})
         \cup {g.from : g \in {k \in work : k.window.start = t /\ k.to \in f[k.window.end]}}]
    V == SUBSET Place
    F == [f \in [Time -> V] |-> Def(f)]
    rank == [t \in Time |-> LastTime - t]
<1>1. \A g \in work : /\ g.from \in Place /\ g.to \in Place
                      /\ g.window.start \in Time /\ g.window.end \in Time
                      /\ g.window.start < g.window.end
  BY SegmentWindow DEF Segment, Window
<1>2. V # {}
  OBVIOUS
<1>3. ASSUME NEW f \in [Time -> V] PROVE Def(f) \in [Time -> V]
  <2>1. \A t \in Time : Def(f)[t] \subseteq Place
    BY <1>1
  <2> QED
    BY <2>1
<1>4. F \in [[Time -> V] -> [Time -> V]]
  BY <1>3
<1>5. rank \in [Time -> Nat] /\ LastTime + 1 \in Nat /\ \A t \in Time : rank[t] < LastTime + 1
  BY TimeAssumption DEF Time
<1>6. \A f \in [Time -> V], g \in [Time -> V], t \in Time :
        (\A e \in Time : rank[e] < rank[t] => f[e] = g[e]) => F[f][t] = F[g][t]
  <2> SUFFICES ASSUME NEW f \in [Time -> V], NEW g \in [Time -> V], NEW t \in Time,
                      \A e \in Time : rank[e] < rank[t] => f[e] = g[e]
               PROVE  F[f][t] = F[g][t]
    OBVIOUS
  <2>1. \A k \in work : k.window.start = t => rank[k.window.end] < rank[t]
    BY <1>1, TimeAssumption DEF Time
  <2>2. \A k \in work : k.window.start = t => f[k.window.end] = g[k.window.end]
    BY <1>1, <2>1
  <2> HIDE DEF rank
  <2> QED
    BY <2>2
<1> HIDE DEF Def
<1>7. \A f \in [Time -> V] : F[f] = Def(f)
  OBVIOUS
<1> HIDE DEF F, rank
<1>8. Descends(Time, V, rank, F)
  BY <1>2, <1>4, <1>5, <1>6 DEF Descends
<1> HIDE DEF V
<1>9. PICK f \in [Time -> V] : F[f] = f
  BY <1>8, FixedPointExists
<1>10. f = Def(f)
  BY <1>7, <1>9
<1>11. Leading(work) = CHOOSE h : h = Def(h)
  BY DEF Leading, Def
<1>12. Leading(work) = Def(Leading(work))
  BY <1>10, <1>11
<1> QED
  BY <1>12 DEF Def

\* What leads on from a primitive to the end of the day
Continued(work, onward, g) ==
  (IF g.window.end = Required.end THEN {{g}} ELSE {})
  \cup
  UNION {{{g} \cup j : j \in onward[h]} :
         h \in {k \in work : k.window.start = g.window.end /\ k.from = g.to}}

\* is what Onward says.
LEMMA OnwardIs ==
  ASSUME NEW work \in SUBSET Segment
  PROVE  Onward(work) = [g \in work |-> Continued(work, Onward(work), g)]
<1> DEFINE Def(f) == [g \in work |-> Continued(work, f, g)]
    V == SUBSET SUBSET work
    F == [f \in [work -> V] |-> Def(f)]
    rank == [g \in work |-> LastTime - g.window.end]
<1>1. \A g \in work : /\ g.window.start \in Nat /\ g.window.end \in Nat
                      /\ g.window.start < g.window.end /\ g.window.end <= LastTime
  BY SegmentWindow
<1>2. V # {}
  OBVIOUS
<1>3. ASSUME NEW f \in [work -> V] PROVE Def(f) \in [work -> V]
  <2>1. ASSUME NEW g \in work PROVE Continued(work, f, g) \subseteq SUBSET work
    <3>1. \A h \in work : f[h] \subseteq SUBSET work
      OBVIOUS
    <3>2. \A h \in work : \A j \in f[h] : {g} \cup j \subseteq work
      BY <3>1
    <3> QED
      BY <3>2 DEF Continued
  <2> QED
    BY <2>1
<1>4. F \in [[work -> V] -> [work -> V]]
  BY <1>3
<1>5. rank \in [work -> Nat] /\ LastTime + 1 \in Nat /\ \A g \in work : rank[g] < LastTime + 1
  BY <1>1, TimeAssumption
<1>6. \A f \in [work -> V], e \in [work -> V], g \in work :
        (\A h \in work : rank[h] < rank[g] => f[h] = e[h]) => F[f][g] = F[e][g]
  <2> SUFFICES ASSUME NEW f \in [work -> V], NEW e \in [work -> V], NEW g \in work,
                      \A h \in work : rank[h] < rank[g] => f[h] = e[h]
               PROVE  F[f][g] = F[e][g]
    OBVIOUS
  <2>1. \A k \in work : k.window.start = g.window.end => rank[k] < rank[g]
    BY <1>1, TimeAssumption
  <2>2. \A k \in work : k.window.start = g.window.end => f[k] = e[k]
    BY <2>1
  <2> HIDE DEF rank
  <2>3. Continued(work, f, g) = Continued(work, e, g)
    <3>1. \A h \in {k \in work : k.window.start = g.window.end /\ k.from = g.to} :
            {{g} \cup j : j \in f[h]} = {{g} \cup j : j \in e[h]}
      BY <2>2
    <3> QED
      BY <3>1 DEF Continued
  <2> QED
    BY <2>3
<1> HIDE DEF Def
<1>7. \A f \in [work -> V] : F[f] = Def(f)
  OBVIOUS
<1> HIDE DEF F, rank
<1>8. Descends(work, V, rank, F)
  BY <1>2, <1>4, <1>5, <1>6 DEF Descends
<1> HIDE DEF V
<1>9. PICK f \in [work -> V] : F[f] = f
  BY <1>8, FixedPointExists
<1>10. f = Def(f)
  BY <1>7, <1>9
<1>11. Onward(work) = CHOOSE h : h = Def(h)
  BY DEF Onward, Def, Continued
<1>12. Onward(work) = Def(Onward(work))
  BY <1>10, <1>11
<1> QED
  BY <1>12 DEF Def

-----------------------------------------------------------------------------
(* Pruning finds the primitives of complete journeys.                      *)

\* A path onward is the primitive alone, at the end of the day, or it goes on
\* with a path from the next one.
LEMMA OnwardCases ==
  ASSUME NEW work \in SUBSET Segment, NEW g \in work
  PROVE  \A j : j \in Onward(work)[g] <=>
           \/ g.window.end = Required.end /\ j = {g}
           \/ \E h \in work : \E i \in Onward(work)[h] :
                h.window.start = g.window.end /\ h.from = g.to /\ j = {g} \cup i
<1>1. Onward(work)[g] = Continued(work, Onward(work), g)
  BY OnwardIs
<1> QED
  BY <1>1 DEF Continued

\* It consists of primitives, that one included.
LEMMA OnwardIsOfWork ==
  ASSUME NEW work \in SUBSET Segment
  PROVE  \A g \in work : \A j \in Onward(work)[g] : j \subseteq work /\ g \in j
<1> DEFINE Bad == {g \in work : \E j \in Onward(work)[g] : ~ (j \subseteq work /\ g \in j)}
<1> SUFFICES ASSUME Bad # {} PROVE FALSE
  OBVIOUS
<1>1. PICK g \in Bad : \A h \in Bad : ~ Before(g, h)
  BY LastExists
<1>2. PICK j \in Onward(work)[g] : ~ (j \subseteq work /\ g \in j)
  OBVIOUS
<1>3. PICK h \in work : \E i \in Onward(work)[h] :
        h.window.start = g.window.end /\ h.from = g.to /\ j = {g} \cup i
  BY <1>2, OnwardCases
<1>4. Before(g, h)
  BY <1>3, SegmentWindow DEF Before
<1> QED
  BY <1>1, <1>2, <1>3, <1>4

\* A primitive leads to the end of the day if there is a path onward from it.
LEMMA LeadingHasPath ==
  ASSUME NEW work \in SUBSET Segment
  PROVE  \A g \in work : g.to \in Leading(work)[g.window.end] <=> Onward(work)[g] # {}
<1> DEFINE Bad == {g \in work : ~ (g.to \in Leading(work)[g.window.end] <=> Onward(work)[g] # {})}
<1> SUFFICES ASSUME Bad # {} PROVE FALSE
  OBVIOUS
<1>1. PICK g \in Bad : \A h \in Bad : ~ Before(g, h)
  BY LastExists
<1>2. \A h \in work : h.window.start = g.window.end =>
        (h.to \in Leading(work)[h.window.end] <=> Onward(work)[h] # {})
  BY <1>1, SegmentWindow DEF Before
<1>3. g.window.end \in Time
  BY DEF Segment, Window
<1>4. g.to \in Leading(work)[g.window.end] <=>
        \/ g.window.end = Required.end
        \/ \E h \in work : /\ h.window.start = g.window.end /\ h.from = g.to
                           /\ h.to \in Leading(work)[h.window.end]
  BY <1>3, LeadingIs
<1>5. Onward(work)[g] # {} <=>
        \/ g.window.end = Required.end
        \/ \E h \in work : /\ h.window.start = g.window.end /\ h.from = g.to
                           /\ Onward(work)[h] # {}
  <2>1. ASSUME g.window.end = Required.end PROVE Onward(work)[g] # {}
    <3>1. {g} \in Onward(work)[g]
      BY <2>1, OnwardCases
    <3> QED
      BY <3>1
  <2>2. ASSUME NEW h \in work, h.window.start = g.window.end, h.from = g.to,
               Onward(work)[h] # {}
        PROVE  Onward(work)[g] # {}
    <3>1. PICK i \in Onward(work)[h] : TRUE
      BY <2>2
    <3>2. {g} \cup i \in Onward(work)[g]
      BY <2>2, <3>1, OnwardCases
    <3> QED
      BY <3>2
  <2>3. ASSUME NEW j \in Onward(work)[g], g.window.end # Required.end
        PROVE  \E h \in work : /\ h.window.start = g.window.end /\ h.from = g.to
                              /\ Onward(work)[h] # {}
    BY <2>3, OnwardCases
  <2> QED
    BY <2>1, <2>2, <2>3
<1> QED
  BY <1>2, <1>4, <1>5

\* How a primitive can be reached
LEMMA ReachedCases ==
  ASSUME NEW work \in SUBSET Segment, NEW g \in work
  PROVE  g.from \in Reached(work)[g.window.start] <=>
           \/ g.window.start = Required.start /\ g.from = Home
           \/ \E k \in work : /\ k.window.end = g.window.start /\ k.to = g.from
                              /\ k.from \in Reached(work)[k.window.start]
<1>1. g.window.start \in Time
  BY DEF Segment, Window
<1> QED
  BY <1>1, ReachedIs

\* A path onward from a primitive that can be reached is the end of a journey,
LEMMA ReachedExtends ==
  ASSUME NEW work \in SUBSET Segment
  PROVE  \A g \in work : g.from \in Reached(work)[g.window.start] =>
           \A j \in Onward(work)[g] : \E i \in Journeys(work) : j \subseteq i
<1> DEFINE Bad == {g \in work : /\ g.from \in Reached(work)[g.window.start]
                                /\ \E j \in Onward(work)[g] :
                                     \A i \in Journeys(work) : ~ (j \subseteq i)}
<1> SUFFICES ASSUME Bad # {} PROVE FALSE
  OBVIOUS
<1>1. PICK g \in Bad : \A h \in Bad : ~ Before(h, g)
  BY FirstExists
<1>2. PICK j \in Onward(work)[g] : \A i \in Journeys(work) : ~ (j \subseteq i)
  OBVIOUS
<1>3. ~ (g.window.start = Required.start /\ g.from = Home)
  BY <1>2 DEF Journeys
<1>4. PICK k \in work : /\ k.window.end = g.window.start /\ k.to = g.from
                        /\ k.from \in Reached(work)[k.window.start]
  BY <1>3, ReachedCases
<1>5. {k} \cup j \in Onward(work)[k]
  BY <1>2, <1>4, OnwardCases
<1>6. Before(k, g)
  BY <1>4, SegmentWindow DEF Before
<1>7. PICK i \in Journeys(work) : {k} \cup j \subseteq i
  BY <1>1, <1>4, <1>5, <1>6
<1> QED
  BY <1>2, <1>7

\* and everything on it can be reached and leads on.
LEMMA OnwardIsReached ==
  ASSUME NEW work \in SUBSET Segment
  PROVE  \A g \in work : g.from \in Reached(work)[g.window.start] =>
           \A j \in Onward(work)[g] : \A h \in j :
             h.from \in Reached(work)[h.window.start] /\ Onward(work)[h] # {}
<1> DEFINE Fine(g) == \A j \in Onward(work)[g] : \A h \in j :
                        h.from \in Reached(work)[h.window.start] /\ Onward(work)[h] # {}
           Bad == {g \in work : g.from \in Reached(work)[g.window.start] /\ ~ Fine(g)}
<1> SUFFICES ASSUME Bad # {} PROVE FALSE
  OBVIOUS
<1>1. PICK g \in Bad : \A h \in Bad : ~ Before(g, h)
  BY LastExists
<1>2. PICK j \in Onward(work)[g] : \E h \in j :
        ~ (h.from \in Reached(work)[h.window.start] /\ Onward(work)[h] # {})
  OBVIOUS
<1>8. PICK h \in j : ~ (h.from \in Reached(work)[h.window.start] /\ Onward(work)[h] # {})
  BY <1>2
<1>3. h # g
  BY <1>8
<1>4. PICK k \in work : \E i \in Onward(work)[k] :
        k.window.start = g.window.end /\ k.from = g.to /\ j = {g} \cup i
  BY <1>3, <1>8, OnwardCases
<1>5. Before(g, k)
  BY <1>4, SegmentWindow DEF Before
<1>6. k.from \in Reached(work)[k.window.start]
  BY <1>4, ReachedCases
<1>7. Fine(k)
  BY <1>1, <1>5, <1>6
<1> QED
  BY <1>3, <1>4, <1>7, <1>8

\* The primitives that are left are those of the complete journeys.
LEMMA PruneIsExact ==
  ASSUME NEW work \in SUBSET Segment
  PROVE  Prune(work) = UNION Journeys(work)
<1>1. ASSUME NEW g \in Prune(work) PROVE g \in UNION Journeys(work)
  <2>1. /\ g \in work /\ g.from \in Reached(work)[g.window.start]
        /\ g.to \in Leading(work)[g.window.end]
    BY DEF Prune
  <2>2. PICK j \in Onward(work)[g] : g \in j
    BY <2>1, LeadingHasPath, OnwardIsOfWork
  <2> QED
    BY <2>1, <2>2, ReachedExtends
<1>2. ASSUME NEW j \in Journeys(work), NEW h \in j PROVE h \in Prune(work)
  <2>1. PICK g \in work : /\ g.window.start = Required.start /\ g.from = Home
                          /\ j \in Onward(work)[g]
    BY DEF Journeys
  <2>2. h \in work
    BY <2>1, OnwardIsOfWork
  <2>3. g.from \in Reached(work)[g.window.start]
    BY <2>1, ReachedCases
  <2> QED
    BY <2>1, <2>2, <2>3, OnwardIsReached, LeadingHasPath DEF Prune
<1> QED
  BY <1>1, <1>2

\* The search for connected paths finds exactly the primitives of complete
\* journeys, whatever the family and the decline: "insufficient" means there is
\* no journey (constraint_planner.py).
THEOREM PruningIsExact == Spec => []MatrixIsExact
<1>1. GroundedInv => MatrixIsExact
  <2> SUFFICES ASSUME GroundedInv, Starting PROVE MatrixIsExact
    BY DEF MatrixIsExact
  <2>1. IsScenario(run.facts) /\ run.scope \in Scope
    BY DEF GroundedInv, Working, TypeOK, Scope
  <2>2. Scoped(Primitives(run.facts), run.scope) \in SUBSET Segment
    BY <2>1, PrimitivesAreSegments, ScopedAreSegments
  <2> QED
    BY <2>2, PruneIsExact DEF MatrixIsExact, Matrix, MatrixOf
<1> QED
  BY <1>1, InitGrounded, StepGrounded, PTL DEF Spec

-----------------------------------------------------------------------------
(* A journey is a chain of primitives through the day.                     *)

\* From g one primitive after the other leads to the end of the day.
Chain(j, g) ==
  /\ \A h \in j : h = g \/ g.window.end <= h.window.start
  /\ \A h \in j : h.window.end <= Required.end
  /\ \A h \in j : h.window.end = Required.end
                  \/ \E k \in j : k.window.start = h.window.end /\ k.from = h.to
  /\ \A h \in j, k \in j :
       h = k \/ h.window.end <= k.window.start \/ k.window.end <= h.window.start

\* A path onward is a chain.
LEMMA OnwardIsChain ==
  ASSUME NEW work \in SUBSET Segment
  PROVE  \A g \in work : \A j \in Onward(work)[g] : Chain(j, g)
<1> DEFINE Bad == {g \in work : \E j \in Onward(work)[g] : ~ Chain(j, g)}
<1> SUFFICES ASSUME Bad # {} PROVE FALSE
  OBVIOUS
<1>1. PICK g \in Bad : \A h \in Bad : ~ Before(g, h)
  BY LastExists
<1>2. PICK j \in Onward(work)[g] : ~ Chain(j, g)
  OBVIOUS
<1>3. /\ Required.end \in Nat
      /\ \A h \in work : /\ h.window.start \in Nat /\ h.window.end \in Nat
                         /\ h.window.start < h.window.end
  BY SegmentWindow, TimeAssumption DEF Window, Time
<1>4. CASE g.window.end = Required.end /\ j = {g}
  BY <1>2, <1>3, <1>4 DEF Chain
<1>5. ASSUME NEW h \in work, NEW i \in Onward(work)[h],
             h.window.start = g.window.end, h.from = g.to, j = {g} \cup i
      PROVE  FALSE
  <2>1. Before(g, h)
    BY <1>3, <1>5 DEF Before
  <2>2. Chain(i, h) /\ i \subseteq work /\ h \in i
    BY <1>1, <1>5, <2>1, OnwardIsOfWork
  <2>3. g.window.end <= Required.end
    BY <1>3, <1>5, <2>2 DEF Chain
  <2>4. \A k \in i : g.window.end <= k.window.start
    BY <1>3, <1>5, <2>2 DEF Chain
  <2>5. /\ \A k \in j : k = g \/ g.window.end <= k.window.start
        /\ \A k \in j : k.window.end <= Required.end
    BY <1>5, <2>2, <2>3, <2>4 DEF Chain
  <2>6. \A k \in j : k.window.end = Required.end
                     \/ \E l \in j : l.window.start = k.window.end /\ l.from = k.to
    BY <1>5, <2>2 DEF Chain
  <2>7. \A k \in j, l \in j :
          k = l \/ k.window.end <= l.window.start \/ l.window.end <= k.window.start
    BY <1>5, <2>2, <2>4 DEF Chain
  <2> QED
    BY <1>2, <2>5, <2>6, <2>7 DEF Chain
<1> QED
  BY <1>2, <1>4, <1>5, OnwardCases

\* A journey is a relay in which one primitive ends when the next one starts.
LEMMA JourneyIsRelay ==
  ASSUME NEW work \in SUBSET Segment, NEW j \in Journeys(work)
  PROVE  /\ j \subseteq work /\ Relay(j)
         /\ \A g \in j, h \in j : Adjacent(j, g, h) => h.window.start = g.window.end
<1>1. PICK g \in work : /\ g.window.start = Required.start /\ g.from = Home
                        /\ j \in Onward(work)[g]
  BY DEF Journeys
<1>2. j \subseteq work /\ g \in j /\ Chain(j, g)
  BY <1>1, OnwardIsOfWork, OnwardIsChain
<1>3. /\ Required.end \in Nat
      /\ \A h \in j : /\ h.window.start \in Nat /\ h.window.end \in Nat
                      /\ h.window.start < h.window.end
  BY <1>2, SegmentWindow, TimeAssumption DEF Window, Time
<1>4. \A h \in j, k \in j : h.window = k.window => h = k
  <2> SUFFICES ASSUME NEW h \in j, NEW k \in j, h.window = k.window, h # k PROVE FALSE
    OBVIOUS
  <2>1. h.window.end <= h.window.start
    BY <1>2 DEF Chain
  <2> QED
    BY <1>3, <2>1
<1>5. \A h \in j : (\A k \in j : ~ Before(k, h)) => h.window.start = Required.start
  <2> SUFFICES ASSUME NEW h \in j, ~ Before(g, h) PROVE h = g
    BY <1>1, <1>2
  <2> QED
    BY <1>2, <1>3 DEF Chain, Before
<1>6. \A h \in j : (\A k \in j : ~ Before(h, k)) => h.window.end = Required.end
  <2> SUFFICES ASSUME NEW h \in j, NEW k \in j, k.window.start = h.window.end
               PROVE  Before(h, k)
    BY <1>2 DEF Chain
  <2> QED
    BY <1>3 DEF Before
<1>7. ASSUME NEW h \in j, NEW k \in j, Adjacent(j, h, k)
      PROVE  k.window.start = h.window.end /\ h.to = k.from
  <2>1. Before(h, k) /\ h # k
    BY <1>3, <1>7 DEF Adjacent, Before
  <2>2. h.window.end <= k.window.start /\ k.window.end <= Required.end
    BY <1>2, <1>3, <2>1 DEF Chain, Before
  <2>3. h.window.end # Required.end
    BY <1>3, <2>2
  <2>4. PICK l \in j : l.window.start = h.window.end /\ l.from = h.to
    BY <1>2, <2>3 DEF Chain
  <2>5. Before(h, l)
    BY <1>3, <2>4 DEF Before
  <2>6. ~ Before(l, k)
    BY <1>7, <2>5 DEF Adjacent
  <2>7. l = k
    <3> SUFFICES ASSUME l # k PROVE FALSE
      OBVIOUS
    <3>1. l.window.end <= k.window.start \/ k.window.end <= l.window.start
      BY <1>2 DEF Chain
    <3> QED
      BY <1>3, <2>2, <2>4, <2>6, <3>1 DEF Before
  <2> QED
    BY <2>4, <2>7
<1>8. Relay(j)
  <2>1. \A h \in j, k \in j :
          Adjacent(j, h, k) => k.window.start <= h.window.end /\ h.to = k.from
    BY <1>3, <1>7
  <2> QED
    BY <1>2, <1>4, <1>5, <1>6, <2>1 DEF Relay
<1> QED
  BY <1>2, <1>7, <1>8

\* Without buffers a journey hands the child over as the validator wants it.
LEMMA JourneyCovers ==
  ASSUME NEW work \in SUBSET Segment, NEW j \in Journeys(work),
         NEW s, IsScenario(s), Unbuffered(s)
  PROVE  CoverageOk(s, j)
<1>1. /\ j \subseteq work /\ Relay(j)
      /\ \A g \in j, h \in j : Adjacent(j, g, h) => h.window.start = g.window.end
  BY JourneyIsRelay
<1>2. ASSUME NEW g \in j, NEW h \in j, Adjacent(j, g, h)
      PROVE  HandoffOk(s, g, h)
  <2>1. g.window.end - h.window.start = 0
    BY <1>1, <1>2, SegmentWindow
  <2>2. (IF h.who \in Listed(s) THEN Buffer[h.who] ELSE 0) = 0 /\ s.handoff = 0
    BY ScenarioFields DEF Unbuffered
  <2>3. Max({0, 0}) = 0
    BY MaxOfTwo
  <2> QED
    BY <2>1, <2>2, <2>3 DEF HandoffOk
<1> QED
  BY <1>1, <1>2 DEF Relay, CoverageOk

-----------------------------------------------------------------------------
(* A journey of a replan has all preserved work in it.                     *)

\* Segments of a relay without overlaps have no tick in common.
LEMMA RelayIsDisjoint ==
  ASSUME NEW S \in SUBSET Segment, Relay(S),
         \A g \in S, h \in S : Adjacent(S, g, h) => h.window.start = g.window.end,
         NEW g \in S, NEW h \in S, NEW t \in Ticks(g), t \in Ticks(h)
  PROVE  g = h
<1>1. \A k \in S : k.window.start \in Nat /\ k.window.end \in Nat
  BY SegmentWindow
<1>2. ASSUME NEW a \in S, NEW b \in S, Before(a, b)
      PROVE  a.window.end <= b.window.start
  <2>1. PICK k \in S : Adjacent(S, a, k)
    BY <1>2, NextExists
  <2>2. k = b \/ Before(k, b)
    <3>1. ~ Before(b, k)
      BY <1>2, <2>1 DEF Adjacent
    <3>2. ~ Before(k, b) => k.window = b.window
      BY <3>1, BeforeIsOrder
    <3> QED
      BY <3>2 DEF Relay
  <2>3. k.window.start <= b.window.start
    BY <1>1, <2>2 DEF Before
  <2> QED
    BY <2>1, <2>3
<1>3. /\ g.window.start <= t /\ t < g.window.end /\ h.window.start <= t /\ t < h.window.end
      /\ t \in Int
  BY <1>1 DEF Ticks
<1>4. ~ Before(g, h) /\ ~ Before(h, g)
  BY <1>1, <1>2, <1>3
<1> QED
  BY <1>4, BeforeIsOrder DEF Relay

\* A tick of a primitive clipped to the affected time, or inside of it, is a
\* tick of broken work.
LEMMA AffectedIsBroken ==
  ASSUME NEW S \in SUBSET Segment, NEW B \in SUBSET S,
         NEW a \in Merged({b.window : b \in B}), NEW t \in Int, a.start <= t, t < a.end
  PROVE  \E b \in B : t \in Ticks(b)
<1>1. a \in Window
  BY DEF Merged
<1>2. a.start \in Int /\ a.end \in Int
  BY <1>1, TimeAssumption DEF Window, Time
<1>3. PICK w \in {b.window : b \in B} : w.start <= t /\ t < w.end
  BY <1>2 DEF Merged
<1>4. PICK b \in B : w = b.window
  OBVIOUS
<1>5. b.window.start \in Int /\ b.window.end \in Int
  BY SegmentWindow
<1> QED
  BY <1>3, <1>4, <1>5 DEF Ticks

\* Clipping
LEMMA ClipIsWithin ==
  ASSUME NEW v \in Window, NEW w \in Window, NEW u \in Clip(v, w)
  PROVE  u \in Window /\ Within(u, v) /\ Within(u, w)
<1>1. /\ v.start \in Nat /\ v.end \in Nat /\ w.start \in Nat /\ w.end \in Nat
      /\ u \in Window /\ u.start \in Nat /\ u.end \in Nat
      /\ u.start = Max({v.start, w.start}) /\ u.end = Min({v.end, w.end})
  BY TimeAssumption DEF Clip, Window, Time
<1>2. v.start <= u.start /\ w.start <= u.start
  BY <1>1, MaxOfTwo
<1>3. u.end <= v.end /\ u.end <= w.end
  <2>1. {v.end, w.end} \in SUBSET Nat /\ {v.end, w.end} # {}
    BY <1>1
  <2> QED
    BY <1>1, <2>1, MinIsLeast
<1> QED
  BY <1>1, <1>2, <1>3 DEF Within

\* What a replan may be composed of: clipped care, trips and preserved work
LEMMA ScopedCases ==
  ASSUME NEW work \in SUBSET Segment, NEW scope \in Scope, scope.replan,
         NEW g \in Scoped(work, scope)
  PROVE  \/ g \in scope.kept
         \/ \E k \in work : \E a \in scope.affected :
              /\ g = [k EXCEPT !.window = g.window]
              /\ g.window \in Window /\ Within(g.window, k.window) /\ Within(g.window, a)
              /\ g.kind # "CARE" => g = k
<1>1. CASE g \in scope.kept
  BY <1>1
<1>2. CASE g \in work /\ g.kind = "TRANSPORT" /\ \E a \in scope.affected : Within(g.window, a)
  <2>1. g \in Segment /\ Within(g.window, g.window)
    BY <1>2, SegmentWindow DEF Within
  <2> QED
    BY <1>2, <2>1 DEF Segment
<1>3. ASSUME NEW k \in work, k.kind = "CARE", g \in ClippedTo(scope.affected, k)
      PROVE  \E a \in scope.affected :
               /\ g = [k EXCEPT !.window = g.window]
               /\ g.window \in Window /\ Within(g.window, k.window) /\ Within(g.window, a)
               /\ g.kind # "CARE" => g = k
  <2>1. PICK a \in scope.affected : g \in {[k EXCEPT !.window = v] : v \in Clip(k.window, a)}
    BY <1>3 DEF ClippedTo
  <2>2. PICK v \in Clip(k.window, a) : g = [k EXCEPT !.window = v]
    BY <2>1
  <2>3. k.window \in Window /\ a \in Window
    BY SegmentWindow DEF Scope
  <2>4. v \in Window /\ Within(v, k.window) /\ Within(v, a)
    BY <2>3, ClipIsWithin
  <2>5. g.window = v /\ g.kind = "CARE"
    BY <1>3, <2>2 DEF Segment
  <2> QED
    BY <2>2, <2>4, <2>5
<1>4. g \in ReplanningPrimitives(work, scope.affected, scope.kept)
  BY DEF Scoped
<1>5. \/ g \in scope.kept
      \/ g \in work /\ g.kind = "TRANSPORT" /\ \E a \in scope.affected : Within(g.window, a)
      \/ \E k \in work : k.kind = "CARE" /\ g \in ClippedTo(scope.affected, k)
  BY <1>4 DEF ReplanningPrimitives
<1> QED
  BY <1>1, <1>2, <1>3, <1>5

\* A plan without overlaps is broken work and preserved work, tick by tick, and
\* a new primitive is only where work is broken: so at the first tick of
\* preserved work a journey has that work.
LEMMA JourneyKeeps ==
  ASSUME NEW S \in SUBSET Segment, Relay(S),
         \A g \in S, h \in S : Adjacent(S, g, h) => h.window.start = g.window.end,
         NEW d, NEW scope \in Scope, scope = RepairScope(S, d),
         NEW work \in SUBSET Segment,
         NEW left \in SUBSET Scoped(work, scope), NEW j \in Journeys(left),
         \A g \in scope.kept : Within(g.window, Required)
  PROVE  scope.kept \subseteq j
<1> SUFFICES ASSUME NEW g \in scope.kept PROVE g \in j
  OBVIOUS
<1> DEFINE B == Impacted(S, d)
           t == g.window.start
<1>1. /\ scope.replan /\ scope.affected = Merged({b.window : b \in B}) /\ scope.kept = S \ B
  BY DEF RepairScope
<1>2. left \in SUBSET Segment
  BY ScopedAreSegments
<1>3. g \in S /\ g \notin B /\ g \in Segment
  BY <1>1
<1>4. /\ t \in Nat /\ g.window.end \in Nat /\ t < g.window.end
      /\ Required.start <= t /\ g.window.end <= Required.end
      /\ Required.start \in Nat /\ Required.end \in Nat
  BY <1>3, SegmentWindow, TimeAssumption DEF Within, Window, Time
<1>5. t \in Ticks(g) /\ t \in Required.start .. Required.end - 1
  BY <1>4 DEF Ticks
<1>6. PICK h \in j : t \in Ticks(h)
  BY <1>2, <1>5, JourneyIsRelay, RelayCovers
<1>7. h \in left /\ h \in Segment /\ h \in Scoped(work, scope)
  BY <1>2, JourneyIsRelay
<1>8. CASE h \in scope.kept
  BY <1>1, <1>3, <1>5, <1>6, <1>8, RelayIsDisjoint
<1>9. ASSUME NEW a \in scope.affected, Within(h.window, a)
      PROVE  FALSE
  <2>1. h.window.start \in Nat /\ h.window.end \in Nat /\ a.start \in Nat /\ a.end \in Nat
    BY <1>7, SegmentWindow, TimeAssumption DEF Scope, Window, Time
  <2>2. a.start <= t /\ t < a.end
    BY <1>4, <1>6, <1>9, <2>1 DEF Ticks, Within
  <2>3. B \in SUBSET S
    BY DEF Impacted, DirectlyHit, ConnectedHandoffs
  <2> HIDE DEF B
  <2>4. PICK b \in B : t \in Ticks(b)
    <3>1. a \in Merged({b.window : b \in B}) /\ t \in Int
      BY <1>1, <1>4, <1>9
    <3> HIDE DEF t
    <3> QED
      BY <2>2, <2>3, <3>1, AffectedIsBroken
  <2>5. b = g
    BY <1>3, <1>5, <2>3, <2>4, RelayIsDisjoint
  <2> QED
    BY <1>3, <2>5
<1> QED
  BY <1>1, <1>7, <1>8, <1>9, ScopedCases

-----------------------------------------------------------------------------
(* The validator has nothing against a primitive, except for a meeting that *)
(* has to be moved.                                                         *)

\* A window within one that lies outside of some time lies outside of it.
LEMMA WithinAvoids ==
  ASSUME NEW u \in Window, NEW v \in Window, NEW e \in Window, Within(u, v), ~ Overlaps(v, e)
  PROVE  ~ Overlaps(u, e)
<1>1. /\ u.start \in Nat /\ u.end \in Nat /\ v.start \in Nat /\ v.end \in Nat
      /\ e.start \in Nat /\ e.end \in Nat
  BY TimeAssumption DEF Window, Time
<1> QED
  BY <1>1 DEF Within, Overlaps

\* A window within one that is within a third is within the third.
LEMMA WithinWithin ==
  ASSUME NEW u \in Window, NEW v \in Window, NEW w \in Window, Within(u, v), Within(v, w)
  PROVE  Within(u, w)
<1>1. /\ u.start \in Nat /\ u.end \in Nat /\ v.start \in Nat /\ v.end \in Nat
      /\ w.start \in Nat /\ w.end \in Nat
  BY TimeAssumption DEF Window, Time
<1> QED
  BY <1>1 DEF Within

\* What subtraction leaves lies in the window and outside of the blocks.
LEMMA MinusIsOutside ==
  ASSUME NEW w, NEW blocks, NEW v \in Minus(w, blocks)
  PROVE  v \in Window /\ Within(v, w) /\ \A b \in blocks : ~ Overlaps(v, b)
BY Zenon DEF Minus

\* Time a caregiver offers for care is in the day and in their availability.
LEMMA CareWindowsAreOffered ==
  ASSUME NEW s, IsScenario(s), NEW c \in Listed(s), NEW w \in CareWindows(s, c)
  PROVE  /\ w \in Window /\ Within(w, Required)
         /\ \E v \in s.free[c] : v \in Window /\ Within(w, v)
<1>1. PICK v \in s.free[c] : w \in Clip(v, Required)
  BY DEF CareWindows
<1>2. v \in Window /\ Required \in Window
  BY ScenarioFields, TimeAssumption
<1> QED
  BY <1>1, <1>2, ClipIsWithin

\* Trips of parents
LEMMA ParentTripsAreOk ==
  ASSUME NEW s, IsScenario(s), NEW g \in ParentTrips(s)
  PROVE  SegmentOk(s, g, TRUE)
<1>1. PICK p, c, w : /\ p \in Parents /\ c \in Away(s) /\ w \in CareWindows(s, c)
                     /\ g \in TripsAround(p, c, w)
  <2>1. PICK p \in Parents :
          g \in UNION {UNION {TripsAround(p, c, w) : w \in CareWindows(s, c)} : c \in Away(s)}
    BY DEF ParentTrips
  <2>2. PICK c \in Away(s) : g \in UNION {TripsAround(p, c, w) : w \in CareWindows(s, c)}
    BY <2>1
  <2> QED
    BY <2>2
<1>2. PICK v \in DriveWindows(s, g.who) : Within(g.window, v)
  BY DEF ParentTrips
<1>3. g \in Segment
  BY ParentTripsAreSegments
<1>4. /\ g.kind = "TRANSPORT" /\ g.who = p /\ g.by = p
      /\ \/ g.from = Home /\ g.to = At[c]
         \/ g.from = At[c] /\ g.to = Home
      /\ \/ g.window = [start |-> w.start - Travel[At[c]], end |-> w.start]
         \/ g.window = [start |-> w.end - Travel[At[c]], end |-> w.end]
  BY <1>1 DEF TripsAround, Trip
<1>5. c \in Listed(s) /\ At[c] # Home /\ c \in Caregivers
  BY <1>1, StaffedAreCaregivers DEF Away, Staffed, Eligible
<1>6. w \in Window /\ g.window \in Window
  BY <1>1, <1>3, WindowsAreWindows, SegmentWindow
<1>7. PICK u \in s.drives[p] : \E x \in Clip(u, Required) : v \in Minus(x, s.fixed[p])
  BY <1>2, <1>4 DEF DriveWindows
<1>8. PICK x \in Clip(u, Required) : v \in Minus(x, s.fixed[p])
  BY <1>7
<1>9. u \in Window /\ Required \in Window /\ s.fixed[p] \subseteq Window
  BY <1>1, ScenarioFields, TimeAssumption DEF Calendars
<1>10. x \in Window /\ Within(x, u) /\ Within(x, Required)
  BY <1>8, <1>9, ClipIsWithin
<1>11. v \in Window /\ Within(v, x) /\ \A e \in s.fixed[p] : ~ Overlaps(v, e)
  BY <1>8, MinusIsOutside
<1>12. Within(g.window, Required) /\ Within(g.window, u)
  BY <1>2, <1>6, <1>9, <1>10, <1>11, WithinWithin
<1>13. \A e \in s.fixed[p] : ~ Overlaps(g.window, e)
  BY <1>2, <1>6, <1>9, <1>11, WithinAvoids
<1>14. g.window.end - g.window.start >= Max({Travel[g.from], Travel[g.to]})
  <2>1. Travel[At[c]] \in Nat /\ Travel[Home] = 0 /\ w.start \in Nat /\ w.end \in Nat
    BY <1>5, <1>6, CaregiverPlace, PlaceAssumption, TimeAssumption DEF Window, Time
  <2>2. g.window.end - g.window.start = Travel[At[c]]
    <3> DEFINE travel == Travel[At[c]]
    <3>1. /\ w.start - (w.start - travel) = travel /\ w.end - (w.end - travel) = travel
      BY <2>1
    <3>2. \/ g.window.start = w.start - travel /\ g.window.end = w.start
          \/ g.window.start = w.end - travel /\ g.window.end = w.end
      BY <1>4
    <3> QED
      BY <3>1, <3>2
  <2>3. /\ Max({0, Travel[At[c]]}) = Travel[At[c]]
        /\ Max({Travel[At[c]], 0}) = Travel[At[c]]
    BY <2>1, MaxOfTwo
  <2>4. Max({Travel[g.from], Travel[g.to]}) = Travel[At[c]]
    BY <1>4, <2>1, <2>3
  <2> QED
    BY <2>1, <2>2, <2>4
<1>15. TransporterOk(s, g)
  BY <1>1, <1>4, <1>12, <1>13 DEF TransporterOk
<1>16. PlaceOk(s, g)
  BY <1>4, <1>5, <1>14, <1>15 DEF PlaceOk
<1> QED
  BY <1>1, <1>4, <1>12, <1>13, <1>16 DEF SegmentOk, AssignmentOk, CalendarOk

\* A caregiver who may be considered may be assigned any time they offer.
LEMMA StaffedAreOk ==
  ASSUME NEW s, IsScenario(s), NEW g \in Segment, g.who \in Staffed(s),
         NEW w \in CareWindows(s, g.who), Within(g.window, w)
  PROVE  /\ Within(g.window, Required) /\ AssignmentOk(s, g)
         /\ g.who \in Listed(s) /\ g.who \notin Parents /\ At[g.who] \in Place
         /\ \E v \in s.free[g.who] : Within(g.window, v)
<1>1. /\ g.who \in Listed(s) /\ g.who \notin s.out
      /\ g.who \in External => s.external
      /\ s.trustedOnly => g.who \in Trusted
  BY DEF Staffed, Eligible
<1>2. w \in Window /\ Within(w, Required) /\ g.window \in Window /\ Required \in Window
  BY <1>1, CareWindowsAreOffered, SegmentWindow, TimeAssumption
<1>3. PICK v \in s.free[g.who] : v \in Window /\ Within(w, v)
  BY <1>1, CareWindowsAreOffered
<1>4. Within(g.window, Required) /\ Within(g.window, v)
  BY <1>2, <1>3, WithinWithin
<1>5. g.who \in Caregivers /\ g.who \notin Parents
  BY StaffedAreCaregivers, PersonAssumption
<1> QED
  BY <1>1, <1>4, <1>5, CaregiverPlace DEF AssignmentOk

\* Trips of caregivers
LEMMA ProviderTripsAreOk ==
  ASSUME NEW s, IsScenario(s), NEW g \in ProviderTrips(s)
  PROVE  SegmentOk(s, g, TRUE)
<1>1. PICK c, w :
        /\ c \in Away(s) /\ c \in Drivers /\ (c \in External => s.providerTrips)
        /\ w \in CareWindows(s, c) /\ w.end - w.start >= Travel[At[c]]
        /\ g = Trip(c, At[c], Home, [start |-> w.end - Travel[At[c]], end |-> w.end])
  BY DEF ProviderTrips
<1>2. g \in Segment
  BY ProviderTripsAreSegments
<1>3. /\ g.kind = "TRANSPORT" /\ g.who = c /\ g.by = c /\ g.from = At[c] /\ g.to = Home
      /\ g.window = [start |-> w.end - Travel[At[c]], end |-> w.end]
  BY <1>1 DEF Trip
<1>4. c \in Staffed(s) /\ c \in Listed(s) /\ At[c] # Home /\ c \in Caregivers
      /\ (c \in External => s.external)
  BY <1>1, StaffedAreCaregivers DEF Away, Staffed, Eligible
<1>5. /\ w \in Window /\ w.start \in Nat /\ w.end \in Nat
      /\ Travel[At[c]] \in Nat /\ Travel[Home] = 0
  BY <1>1, <1>4, WindowsAreWindows, CaregiverPlace, PlaceAssumption, TimeAssumption
  DEF Window, Time
<1>6. Within(g.window, w)
  BY <1>1, <1>3, <1>5 DEF Within
<1>7. /\ Within(g.window, Required) /\ AssignmentOk(s, g) /\ c \notin Parents
      /\ \E v \in s.free[c] : Within(g.window, v)
  BY <1>1, <1>2, <1>3, <1>4, <1>6, StaffedAreOk
<1>8. TransporterOk(s, g)
  BY <1>1, <1>3, <1>4, <1>7 DEF TransporterOk
<1>9. g.window.end - g.window.start >= Max({Travel[g.from], Travel[g.to]})
  <2>1. Max({Travel[At[c]], 0}) = Travel[At[c]]
    BY <1>5, MaxOfTwo
  <2> QED
    BY <1>3, <1>5, <2>1
<1>10. PlaceOk(s, g)
  BY <1>3, <1>4, <1>8, <1>9 DEF PlaceOk
<1> QED
  BY <1>3, <1>7, <1>10 DEF SegmentOk, CalendarOk

\* Care of caregivers
LEMMA CaregiverCareIsOk ==
  ASSUME NEW s, IsScenario(s), NEW trips \in SUBSET Segment, NEW g \in CaregiverCare(s, trips)
  PROVE  SegmentOk(s, g, TRUE)
<1>1. PICK c, w :
        /\ c \in Staffed(s)
        /\ w \in CareWindows(s, c) /\ w.start < CareEnd(c, w, trips)
        /\ g = Care(c, At[c], [w EXCEPT !.end = CareEnd(c, w, trips)])
  BY DEF CaregiverCare
<1>2. g \in Segment
  BY CaregiverCareIsSegments
<1>3. w \in Window /\ w.start \in Nat /\ w.end \in Nat
  BY <1>1, WindowsAreWindows, TimeAssumption DEF Window, Time
<1>4. /\ g.kind = "CARE" /\ g.who = c /\ g.from = At[c] /\ g.to = At[c]
      /\ g.window.start = w.start /\ g.window.end = CareEnd(c, w, trips)
  BY <1>1, <1>3 DEF Care, Window
<1>5. CareEnd(c, w, trips) <= w.end
  <2> DEFINE ends == {w.end} \cup {k.window.start : k \in {l \in trips :
                       l.from = At[c] /\ l.to = Home /\ l.window.end = w.end}}
  <2>1. ends \in SUBSET Nat /\ w.end \in ends
    BY <1>3, SegmentWindow
  <2> HIDE DEF ends
  <2>2. Min(ends) <= w.end
    BY <2>1, MinIsLeast
  <2> QED
    BY <2>2 DEF CareEnd, ends
<1>6. Within(g.window, w)
  BY <1>3, <1>4, <1>5 DEF Within
<1>7. /\ Within(g.window, Required) /\ AssignmentOk(s, g)
      /\ c \in Listed(s) /\ c \notin Parents
  BY <1>1, <1>2, <1>4, <1>6, StaffedAreOk
<1>8. PlaceOk(s, g)
  BY <1>4, <1>7 DEF PlaceOk
<1> QED
  BY <1>4, <1>7, <1>8 DEF SegmentOk, CalendarOk

\* Care of parents
LEMMA ParentCareIsOk ==
  ASSUME NEW s, IsScenario(s), NEW trips, NEW g \in ParentCare(s, trips)
  PROVE  SegmentOk(s, g, TRUE)
<1>1. PICK p \in Parents :
        g \in UNION {{Care(p, Home, v) : v \in Minus(w, {k.window : k \in {l \in trips : l.by = p}})} :
                     w \in Minus(Required, s.fixed[p])}
  BY DEF ParentCare
<1>2. PICK w \in Minus(Required, s.fixed[p]) :
        \E v \in Minus(w, {k.window : k \in {l \in trips : l.by = p}}) : g = Care(p, Home, v)
  BY <1>1
<1>3. PICK v \in Minus(w, {k.window : k \in {l \in trips : l.by = p}}) : g = Care(p, Home, v)
  BY <1>2
<1>4. /\ w \in Window /\ Within(w, Required) /\ \A e \in s.fixed[p] : ~ Overlaps(w, e)
      /\ v \in Window /\ Within(v, w)
  BY <1>2, <1>3, MinusIsOutside
<1>5. s.fixed[p] \subseteq Window /\ Required \in Window
  BY ScenarioFields, TimeAssumption DEF Calendars
<1>6. Within(v, Required) /\ \A e \in s.fixed[p] : ~ Overlaps(v, e)
  BY <1>4, <1>5, WithinWithin, WithinAvoids
<1>7. /\ g.kind = "CARE" /\ g.who = p /\ g.window = v /\ g.from = Home /\ g.to = Home
  BY <1>3 DEF Care
<1>8. p \notin Listed(s)
  BY ScenarioFields, PersonAssumption
<1>9. PlaceOk(s, g)
  BY <1>7, <1>8 DEF PlaceOk
<1> QED
  BY <1>6, <1>7, <1>9 DEF SegmentOk, AssignmentOk, CalendarOk

\* All of them
LEMMA PrimitivesAreOk ==
  ASSUME NEW s, IsScenario(s), NEW g \in Primitives(s)
  PROVE  SegmentOk(s, g, TRUE)
BY TripsAreSegments, ParentTripsAreOk, ProviderTripsAreOk, CaregiverCareIsOk, ParentCareIsOk
DEF Primitives, WithTrips, Trips

\* Less of it
LEMMA NarrowedIsOk ==
  ASSUME NEW s, IsScenario(s), NEW k \in Segment, SegmentOk(s, k, TRUE), k.kind = "CARE",
         NEW v \in Window, Within(v, k.window), NEW g, g = [k EXCEPT !.window = v]
  PROVE  SegmentOk(s, g, TRUE)
<1>1. /\ g.kind = k.kind /\ g.who = k.who /\ g.from = k.from /\ g.to = k.to /\ g.window = v
  BY DEF Segment
<1>2. k.window \in Window /\ Required \in Window
  BY SegmentWindow, TimeAssumption
<1>3. Within(v, Required)
  BY <1>2, WithinWithin DEF SegmentOk
<1>4. AssignmentOk(s, g)
  <2>1. CASE g.who \in Parents
    BY <2>1 DEF AssignmentOk
  <2>2. CASE g.who \notin Parents
    <3>1. /\ k.who \in Listed(s) \ s.out
          /\ k.who \in External => s.external
          /\ s.trustedOnly => k.who \in Trusted
      BY <1>1, <2>2 DEF SegmentOk, AssignmentOk
    <3>2. PICK w \in s.free[k.who] : Within(k.window, w)
      BY <1>1, <2>2 DEF SegmentOk, AssignmentOk
    <3>3. w \in Window
      BY <3>1, <3>2, ScenarioFields
    <3>4. Within(v, w)
      BY <1>2, <3>2, <3>3, WithinWithin
    <3> QED
      BY <1>1, <3>1, <3>2, <3>4 DEF AssignmentOk
  <2> QED
    BY <2>1, <2>2
<1>5. PlaceOk(s, g)
  BY <1>1 DEF SegmentOk, PlaceOk
<1>6. CalendarOk(s, g, TRUE)
  <2> SUFFICES ASSUME g.who \in Parents, NEW e \in s.fixed[g.who]
               PROVE  ~ Overlaps(g.window, e)
    BY DEF CalendarOk
  <2>1. s.fixed[g.who] \subseteq Window
    BY ScenarioFields DEF Calendars
  <2>2. ~ Overlaps(k.window, e)
    BY <1>1 DEF SegmentOk, CalendarOk
  <2> QED
    BY <1>1, <1>2, <2>1, <2>2, WithinAvoids
<1> QED
  BY <1>1, <1>3, <1>4, <1>5, <1>6 DEF SegmentOk

\* What a run may compose a plan of, if the preserved work is still possible
LEMMA ScopedAreOk ==
  ASSUME NEW s, IsScenario(s), NEW scope \in Scope,
         \A g \in scope.kept : SegmentOk(s, g, TRUE),
         NEW g \in Scoped(Primitives(s), scope)
  PROVE  SegmentOk(s, g, TRUE)
<1>1. Primitives(s) \in SUBSET Segment
  BY PrimitivesAreSegments
<1>2. CASE ~ scope.replan
  BY <1>2, PrimitivesAreOk DEF Scoped
<1>3. CASE scope.replan
  <2>1. CASE g \in scope.kept
    BY <2>1
  <2>2. ASSUME NEW k \in Primitives(s), NEW a \in scope.affected,
               g = [k EXCEPT !.window = g.window],
               g.window \in Window, Within(g.window, k.window),
               g.kind # "CARE" => g = k
        PROVE  SegmentOk(s, g, TRUE)
    <3>1. k \in Segment /\ SegmentOk(s, k, TRUE)
      BY <1>1, PrimitivesAreOk
    <3>2. g.kind = k.kind
      BY <2>2, <3>1 DEF Segment
    <3> QED
      BY <2>2, <3>1, <3>2, NarrowedIsOk
  <2>3. ASSUME g \notin scope.kept
        PROVE  \E k \in Primitives(s) : \E a \in scope.affected :
                 /\ g = [k EXCEPT !.window = g.window]
                 /\ g.window \in Window /\ Within(g.window, k.window) /\ Within(g.window, a)
                 /\ g.kind # "CARE" => g = k
    BY <1>1, <1>3, <2>3, ScopedCases
  <2> QED
    BY <2>1, <2>2, <2>3
<1> QED
  BY <1>2, <1>3

-----------------------------------------------------------------------------
(* A selected journey is a valid repair.                                   *)

\* Without buffers a journey is a valid plan, once no meeting is in its way.
LEMMA JourneyIsValid ==
  ASSUME NEW s, IsScenario(s), Unbuffered(s), NEW scope \in Scope,
         \A g \in scope.kept : SegmentOk(s, g, TRUE),
         NEW left \in SUBSET Scoped(Primitives(s), scope), NEW j \in Journeys(left),
         NEW moves \in BOOLEAN,
         moves \/ \A g \in j : g.who \in Parents =>
                    \A e \in s.movable[g.who] : ~ Overlaps(g.window, e)
  PROVE  Valid(s, [segments |-> j, moves |-> moves])
<1>1. left \in SUBSET Segment
  BY PrimitivesAreSegments, ScopedAreSegments
<1>2. CoverageOk(s, j) /\ j \subseteq left
  BY <1>1, JourneyCovers, JourneyIsRelay
<1>3. ASSUME NEW g \in j PROVE SegmentOk(s, g, moves)
  <2>1. SegmentOk(s, g, TRUE)
    BY <1>2, ScopedAreOk
  <2>2. CalendarOk(s, g, moves)
    BY <2>1 DEF SegmentOk, CalendarOk
  <2> QED
    BY <2>1, <2>2 DEF SegmentOk
<1> QED
  BY <1>2, <1>3 DEF Valid

\* Preserved work that is in the plan survives in it.
LEMMA KeptSurvives ==
  ASSUME NEW kept \in SUBSET Segment, NEW p, kept \subseteq p.segments
  PROVE  \A g \in kept : Survives(g, p)
<1> SUFFICES ASSUME NEW g \in kept PROVE Survives(g, p)
  OBVIOUS
<1>1. g \in Segment /\ g \in p.segments
  OBVIOUS
<1>2. [g EXCEPT !.window = g.window] = g
  BY <1>1 DEF Segment
<1>3. Within(g.window, g.window)
  BY <1>1, SegmentWindow DEF Within
<1> QED
  BY <1>1, <1>2, <1>3 DEF Survives

\* Journeys of a replan keep what is preserved, whoever is hired.
LEMMA RunKeeps ==
  ASSUME DayInv, run.phase # "idle", Unbuffered(snapshot),
         NEW work \in SUBSET Segment, NEW left \in SUBSET Scoped(work, run.scope),
         NEW j \in Journeys(left),
         \A g \in run.scope.kept : Within(g.window, Required)
  PROVE  run.scope.kept \subseteq j
<1>1. run.scope \in Scope /\ plan.segments \in SUBSET Segment
  BY RunType DEF DayInv, GroundedInv, Working, RunOf, DayPlan
<1>2. CASE ~ run.scope.replan
  BY <1>2 DEF DayInv, GroundedInv, Grounded, InitialScope
<1>3. CASE run.scope.replan
  <2>1. status = "active" /\ run.scope = RepairScope(plan.segments, run.decline)
    BY <1>3 DEF DayInv, GroundedInv, Grounded
  <2>2. /\ Relay(plan.segments)
        /\ \A g \in plan.segments, h \in plan.segments :
             Adjacent(plan.segments, g, h) => h.window.start = g.window.end
    BY <2>1 DEF DayInv, Punctual
  <2> QED
    BY <1>1, <2>1, <2>2, JourneyKeeps
<1> QED
  BY <1>2, <1>3

\* A planner that selects a complete journey has a plan the validator accepts,
\* with all preserved work in it, whatever the family and the decline, if there
\* are no handoff buffers and the preserved work is still possible
\* (constraint_planner.py, materialize_primitive_selection; plan_validator.py).
THEOREM JourneysAreValid == Spec => []JourneysValidate
<1>1. DayInv => JourneysValidate
  <2> DEFINE facts == run.facts
             m == Matrix(run.facts, run.scope)
  <2> SUFFICES ASSUME DayInv, Starting, run.scope.replan, Unbuffered(facts),
                      \A g \in run.scope.kept : SegmentOk(facts, g, FALSE),
                      UsesSelection(facts, m), NEW j \in Journeys(m.work),
                      ~ (\E g \in j : AsksForMoves(g, facts))
               PROVE  ValidRepair(facts, [segments |-> j, moves |-> FALSE], run.scope.kept)
    BY DEF JourneysValidate
  <2>1. /\ IsScenario(facts) /\ run.scope \in Scope /\ SameFamily(snapshot, facts)
        /\ run.phase # "idle"
    <3>1. GroundedInv /\ run.phase # "idle"
      BY DEF DayInv, Starting
    <3>2. IsScenario(Judging(NoOne)) /\ SameFamily(snapshot, Judging(NoOne))
      BY <3>1, FactsHold
    <3>3. Judging(NoOne) = facts
      BY DEF Judging
    <3> QED
      BY <3>1, <3>2, <3>3, RunType DEF GroundedInv, Working, RunOf
  <2>2. Unbuffered(snapshot)
    BY <2>1 DEF Unbuffered, SameFamily
  <2>3. /\ m.work = Prune(Scoped(Primitives(facts), run.scope))
        /\ m.work \subseteq Scoped(Primitives(facts), run.scope)
    BY DEF Matrix, MatrixOf, Prune
  <2>4. Primitives(facts) \in SUBSET Segment
    BY <2>1, PrimitivesAreSegments
  <2>5. m.work \in SUBSET Segment
    BY <2>1, MatrixIsOfSegments
  <2>6. \A g \in run.scope.kept : SegmentOk(facts, g, TRUE) /\ Within(g.window, Required)
    BY DEF SegmentOk, CalendarOk
  <2>7. run.scope.kept \subseteq j
    BY <2>1, <2>2, <2>3, <2>4, <2>6, RunKeeps
  <2>8. \A g \in j : g.who \in Parents =>
          \A e \in facts.movable[g.who] : ~ Overlaps(g.window, e)
    <3> SUFFICES ASSUME NEW g \in j, g.who \in Parents, NEW e \in facts.movable[g.who],
                        Overlaps(g.window, e)
                 PROVE  FALSE
      OBVIOUS
    <3>1. g \in m.work /\ g \in Segment
      BY <2>5, JourneyIsRelay
    <3>2. g.kind # "CARE"
      BY <3>1 DEF UsesSelection, NeedsCalendarChange
    <3>3. g.kind # "TRANSPORT"
      BY DEF AsksForMoves
    <3> QED
      BY <3>1, <3>2, <3>3 DEF Segment
  <2>9. Valid(facts, [segments |-> j, moves |-> FALSE])
    BY <2>1, <2>3, <2>6, <2>8, JourneyIsValid
  <2>10. \A g \in run.scope.kept : Survives(g, [segments |-> j, moves |-> FALSE])
    BY <2>1, <2>7, KeptSurvives DEF Scope
  <2> QED
    BY <2>9, <2>10 DEF ValidRepair
<1> QED
  BY <1>1, InitDay, StepDay, PTL DEF Spec

-----------------------------------------------------------------------------
(* The candidate a run has hired completes the day.                        *)

\* Whoever is hired is a candidate that joins the day, and still is when a
\* proposal is repaired, as the run's facts and scope stay.
HiredJoins == run.hired # NoOne => Joins(run.facts, run.scope, run.hired)

HiredInv == GroundedInv /\ HiredJoins

\* Research hires a candidate that completes the day, or nobody is needed.
LEMMA HireableJoin ==
  ASSUME NEW facts, NEW scope, NEW k \in Hireable(facts, scope), k # NoOne
  PROVE  Joins(facts, scope, k)
<1>1. PICK r \in Rankings(facts, scope) : k \in Selected(facts, scope, r)
  BY DEF Hireable
<1> QED
  BY <1>1, SelectedAreRanked

\* A verdict keeps the candidate the proposal was made with.
LEMMA JudgeHires ==
  ASSUME Working, NEW k, k # NoOne => Joins(run.facts, run.scope, k),
         NEW p, NEW next, Judge(k, p, next)
  PROVE  HiredJoins'
<1>1. run \in RunOf(run.facts)
  BY RunType DEF Working
<1>2. CASE run' = Idle
  <2>1. run'.hired = NoOne
    BY <1>2 DEF Idle
  <2> QED
    BY <2>1 DEF HiredJoins
<1>3. CASE run' = [run EXCEPT !.phase = next, !.hired = k, !.judged = @ + 1,
                              !.sends = 0, !.reasonings = @ + 1]
  <2>1. run'.hired = k /\ run'.facts = run.facts /\ run'.scope = run.scope
    BY <1>1, <1>3 DEF RunOf
  <2> QED
    BY <2>1 DEF HiredJoins
<1> QED
  BY <1>2, <1>3 DEF Judge, Adopt, Exhaust

\* Only research hires somebody, and facts and scope change only between runs.
LEMMA StepHired == HiredInv /\ [Next]_vars => HiredInv'
<1> SUFFICES ASSUME HiredInv, [Next]_vars PROVE HiredJoins'
  BY StepGrounded DEF HiredInv
<1>1. Working /\ run \in RunOf(run.facts) /\ HiredJoins
  BY RunType DEF HiredInv, GroundedInv, Working
<1>2. ASSUME run'.hired = NoOne PROVE HiredJoins'
  BY <1>2 DEF HiredJoins
<1>3. ASSUME run'.hired = run.hired, run'.facts = run.facts, run'.scope = run.scope
      PROVE  HiredJoins'
  BY <1>1, <1>3 DEF HiredJoins
<1>4. ASSUME Hires PROVE HiredJoins'
  <2>1. PICK k \in Hireable(run.facts, run.scope) : run' = [run EXCEPT !.phase = "propose", !.hired = k]
    BY <1>4 DEF Hires
  <2>2. run'.hired = k /\ run'.facts = run.facts /\ run'.scope = run.scope
    BY <1>1, <2>1 DEF RunOf
  <2> QED
    BY <2>2, HireableJoin DEF HiredJoins
<1>5. CASE UNCHANGED vars \/ StartRecovery \/ \E d \in Reports : ReportDecline(d)
  <2>1. CASE run' = run
    BY <1>3, <2>1
  <2>2. ASSUME NEW facts, NEW scope, NEW d, Begin(facts, scope, d) PROVE HiredJoins'
    <3>1. run'.hired = NoOne
      BY <2>2 DEF Begin, Idle
    <3> QED
      BY <1>2, <3>1
  <2> QED
    BY <1>5, <2>1, <2>2 DEF vars, StartRecovery, ReportDecline
<1>6. ASSUME NEW next, Goes(next) PROVE HiredJoins'
  <2>1. run'.hired = run.hired /\ run'.facts = run.facts /\ run'.scope = run.scope
    BY <1>1, <1>6 DEF Goes, RunOf
  <2> QED
    BY <1>3, <2>1
<1>7. CASE Raise
  BY <1>2, <1>7 DEF Raise, Idle
<1>8. CASE PlannerAttempt
  BY <1>1, <1>8, JudgeHires DEF PlannerAttempt, HiredJoins
<1>9. CASE SingleAgentAttempt
  <2>1. PICK p : Judge(NoOne, p, "propose")
    BY <1>9 DEF SingleAgentAttempt
  <2> QED
    BY <1>1, <2>1, JudgeHires
<1>10. CASE LocalStep
  BY <1>4, <1>6, <1>7, <1>8, <1>9, <1>10
  DEF LocalStep, GatherContext, RefreshContext, ScopeInitial, ScopeReplan, SkipResearch,
      ResearchInitial, ResearchReplan, LocalRunRaises
<1>11. CASE Send \/ ConnectFails \/ ConnectionClosed
  <2>1. run'.hired = run.hired /\ run'.facts = run.facts /\ run'.scope = run.scope
    BY <1>1, <1>11 DEF Send, ConnectFails, ConnectionClosed, RunOf
  <2> QED
    BY <1>3, <2>1
<1>12. CASE RuntimeAnswers
  <2>1. PICK k, p : /\ k \in RuntimeCandidates
                     /\ Judge(k, p, "send")
    BY <1>12 DEF RuntimeAnswers, RuntimeReasoning
  <2>2. k # NoOne => Joins(run.facts, run.scope, k)
    BY <1>1, <2>1, HireableJoin DEF RuntimeCandidates, HiredJoins
  <2> QED
    BY <1>1, <2>1, <2>2, JudgeHires
<1> QED
  BY <1>5, <1>7, <1>10, <1>11, <1>12 DEF Next, RemoteStep, InvocationFails

\* Nobody is hired before the first run.
LEMMA InitHired == Init => HiredInv
<1>1. Idle.hired = NoOne
  BY DEF Idle
<1> QED
  BY <1>1, InitGrounded DEF Init, HiredInv, HiredJoins

-----------------------------------------------------------------------------
(* Preserved work that was possible before is possible with them.          *)

\* A journey of some primitives is a journey of fewer that has all of its own.
LEMMA JourneyOfFewer ==
  ASSUME NEW work \in SUBSET Segment, NEW left \in SUBSET work,
         NEW j \in Journeys(work), j \subseteq left
  PROVE  j \in Journeys(left)
<1> DEFINE Bad == {g \in left : \E i \in Onward(work)[g] : i \subseteq left /\ i \notin Onward(left)[g]}
<1>1. Bad = {}
  <2> SUFFICES ASSUME Bad # {} PROVE FALSE
    OBVIOUS
  <2>1. PICK g \in Bad : \A h \in Bad : ~ Before(g, h)
    BY LastExists
  <2>2. PICK i \in Onward(work)[g] : i \subseteq left /\ i \notin Onward(left)[g]
    OBVIOUS
  <2>3. ~ (g.window.end = Required.end /\ i = {g})
    BY <2>2, OnwardCases
  <2>4. PICK h \in work : \E k \in Onward(work)[h] :
          h.window.start = g.window.end /\ h.from = g.to /\ i = {g} \cup k
    BY <2>2, <2>3, OnwardCases
  <2>5. PICK k \in Onward(work)[h] :
          h.window.start = g.window.end /\ h.from = g.to /\ i = {g} \cup k
    BY <2>4
  <2>6. h \in k /\ k \subseteq left /\ h \in left
    BY <2>2, <2>5, OnwardIsOfWork
  <2>7. Before(g, h)
    BY <2>5, SegmentWindow DEF Before
  <2>8. k \in Onward(left)[h]
    BY <2>1, <2>5, <2>6, <2>7
  <2>9. i \in Onward(left)[g]
    BY <2>5, <2>6, <2>8, OnwardCases
  <2> QED
    BY <2>2, <2>9
<1>2. PICK g \in work : /\ g.window.start = Required.start /\ g.from = Home
                        /\ j \in Onward(work)[g]
  BY DEF Journeys
<1>3. g \in left
  BY <1>2, OnwardIsOfWork
<1>4. j \in Onward(left)[g]
  BY <1>1, <1>2, <1>3
<1> QED
  BY <1>2, <1>3, <1>4 DEF Journeys

\* So there is a journey of what pruning left with every primitive it left.
LEMMA PrunedIsOnJourney ==
  ASSUME NEW work \in SUBSET Segment, NEW g \in Prune(work)
  PROVE  \E j \in Journeys(Prune(work)) : g \in j
<1>1. PICK j \in Journeys(work) : g \in j
  BY PruneIsExact
<1>2. j \subseteq Prune(work) /\ Prune(work) \subseteq work
  BY PruneIsExact DEF Prune
<1> QED
  BY <1>1, <1>2, JourneyOfFewer

\* A candidate the run lists already is free at most when they offered to be.
LEMMA ListedCandidatesOffered ==
  ASSUME GroundedInv, run.phase # "idle", NEW c \in Listed(run.facts) \cap Candidates,
         NEW w \in run.facts.free[c]
  PROVE  \E v \in Offer[c] : Within(w, v)
<1>1. /\ IsScenario(snapshot) /\ researched \in Candidates \cup {NoOne}
      /\ Listed(snapshot) \subseteq Known
  BY RunType, InputAssumption DEF GroundedInv, Working
<1>2. run.scope.replan
  <2> SUFFICES ASSUME ~ run.scope.replan PROVE FALSE
    OBVIOUS
  <2>1. run.facts = snapshot
    BY DEF GroundedInv, Grounded
  <2> QED
    BY <1>1, <2>1, PersonAssumption
<1>3. run.facts = WithoutDeclined(CaseFacts, run.decline)
  BY <1>2 DEF GroundedInv, Grounded
<1>4. /\ IsScenario(CaseFacts)
      /\ \A k \in Listed(CaseFacts) :
           /\ Offered(k) \subseteq Window
           /\ \A u \in CaseFacts.free[k] : \E v \in Offered(k) : u \in Minus(v, DeclinedBy(k))
  BY <1>1, CaseScenario
<1>5. Less(CaseFacts, run.decline, run.facts)
  BY <1>3, <1>4, DeclinedScenario
<1>6. c \in Listed(CaseFacts)
  BY <1>5 DEF Less
<1>7. PICK u \in CaseFacts.free[c] : u \in Window /\ w \in Window /\ Within(w, u)
  <2>1. CASE c = run.decline.who
    <3>1. PICK u \in CaseFacts.free[c] : w \in Minus(u, {run.decline.window})
      BY <1>5, <1>6, <2>1 DEF Less
    <3> QED
      BY <1>4, <1>6, <3>1, MinusIsOutside, ScenarioFields
  <2>2. CASE c # run.decline.who
    <3>1. w \in CaseFacts.free[c]
      BY <1>5, <1>6, <2>2 DEF Less
    <3>2. w \in Window
      BY <1>4, <1>6, <3>1, ScenarioFields
    <3>3. Within(w, w)
      BY <3>2, TimeAssumption DEF Within, Window, Time
    <3> QED
      BY <3>1, <3>2, <3>3
  <2> QED
    BY <2>1, <2>2
<1>8. PICK v \in Offered(c) : v \in Window /\ u \in Minus(v, DeclinedBy(c))
  BY <1>4, <1>6
<1>9. Within(u, v)
  BY <1>8, MinusIsOutside
<1>10. Within(w, v)
  BY <1>7, <1>8, <1>9, WithinWithin
<1> QED
  BY <1>8, <1>10 DEF Offered

\* Work that is possible is possible when a candidate is hired: there is one
\* more caregiver, or one who was listed is as free as they offered once.
LEMMA HiringHarmsNothing ==
  ASSUME GroundedInv, run.phase # "idle", NEW k \in Candidates, NEW g \in Segment,
         SegmentOk(run.facts, g, TRUE)
  PROVE  SegmentOk(Judging(k), g, TRUE)
<1> DEFINE s == run.facts
           n == Judging(k)
<1>1. IsScenario(s) /\ NoOne \notin Candidates
  BY RunType, InputAssumption DEF GroundedInv, Working, Person, Caregivers
<1>2. n = WithResearched(s, k)
  BY <1>1 DEF Judging
<1>3. /\ IsScenario(n) /\ SameFamily(s, n) /\ Listed(n) = Listed(s) \cup {k}
      /\ n.free[k] = Offer[k]
      /\ \A c \in Listed(s) \ {k} : n.free[c] = s.free[c]
  BY <1>1, <1>2, ResearchedScenario
<1>4. \A c \in Listed(s) : \A w \in s.free[c] : \E v \in n.free[c] : v \in Window /\ Within(w, v)
  <2> SUFFICES ASSUME NEW c \in Listed(s), NEW w \in s.free[c]
               PROVE  \E v \in n.free[c] : v \in Window /\ Within(w, v)
    OBVIOUS
  <2>1. w \in Window /\ n.free[c] \subseteq Window
    BY <1>1, <1>3, ScenarioFields
  <2>2. Within(w, w)
    BY <2>1, TimeAssumption DEF Within, Window, Time
  <2>3. CASE c = k
    BY <1>3, <2>1, <2>3, ListedCandidatesOffered
  <2>4. CASE c # k
    BY <1>3, <2>1, <2>2, <2>4
  <2> QED
    BY <2>3, <2>4
<1>5. \A c \in Listed(s) : (\E w \in s.free[c] : Within(g.window, w)) =>
        \E v \in n.free[c] : Within(g.window, v)
  <2> SUFFICES ASSUME NEW c \in Listed(s), NEW w \in s.free[c], Within(g.window, w)
               PROVE  \E v \in n.free[c] : Within(g.window, v)
    OBVIOUS
  <2>1. PICK v \in n.free[c] : v \in Window /\ Within(w, v)
    BY <1>4
  <2>2. w \in Window /\ g.window \in Window
    BY <1>1, ScenarioFields, SegmentWindow
  <2> QED
    BY <2>1, <2>2, WithinWithin
<1>6. AssignmentOk(n, g)
  BY <1>3, <1>5 DEF SegmentOk, AssignmentOk, SameFamily
<1>7. g.kind = "TRANSPORT" /\ TransporterOk(s, g) => TransporterOk(n, g)
  BY <1>3, <1>5 DEF TransporterOk, SameFamily
<1>8. PlaceOk(n, g)
  <2>1. g.who \in Listed(n) => g.who \in Listed(s)
    BY <1>3, PersonAssumption DEF SegmentOk, AssignmentOk, Caregivers
  <2>2. g.kind = "CARE" \/ g.kind = "TRANSPORT"
    BY DEF Segment
  <2> QED
    BY <1>3, <1>7, <2>1, <2>2 DEF SegmentOk, PlaceOk
<1>9. CalendarOk(n, g, TRUE)
  BY <1>3 DEF SegmentOk, CalendarOk, SameFamily
<1> QED
  BY <1>6, <1>8, <1>9 DEF SegmentOk

\* The provider that research picks really completes the day: with all preserved
\* work and some care of theirs there is a valid plan, if meetings may be moved,
\* whatever was proposed and rejected since (research_planability.py).
THEOREM HiringIsEnough == Spec => []HiringSuffices
<1>1. DayInv /\ HiredInv => HiringSuffices
  <2> DEFINE facts == Judging(run.hired)
             m == Matrix(facts, run.scope)
  <2> SUFFICES ASSUME DayInv, HiredInv, run.phase # "idle", run.hired # NoOne,
                      Unbuffered(run.facts),
                      \A g \in run.scope.kept : SegmentOk(run.facts, g, TRUE)
               PROVE  \E j \in Journeys(m.work) :
                        /\ \E g \in j : g.kind = "CARE" /\ g.who = run.hired
                        /\ ValidRepair(facts, [segments |-> j, moves |-> TRUE], run.scope.kept)
    BY DEF HiringSuffices
  <2>1. /\ GroundedInv /\ IsScenario(run.facts) /\ run.scope \in Scope
        /\ run.hired \in Candidates
    BY RunType DEF DayInv, GroundedInv, Working, RunOf
  <2>2. IsScenario(facts) /\ SameFamily(snapshot, facts)
    BY <2>1, FactsHold
  <2>3. SameFamily(snapshot, run.facts)
    <3>1. SameFamily(snapshot, Judging(NoOne))
      BY <2>1, FactsHold
    <3> QED
      BY <3>1 DEF Judging
  <2>4. Unbuffered(snapshot) /\ Unbuffered(facts)
    BY <2>2, <2>3 DEF Unbuffered, SameFamily
  <2>5. \A g \in run.scope.kept : SegmentOk(facts, g, TRUE) /\ Within(g.window, Required)
    <3>1. run.scope.kept \subseteq Segment
      BY <2>1 DEF Scope
    <3> QED
      BY <2>1, <3>1, HiringHarmsNothing DEF SegmentOk
  <2>6. facts = WithResearched(run.facts, run.hired)
    BY DEF Judging
  <2>7. PICK g \in m.work : g.kind = "CARE" /\ g.who = run.hired
    BY <2>6 DEF HiredInv, HiredJoins, Joins
  <2>8. /\ m.work = Prune(Scoped(Primitives(facts), run.scope))
        /\ m.work \in SUBSET Scoped(Primitives(facts), run.scope)
    BY DEF Matrix, MatrixOf, Prune
  <2>9. /\ Primitives(facts) \in SUBSET Segment
        /\ Scoped(Primitives(facts), run.scope) \in SUBSET Segment
    BY <2>1, <2>2, PrimitivesAreSegments, ScopedAreSegments
  <2> HIDE DEF facts, m
  <2>10. PICK j \in Journeys(m.work) : g \in j
    BY <2>8, <2>9, PrunedIsOnJourney
  <2>11. run.scope.kept \subseteq j
    BY <2>4, <2>5, <2>8, <2>9, RunKeeps
  <2>12. Valid(facts, [segments |-> j, moves |-> TRUE])
    BY <2>1, <2>2, <2>4, <2>5, <2>8, JourneyIsValid
  <2>13. \A h \in run.scope.kept : Survives(h, [segments |-> j, moves |-> TRUE])
    BY <2>1, <2>11, KeptSurvives DEF Scope
  <2> QED
    BY <2>7, <2>10, <2>12, <2>13 DEF ValidRepair
<1> QED
  BY <1>1, InitDay, StepDay, InitHired, StepHired, PTL DEF Spec

=============================================================================
