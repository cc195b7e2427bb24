------------------------ MODULE RecoveryServiceProofs ------------------------
(***************************************************************************)
(* Safety of RecoveryService for every scenario, policy, set of threads    *)
(* and number of events.                                                   *)
(*                                                                         *)
(* The argument: a save succeeds only while the stored version is the one  *)
(* the thread read, and then what it read is the stored case (Snapshot);   *)
(* so every save applies one operation of the aggregate to the stored      *)
(* case, and each of those keeps the case well formed and loses nothing    *)
(* (Keeps, in the first part).  What a thread read stays true of the       *)
(* stored case in the two respects execution relies on, the plans it ever  *)
(* had and the approvals it ever got (Extends).                            *)
(***************************************************************************)
EXTENDS RecoveryService, SequenceTheorems, TLAPS

(* What the operations on a RecoveryCase preserve, whatever the scenario    *)
(* and the policy: the case stays well formed, and nothing recorded in it   *)
(* is lost.                                                                 *)

\* Plans are numbered in the order in which they were accepted, and a broken
\* plan is the last of the previous ones.
Numbered(c) ==
  /\ \A i \in DOMAIN c.prev : c.prev[i].id = i
  /\ c.plan = NoPlan => c.prev = <<>> /\ ~ c.valid
  /\ c.plan # NoPlan /\ c.valid => c.plan.id = Len(c.prev) + 1
  /\ c.plan # NoPlan /\ ~ c.valid => Len(c.prev) > 0 /\ c.plan = c.prev[Len(c.prev)]

\* The pending request is open; a case that waits for the parent has one, and
\* it is about the plan that is active and valid.
Answerable(c) ==
  /\ c.pending \in 0 .. Len(c.approvals)
  /\ c.pending # 0 => c.approvals[c.pending].status = "PENDING"
  /\ c.status = "APPROVAL_REQUIRED" =>
       /\ c.pending # 0
       /\ c.plan # NoPlan
       /\ c.valid
       /\ c.approvals[c.pending].plan = c.plan.id

WellFormed(c) == c \in Case /\ Numbered(c) /\ Answerable(c)

\* d is a later state of the case c.
Keeps(c, d) ==
  /\ EverPlans(c) \subseteq EverPlans(d)
  /\ Len(c.approvals) <= Len(d.approvals)
  /\ \A i \in DOMAIN c.approvals :
       /\ d.approvals[i].plan = c.approvals[i].plan
       /\ c.approvals[i].status # "PENDING" => d.approvals[i] = c.approvals[i]
       /\ d.approvals[i] # c.approvals[i] =>
            c.valid /\ c.plan.id = c.approvals[i].plan
  /\ c.declines \subseteq d.declines
  /\ Len(c.prev) <= Len(d.prev) /\ \A i \in 1 .. Len(c.prev) : d.prev[i] = c.prev[i]
  /\ c.done \subseteq d.done
  /\ d.plan.id = c.plan.id => d.plan = c.plan

-----------------------------------------------------------------------------
(* Values. *)

\* The absent plan has the type of a plan.
LEMMA NoPlanTyped == NoPlan \in Plan
BY DEF NoPlan, Plan

\* The absent case is well formed.
LEMMA NoCaseWellFormed == WellFormed(NoCase)
<1>1. NoCase \in Case
  BY NoPlanTyped DEF NoCase, Case, Status
<1>2. Numbered(NoCase)
  BY DEF NoCase, Numbered
<1>3. Answerable(NoCase)
  BY DEF NoCase, Answerable
<1> QED
  BY <1>1, <1>2, <1>3 DEF WellFormed

\* The version number plays no part in either notion.
LEMMA VersionIrrelevant ==
  ASSUME NEW b, NEW c, NEW n \in Nat, WellFormed(c)
  PROVE  /\ WellFormed([c EXCEPT !.version = n])
         /\ Keeps(b, c) => Keeps(b, [c EXCEPT !.version = n])
<1> DEFINE d == [c EXCEPT !.version = n]
<1>1. /\ d \in Case
      /\ d.prev = c.prev /\ d.plan = c.plan /\ d.valid = c.valid
      /\ d.pending = c.pending /\ d.approvals = c.approvals /\ d.status = c.status
      /\ d.declines = c.declines /\ d.done = c.done
  BY DEF WellFormed, Case
<1> HIDE DEF d
<1>2. WellFormed(d)
  BY <1>1 DEF WellFormed, Numbered, Answerable
<1>3. EverPlans(d) = EverPlans(c)
  BY <1>1 DEF EverPlans
<1>4. Keeps(b, c) => Keeps(b, d)
  BY <1>1, <1>3 DEF Keeps
<1> QED
  BY <1>2, <1>4 DEF d

-----------------------------------------------------------------------------
(* What a plan requires. *)

Coverage == [Tick -> Person \cup {NoOne}]

\* A care segment is a caregiver and a window within the horizon.
LEMMA CareSegmentsTyped ==
  ASSUME NEW cover \in Coverage, NEW s \in CareSegments(cover)
  PROVE  s.who \in Caregiver /\ s.window \subseteq Tick
<1>1. s \in Segments(cover) /\ s.who \in Caregiver
  BY DEF CareSegments
<1>2. PICK r \in Runs(cover) : s = [who |-> cover[r[1]], window |-> r[1] .. r[2]]
  BY <1>1 DEF Segments
<1>3. r[1] \in 1 .. Horizon /\ r[2] \in 1 .. Horizon
  BY <1>2 DEF Runs, Tick
<1>4. r[1] .. r[2] \subseteq 1 .. Horizon
  BY <1>3, HorizonAssumption
<1> QED
  BY <1>1, <1>2, <1>4 DEF Tick

\* materialize_caregiver_assumptions yields assumptions.
LEMMA AssumptionsTyped ==
  ASSUME NEW plan \in Plan
  PROVE  Assumptions(plan) \subseteq Assumption
<1>1. plan.id \in Nat /\ plan.cover \in Coverage
  BY DEF Plan, Coverage
<1>2. ASSUME NEW s \in CareSegments(plan.cover)
      PROVE  [plan |-> plan.id, who |-> s.who, window |-> s.window, active |-> TRUE]
               \in Assumption
  BY <1>1, <1>2, CareSegmentsTyped DEF Assumption
<1> QED
  BY <1>2 DEF Assumptions

\* required_execution_actions yields actions, keyed by the plan's id.
LEMMA ActionsTyped ==
  ASSUME NEW plan \in Plan
  PROVE  /\ RequiredActions(plan) \subseteq Action
         /\ \A a \in RequiredActions(plan) : a.plan = plan.id
<1>1. plan.id \in Nat /\ plan.cover \in Coverage
  BY DEF Plan, Coverage
<1>2. Caregiver \subseteq Person /\ Parent \in Person
  BY DEF Person
<1>3. \A t \in Movable : {t} \subseteq Tick
  BY ScenarioAssumption
<1>4. ASSUME NEW s \in CareSegments(plan.cover)
      PROVE  [plan |-> plan.id, who |-> s.who, window |-> s.window] \in Action
  BY <1>1, <1>2, <1>4, CareSegmentsTyped DEF Action
<1>5. ASSUME NEW t \in Movable
      PROVE  [plan |-> plan.id, who |-> Parent, window |-> {t}] \in Action
  BY <1>1, <1>2, <1>3 DEF Action
<1> QED
  BY <1>4, <1>5 DEF RequiredActions

-----------------------------------------------------------------------------
(* Plan ids. *)

\* The first id tried is free, since the plans before are numbered 1, 2, ...
LEMMA NextPlanIdIsNext ==
  ASSUME NEW plans \in Seq(Plan), \A i \in DOMAIN plans : plans[i].id = i
  PROVE  NextPlanId(plans) = Len(plans) + 1
<1> DEFINE P(n) == /\ n \notin PlanIds(plans)
                  /\ \A m \in Len(plans) + 1 .. n - 1 : m \in PlanIds(plans)
           C == Len(plans) + 1 .. 2 * Len(plans) + 1
<1>1. Len(plans) \in Nat /\ DOMAIN plans = 1 .. Len(plans)
  OBVIOUS
<1>2. PlanIds(plans) = 1 .. Len(plans)
  BY <1>1 DEF PlanIds
<1>3. Len(plans) + 1 \in C /\ P(Len(plans) + 1)
  BY <1>1, <1>2
<1>4. \A n \in C : P(n) => n = Len(plans) + 1
  BY <1>1, <1>2
<1>5. NextPlanId(plans) = CHOOSE n \in C : P(n)
  BY DEF NextPlanId
<1> HIDE DEF P, C
<1> QED
  BY <1>3, <1>4, <1>5

\* _accept_plan yields a plan whose id follows those of the plans before.
LEMMA AcceptedPlanIsNext ==
  ASSUME NEW plans \in Seq(Plan), \A i \in DOMAIN plans : plans[i].id = i,
         NEW cover \in Coverage
  PROVE  /\ AcceptedPlan(plans, cover) \in Plan
         /\ AcceptedPlan(plans, cover).id = Len(plans) + 1
         /\ AcceptedPlan(plans, cover) # NoPlan
<1>1. NextPlanId(plans) = Len(plans) + 1 /\ Len(plans) \in Nat
  BY NextPlanIdIsNext
<1>2. NeedsApproval(cover) \in BOOLEAN
  BY DEF NeedsApproval
<1> QED
  BY <1>1, <1>2 DEF AcceptedPlan, Plan, Coverage, NoPlan

-----------------------------------------------------------------------------
(* Proposals. *)

\* What a planner run proposes is a coverage, and at most one candidate.
LEMMA ProposalsTyped ==
  ASSUME NEW avail, NEW gap, NEW hireable, NEW old, NEW kept,
         DOMAIN avail \subseteq Caregiver, hireable \subseteq Candidate,
         NEW p \in ValidProposals(avail, gap, hireable, old, kept)
  PROVE  p.cover \in Coverage /\ p.researched \in Candidate \cup {NoOne}
<1>1. ASSUME NEW people \in SUBSET Caregiver, NEW a, NEW f \in Covers(people, a, old, kept)
      PROVE  f \in Coverage
  BY <1>1 DEF Covers, Coverage, Person
<1>2. CASE p.researched = NoOne /\ p.cover \in Covers(DOMAIN avail, avail, old, kept)
  BY <1>1, <1>2
<1>3. ASSUME NEW k \in hireable, p.researched = k,
             p.cover \in Covers(DOMAIN avail \cup {k}, WithCandidate(avail, k), old, kept)
      PROVE  p.cover \in Coverage /\ p.researched \in Candidate
  BY <1>1, <1>3 DEF Caregiver
<1>4. CASE \E f \in Covers(DOMAIN avail, avail, old, kept) :
             p = [cover |-> f, researched |-> NoOne]
  BY <1>2, <1>4
<1>5. CASE \E k \in hireable :
             \E f \in Covers(DOMAIN avail \cup {k}, WithCandidate(avail, k), old, kept) :
               p = [cover |-> f, researched |-> k]
  BY <1>3, <1>5
<1> QED
  BY <1>4, <1>5 DEF ValidProposals

\* Research only ever proposes candidates.
LEMMA PlanableTyped ==
  ASSUME NEW external, NEW need
  PROVE  Planable(external, need) \subseteq Candidate
BY DEF Planable

\* The same of the plans a recovery may start with.
LEMMA InitialProposalsTyped ==
  ASSUME NEW external, NEW p \in InitialProposals(external)
  PROVE  p.cover \in Coverage /\ p.researched \in Candidate \cup {NoOne}
<1>1. DOMAIN BaseAvailability \subseteq Caregiver
  BY ScenarioAssumption DEF Caregiver
<1> QED
  BY <1>1, PlanableTyped, ProposalsTyped DEF InitialProposals

\* _scenario_for yields the availability of caregivers.
LEMMA ScenarioTyped ==
  ASSUME NEW c \in Case
  PROVE  /\ DOMAIN ScenarioFor(c) \subseteq Caregiver
         /\ \A p \in DOMAIN ScenarioFor(c) : ScenarioFor(c)[p] \subseteq Tick
<1>1. People(c) \subseteq Caregiver
  BY DEF People, Case, Caregiver
<1>2. \A p \in Caregiver : (IF p \in Known THEN BaseAvailability[p] ELSE Offer[p]) \subseteq Tick
  BY ScenarioAssumption DEF Caregiver
<1> QED
  BY <1>1, <1>2 DEF ScenarioFor

\* The same of the plans that may replace a broken one.
LEMMA ReplacementsTyped ==
  ASSUME NEW c \in Case, NEW d, NEW p \in Replacements(c, d)
  PROVE  p.cover \in Coverage /\ p.researched \in Candidate \cup {NoOne}
<1>1. DOMAIN LessDecline(ScenarioFor(c), d) \subseteq Caregiver
  BY ScenarioTyped DEF LessDecline
<1> QED
  BY <1>1, PlanableTyped, ProposalsTyped DEF Replacements

-----------------------------------------------------------------------------
(* Declines and replacements. *)

\* What AfterDecline makes of each field that matters here.
LEMMA DeclineFields ==
  ASSUME NEW c, WellFormed(c), NEW d \in Decline, Applicable(c, d)
  PROVE  /\ AfterDecline(c, d) \in Case
         /\ AfterDecline(c, d).status = "REPLANNING"
         /\ AfterDecline(c, d).version = c.version
         /\ AfterDecline(c, d).plan = c.plan /\ c.plan # NoPlan
         /\ c.valid /\ ~ AfterDecline(c, d).valid
         /\ c.plan.id = Len(c.prev) + 1
         /\ AfterDecline(c, d).prev = Append(c.prev, c.plan)
         /\ AfterDecline(c, d).declines = c.declines \cup {d}
         /\ AfterDecline(c, d).done = c.done
         /\ AfterDecline(c, d).pending = c.pending
         /\ AfterDecline(c, d).approvals = c.approvals
<1> DEFINE n == AfterDecline(c, d)
           assumed == {[a EXCEPT !.active = @ /\ ~ Breaks(a, d)] : a \in c.assumed}
<1>1. c \in Case /\ Numbered(c) /\ c.plan # NoPlan /\ c.valid
  BY DEF WellFormed, Applicable
<1>2. c.prev \in Seq(Plan) /\ c.plan \in Plan /\ c.plan.id = Len(c.prev) + 1
  BY <1>1 DEF Case, Numbered
<1>3. c.plan.id \notin PlanIds(c.prev)
  <2>1. DOMAIN c.prev = 1 .. Len(c.prev) /\ Len(c.prev) \in Nat
    BY <1>2
  <2> QED
    BY <1>1, <1>2, <2>1 DEF PlanIds, Numbered
<1>4. Remember(c.prev, c.plan) = Append(c.prev, c.plan)
  BY <1>3 DEF Remember
<1>5. Append(c.prev, c.plan) \in Seq(Plan)
  BY <1>2
<1>6. assumed \subseteq Assumption
  <2>1. ASSUME NEW a \in Assumption
        PROVE  [a EXCEPT !.active = @ /\ ~ Breaks(a, d)] \in Assumption
    BY DEF Assumption
  <2> QED
    BY <1>1, <2>1 DEF Case
<1>7. n = [c EXCEPT !.status = "REPLANNING", !.valid = FALSE,
                    !.prev = Append(c.prev, c.plan), !.assumed = assumed,
                    !.declines = c.declines \cup {d}]
  BY <1>1, <1>4 DEF AfterDecline, Case
<1> HIDE DEF n, assumed
<1>8. c.declines \cup {d} \subseteq Decline
  BY <1>1 DEF Case
<1>9. n \in Case
  BY <1>1, <1>5, <1>6, <1>7, <1>8 DEF Case, Status
<1>10. /\ n.status = "REPLANNING" /\ n.version = c.version /\ n.plan = c.plan
       /\ n.valid = FALSE /\ n.prev = Append(c.prev, c.plan)
       /\ n.declines = c.declines \cup {d} /\ n.done = c.done
       /\ n.pending = c.pending /\ n.approvals = c.approvals
  BY <1>1, <1>7 DEF Case
<1> QED
  BY <1>1, <1>2, <1>9, <1>10 DEF n

\* An operation that leaves the approval history alone loses no decision.
LEMMA SameApprovalsKept ==
  ASSUME NEW c, NEW n, WellFormed(c), n.approvals = c.approvals
  PROVE  /\ Len(c.approvals) <= Len(n.approvals)
         /\ \A i \in DOMAIN c.approvals :
              /\ n.approvals[i].plan = c.approvals[i].plan
              /\ c.approvals[i].status # "PENDING" => n.approvals[i] = c.approvals[i]
              /\ n.approvals[i] # c.approvals[i] =>
                   c.valid /\ c.plan.id = c.approvals[i].plan
<1>1. Len(c.approvals) \in Nat
  BY DEF WellFormed, Case
<1> QED
  BY <1>1

\* A recorded decline, whether the case then waits for a replacement or ends
\* without an option.
LEMMA DeclineKeeps ==
  ASSUME NEW c, WellFormed(c), NEW d \in Decline, Applicable(c, d),
         NEW st \in {"REPLANNING", "NO_RECOVERY_OPTION"}
  PROVE  LET n == [AfterDecline(c, d) EXCEPT !.status = st]
         IN  WellFormed(n) /\ Keeps(c, n) /\ n.version = c.version
<1> DEFINE h == AfterDecline(c, d)
           n == [h EXCEPT !.status = st]
<1>1. c.prev \in Seq(Plan) /\ c.plan \in Plan /\ c.approvals \in Seq(Approval)
  BY DEF WellFormed, Case
<1>h. /\ h \in Case /\ h.version = c.version
      /\ h.plan = c.plan /\ c.plan # NoPlan /\ c.valid /\ ~ h.valid
      /\ c.plan.id = Len(c.prev) + 1
      /\ h.prev = Append(c.prev, c.plan) /\ h.declines = c.declines \cup {d}
      /\ h.done = c.done /\ h.pending = c.pending /\ h.approvals = c.approvals
  BY DeclineFields
<1> HIDE DEF h
<1>2. /\ n \in Case /\ n.status = st /\ n.version = c.version
      /\ n.plan = c.plan /\ c.plan # NoPlan /\ c.valid /\ ~ n.valid
      /\ c.plan.id = Len(c.prev) + 1
      /\ n.prev = Append(c.prev, c.plan) /\ n.declines = c.declines \cup {d}
      /\ n.done = c.done /\ n.pending = c.pending /\ n.approvals = c.approvals
  BY <1>h DEF Case, Status
<1> HIDE DEF n
<1>3. /\ Len(n.prev) = Len(c.prev) + 1
      /\ \A i \in 1 .. Len(c.prev) : n.prev[i] = c.prev[i]
      /\ n.prev[Len(c.prev) + 1] = c.plan
      /\ DOMAIN n.prev = 1 .. Len(c.prev) + 1
      /\ DOMAIN c.prev = 1 .. Len(c.prev)
      /\ Len(c.prev) \in Nat
  BY <1>1, <1>2
<1>4. Numbered(n)
  BY <1>2, <1>3 DEF Numbered, WellFormed
<1>5. Answerable(n)
  BY <1>2 DEF Answerable, WellFormed
<1>6. EverPlans(c) \subseteq EverPlans(n)
  BY <1>2, <1>3 DEF EverPlans
<1>7. Keeps(c, n)
  BY <1>2, <1>3, <1>6, SameApprovalsKept DEF Keeps
<1> QED
  BY <1>2, <1>4, <1>5, <1>7 DEF WellFormed, n, h

\* apply_caregiver_decline keeps the case well formed and loses nothing.
LEMMA AfterDeclineKeeps ==
  ASSUME NEW c, WellFormed(c), NEW d \in Decline, Applicable(c, d)
  PROVE  WellFormed(AfterDecline(c, d)) /\ Keeps(c, AfterDecline(c, d))
<1>1. AfterDecline(c, d) = [AfterDecline(c, d) EXCEPT !.status = "REPLANNING"]
  BY DeclineFields DEF Case
<1> QED
  BY <1>1, DeclineKeeps

\* The replacement plan gets the next id and leaves the rest as it is.
LEMMA AfterReplanKeeps ==
  ASSUME NEW c, WellFormed(c), NEW d \in Decline, Applicable(c, d),
         NEW p \in Replacements(c, d)
  PROVE  LET n == AfterReplan(c, d, p)
         IN  /\ WellFormed(n) /\ Keeps(c, n) /\ n.version = c.version
             /\ n.valid /\ n.plan # NoPlan /\ n.status = "EXECUTING"
<1> DEFINE h == AfterDecline(c, d)
           new == AcceptedPlan(h.prev, p.cover)
           n == AfterReplan(c, d, p)
<1>1. c.prev \in Seq(Plan) /\ c.plan \in Plan /\ c \in Case
  BY DEF WellFormed, Case
<1>2. p.cover \in Coverage /\ p.researched \in Candidate \cup {NoOne}
  BY <1>1, ReplacementsTyped
<1>3. /\ h \in Case /\ h.version = c.version /\ c.plan # NoPlan /\ c.valid
      /\ c.plan.id = Len(c.prev) + 1
      /\ h.prev = Append(c.prev, c.plan) /\ h.declines = c.declines \cup {d}
      /\ h.done = c.done /\ h.pending = c.pending /\ h.approvals = c.approvals
  BY DeclineFields
<1>4. WellFormed(h) /\ Keeps(c, h)
  BY AfterDeclineKeeps
<1>5. /\ Len(h.prev) = Len(c.prev) + 1
      /\ \A i \in 1 .. Len(c.prev) : h.prev[i] = c.prev[i]
      /\ h.prev[Len(c.prev) + 1] = c.plan
      /\ DOMAIN h.prev = 1 .. Len(c.prev) + 1
      /\ DOMAIN c.prev = 1 .. Len(c.prev)
      /\ Len(c.prev) \in Nat /\ h.prev \in Seq(Plan)
  BY <1>1, <1>3
<1>6. \A i \in DOMAIN h.prev : h.prev[i].id = i
  BY <1>4 DEF WellFormed, Numbered
<1>7. new \in Plan /\ new.id = Len(h.prev) + 1 /\ new # NoPlan
  BY <1>2, <1>5, <1>6, AcceptedPlanIsNext
<1> HIDE DEF new, h
<1>8. Assumptions(new) \subseteq Assumption
  BY <1>7, AssumptionsTyped
<1>9. n = [h EXCEPT !.status = "EXECUTING", !.plan = new, !.valid = TRUE,
                    !.assumed = h.assumed \cup Assumptions(new),
                    !.researched = IF p.researched = NoOne THEN h.researched
                                   ELSE p.researched]
  BY <1>3 DEF AfterReplan, h, new, Case
<1> HIDE DEF n
<1>10. /\ n \in Case /\ n.status = "EXECUTING" /\ n.version = c.version
       /\ n.plan = new /\ n.valid /\ n.prev = h.prev /\ n.declines = h.declines
       /\ n.done = h.done /\ n.pending = h.pending /\ n.approvals = h.approvals
  BY <1>2, <1>3, <1>7, <1>8, <1>9 DEF Case, Status
<1>11. Numbered(n)
  BY <1>6, <1>7, <1>10 DEF Numbered
<1>12. Answerable(n)
  BY <1>3, <1>10 DEF Answerable, WellFormed
<1>13. EverPlans(c) \subseteq EverPlans(n)
  BY <1>3, <1>5, <1>10 DEF EverPlans
<1>14. Keeps(c, n)
  BY <1>3, <1>5, <1>7, <1>10, <1>13, SameApprovalsKept DEF Keeps
<1> QED
  BY <1>7, <1>10, <1>11, <1>12, <1>14 DEF WellFormed, n

-----------------------------------------------------------------------------
(* Requests that interleave.                                                *)

\* What stays true of a case for good.
Extends(c, d) == EverPlans(c) \subseteq EverPlans(d) /\ Approved(c) \subseteq Approved(d)

Holding == Saving \cup {"adapter"}

\* A thread at `at` that read c, the stored case now being d.
Snapshot(at, c, d) ==
  at \in Holding =>
    /\ WellFormed(c)
    /\ c.version <= d.version
    /\ c.version = d.version => c = d
    /\ Extends(c, d)

\* What the thread checked before it came to `at`.
Checked(at, j, c, acts) ==
  /\ at = "replan" => j \in Decline /\ Applicable(c, j)
  /\ at = "gate" => c.valid /\ c.plan # NoPlan
  /\ at = "decide" => /\ j.verdict \in {"APPROVED", "REJECTED"}
                      /\ j.approval \in DOMAIN c.approvals
                      /\ Decidable(c, j.approval)
  /\ at \in {"adapter", "record"} => Executable(c)
  /\ at = "adapter" => acts \subseteq RequiredActions(c.plan)

IInv ==
  /\ TypeOK
  /\ WellFormed(case)
  /\ \A w \in Thread : /\ Snapshot(pc[w], read[w], case)
                       /\ Checked(pc[w], job[w], read[w], todo[w])
  /\ EffectsAuthorized

\* d is the stored case some steps after c was.
Later(c, d) ==
  /\ WellFormed(d)
  /\ Keeps(c, d)
  /\ d = c \/ d.version > c.version

-----------------------------------------------------------------------------
(* The remaining operations of the aggregate. *)

\* A case loses nothing by staying as it is.
LEMMA KeepsItself ==
  ASSUME NEW c, WellFormed(c)
  PROVE  Keeps(c, c)
<1>1. Len(c.approvals) \in Nat /\ Len(c.prev) \in Nat
  BY DEF WellFormed, Case
<1> QED
  BY <1>1 DEF Keeps

\* Nothing recorded is lost, so the plans and the approvals only grow,
LEMMA KeepsExtends ==
  ASSUME NEW c, NEW d, WellFormed(c), WellFormed(d), Keeps(c, d)
  PROVE  Extends(c, d)
<1>1. /\ DOMAIN c.approvals = 1 .. Len(c.approvals) /\ Len(c.approvals) \in Nat
      /\ DOMAIN d.approvals = 1 .. Len(d.approvals) /\ Len(d.approvals) \in Nat
  BY DEF WellFormed, Case
<1>2. \A i \in DOMAIN c.approvals : c.approvals[i].status = "APPROVED" =>
        i \in DOMAIN d.approvals /\ d.approvals[i] = c.approvals[i]
  BY <1>1 DEF Keeps
<1>3. Approved(c) \subseteq Approved(d)
  BY <1>2 DEF Approved
<1> QED
  BY <1>3 DEF Extends, Keeps

\* ... and what may be carried out may be carried out for good.
LEMMA AuthorizedForGood ==
  ASSUME NEW c, NEW d, Extends(c, d)
  PROVE  Authorized(c) \subseteq Authorized(d)
BY DEF Authorized, Extends

\* A step that leaves plan, approvals, declines and previous plans alone.
LEMMA SettledKeeps ==
  ASSUME NEW c, NEW n, WellFormed(c), n \in Case,
         n.prev = c.prev, n.plan = c.plan, n.valid = c.valid,
         n.declines = c.declines, n.pending = c.pending,
         n.approvals = c.approvals, c.done \subseteq n.done,
         n.status # "APPROVAL_REQUIRED"
  PROVE  WellFormed(n) /\ Keeps(c, n)
<1>1. Len(c.prev) \in Nat
  BY DEF WellFormed, Case
<1>2. EverPlans(n) = EverPlans(c)
  BY DEF EverPlans
<1>3. Numbered(n) /\ Answerable(n)
  BY DEF WellFormed, Numbered, Answerable
<1> QED
  BY <1>1, <1>2, <1>3, SameApprovalsKept DEF WellFormed, Keeps

\* A new approval request, asked about the active and valid plan.
LEMMA AskingKeeps ==
  ASSUME NEW c, WellFormed(c), c.valid, c.plan # NoPlan
  PROVE  WellFormed(Asking(c)) /\ Keeps(c, Asking(c))
<1> DEFINE n == Asking(c)
           new == [plan |-> c.plan.id, status |-> "PENDING"]
           list == Append(c.approvals, new)
<1>1. /\ c \in Case /\ c.approvals \in Seq(Approval) /\ Len(c.approvals) \in Nat
      /\ Len(c.prev) \in Nat /\ c.plan.id \in Nat
  BY DEF WellFormed, Case, Plan
<1>2. new \in Approval
  BY <1>1 DEF Approval
<1>3. /\ list \in Seq(Approval)
      /\ Len(list) = Len(c.approvals) + 1
      /\ \A i \in 1 .. Len(c.approvals) : list[i] = c.approvals[i]
      /\ list[Len(c.approvals) + 1] = new
      /\ DOMAIN c.approvals = 1 .. Len(c.approvals)
  BY <1>1, <1>2
<1>4. n = [c EXCEPT !.status = "APPROVAL_REQUIRED", !.approvals = list,
                    !.pending = Len(c.approvals) + 1]
  BY <1>1 DEF Asking, Case
<1> HIDE DEF n, new, list
<1>5. n \in Case
  <2>1. Len(c.approvals) + 1 \in Nat /\ list \in Seq(Approval)
    BY <1>1, <1>3
  <2>2. "APPROVAL_REQUIRED" \in Status
    BY DEF Status
  <2> QED
    BY <1>1, <1>4, <2>1, <2>2 DEF Case
<1>6. /\ n.status = "APPROVAL_REQUIRED" /\ n.approvals = list
      /\ n.pending = Len(c.approvals) + 1 /\ n.prev = c.prev /\ n.plan = c.plan
      /\ n.valid = c.valid /\ n.declines = c.declines /\ n.done = c.done
  BY <1>1, <1>4 DEF Case
<1>7. Numbered(n)
  BY <1>6 DEF Numbered, WellFormed
<1>8. Answerable(n)
  BY <1>1, <1>3, <1>6 DEF Answerable, new
<1>9. EverPlans(n) = EverPlans(c)
  BY <1>6 DEF EverPlans
<1>10. Keeps(c, n)
  BY <1>1, <1>3, <1>6, <1>9 DEF Keeps
<1> QED
  BY <1>5, <1>7, <1>8, <1>10 DEF WellFormed, n

\* The parent's decision of the pending request.
LEMMA DecidedKeeps ==
  ASSUME NEW c, WellFormed(c), NEW i \in DOMAIN c.approvals, Decidable(c, i),
         NEW v \in {"APPROVED", "REJECTED"}
  PROVE  WellFormed(Decided(c, i, v)) /\ Keeps(c, Decided(c, i, v))
<1> DEFINE n == Decided(c, i, v)
           new == [c.approvals[i] EXCEPT !.status = v]
           list == [c.approvals EXCEPT ![i] = new]
<1>1. /\ c \in Case /\ c.approvals \in Seq(Approval) /\ Len(c.approvals) \in Nat
      /\ Len(c.prev) \in Nat /\ DOMAIN c.approvals = 1 .. Len(c.approvals)
  BY DEF WellFormed, Case
<1>2. /\ list \in Seq(Approval) /\ Len(list) = Len(c.approvals)
      /\ \A k \in DOMAIN c.approvals : k # i => list[k] = c.approvals[k]
      /\ list[i].plan = c.approvals[i].plan
  <2>1. new \in Approval /\ new.plan = c.approvals[i].plan
    <3>1. c.approvals[i] \in Approval
      BY <1>1
    <3>2. v \in {"PENDING", "APPROVED", "REJECTED"}
      OBVIOUS
    <3> QED
      BY <3>1, <3>2 DEF Approval
  <2> HIDE DEF new
  <2>2. i \in 1 .. Len(c.approvals)
    BY <1>1
  <2>3. ASSUME NEW s \in Seq(Approval), NEW k \in 1 .. Len(s), NEW e \in Approval
        PROVE  /\ [s EXCEPT ![k] = e] \in Seq(Approval)
               /\ Len([s EXCEPT ![k] = e]) = Len(s)
               /\ \A m \in 1 .. Len(s) :
                    [s EXCEPT ![k] = e][m] = IF m = k THEN e ELSE s[m]
    BY ExceptSeq, Z3
  <2>4. /\ list \in Seq(Approval) /\ Len(list) = Len(c.approvals)
        /\ \A k \in 1 .. Len(c.approvals) :
             list[k] = IF k = i THEN new ELSE c.approvals[k]
    BY <1>1, <2>1, <2>2, <2>3, Zenon
  <2> HIDE DEF list
  <2> QED
    BY <1>1, <2>1, <2>2, <2>4
<1>3. c.valid /\ c.plan.id = c.approvals[i].plan /\ c.approvals[i].status = "PENDING"
  BY DEF Decidable, WellFormed, Answerable
<1>4. n = [c EXCEPT !.status = IF v = "APPROVED" THEN "EXECUTING" ELSE "REPLANNING",
                    !.pending = 0, !.approvals = list]
  BY <1>1 DEF Decided, Case
<1> HIDE DEF n, list
<1>5. n \in Case
  BY <1>1, <1>2, <1>4 DEF Case, Status
<1>6. /\ n.status # "APPROVAL_REQUIRED" /\ n.approvals = list
      /\ n.pending = 0 /\ n.prev = c.prev /\ n.plan = c.plan
      /\ n.valid = c.valid /\ n.declines = c.declines /\ n.done = c.done
  BY <1>1, <1>4 DEF Case
<1>7. Numbered(n)
  BY <1>6 DEF Numbered, WellFormed
<1>8. Answerable(n)
  BY <1>1, <1>2, <1>6 DEF Answerable
<1>9. EverPlans(n) = EverPlans(c)
  BY <1>6 DEF EverPlans
<1>10. Keeps(c, n)
  BY <1>1, <1>2, <1>3, <1>6, <1>9 DEF Keeps
<1> QED
  BY <1>5, <1>7, <1>8, <1>10 DEF WellFormed, n

\* The results of an execution.
LEMMA ExecutedKeeps ==
  ASSUME NEW c, WellFormed(c)
  PROVE  WellFormed(Executed(c)) /\ Keeps(c, Executed(c))
<1> DEFINE tried == RequiredActions(c.plan) \ c.done
           bad == {a \in tried : a.who \in FailTargets}
           st == IF bad = {} THEN "EXECUTING" ELSE "FAILED"
           n == [c EXCEPT !.status = st, !.done = c.done \cup (tried \ bad),
                          !.failed = (c.failed \ tried) \cup bad]
<1>1. c \in Case /\ c.plan \in Plan /\ c.done \subseteq Action /\ c.failed \subseteq Action
  BY DEF WellFormed, Case
<1>2. tried \subseteq Action /\ bad \subseteq Action
  BY <1>1, ActionsTyped
<1>3. st \in {"EXECUTING", "FAILED"}
  OBVIOUS
<1>4. Executed(c) = n
  BY <1>1 DEF Executed, Case
<1> HIDE DEF tried, bad, st
<1>5. n \in Case
  BY <1>1, <1>2, <1>3 DEF Case, Status
<1>6. /\ n.prev = c.prev /\ n.plan = c.plan /\ n.valid = c.valid
      /\ n.declines = c.declines /\ n.pending = c.pending
      /\ n.approvals = c.approvals /\ c.done \subseteq n.done
      /\ n.status # "APPROVAL_REQUIRED"
  BY <1>1, <1>3 DEF Case
<1> HIDE DEF n
<1>7. WellFormed(n) /\ Keeps(c, n)
  BY <1>5, <1>6, SettledKeeps
<1> QED
  BY <1>4, <1>7

\* A change of status that asks nobody anything.
LEMMA StatusKeeps ==
  ASSUME NEW c, WellFormed(c), NEW st \in Status \ {"APPROVAL_REQUIRED"}, NEW v \in BOOLEAN
  PROVE  LET n == [c EXCEPT !.status = st, !.verified = v]
         IN  WellFormed(n) /\ Keeps(c, n)
<1> DEFINE n == [c EXCEPT !.status = st, !.verified = v]
<1>1. c \in Case
  BY DEF WellFormed
<1>2. n \in Case
  BY <1>1 DEF Case
<1>3. /\ n.prev = c.prev /\ n.plan = c.plan /\ n.valid = c.valid
      /\ n.declines = c.declines /\ n.pending = c.pending
      /\ n.approvals = c.approvals /\ c.done \subseteq n.done /\ n.status = st
  BY <1>1 DEF Case
<1> HIDE DEF n
<1>4. WellFormed(n) /\ Keeps(c, n)
  BY <1>2, <1>3, SettledKeeps
<1> QED
  BY <1>4 DEF n

-----------------------------------------------------------------------------
(* The repository. *)

\* A case is a later state of itself.
LEMMA LaterItself ==
  ASSUME NEW c, WellFormed(c)
  PROVE  Later(c, c)
BY KeepsItself DEF Later

\* What a thread read stays a snapshot while the stored case moves on.
LEMMA SnapshotStays ==
  ASSUME NEW at, NEW c, NEW d, NEW e,
         WellFormed(d), Snapshot(at, c, d), Later(d, e)
  PROVE  Snapshot(at, c, e)
<1> SUFFICES ASSUME at \in Holding
             PROVE  Snapshot(at, c, e)
  BY DEF Snapshot
<1>1. WellFormed(c) /\ c.version <= d.version /\ (c.version = d.version => c = d)
  BY DEF Snapshot
<1>2. c.version \in Nat /\ d.version \in Nat /\ e.version \in Nat
  BY <1>1 DEF Later, WellFormed, Case
<1>3. Extends(c, d) /\ Extends(d, e)
  BY KeepsExtends DEF Snapshot, Later
<1>4. Extends(c, e)
  BY <1>3 DEF Extends
<1> QED
  BY <1>1, <1>2, <1>4 DEF Snapshot, Later

\* A case is a snapshot of itself.
LEMMA SnapshotOfItself ==
  ASSUME NEW at, NEW c, WellFormed(c)
  PROVE  Snapshot(at, c, c)
<1>1. c.version \in Nat
  BY DEF WellFormed, Case
<1> QED
  BY <1>1 DEF Snapshot, Extends

\* A save that succeeds replaces the stored case by a later state of it: the
\* versions agree, so what the thread read is the stored case.
LEMMA SavedIsLater ==
  ASSUME IInv, NEW w \in Thread, pc[w] \in Saving,
         NEW x, WellFormed(x), Keeps(read[w], x),
         Save(x, read[w])
  PROVE  /\ Later(case, case')
         /\ case' = Stored(x, read[w])
         /\ case = read[w]
<1>1. case = read[w] /\ case' = Stored(x, read[w])
  BY DEF IInv, Snapshot, Holding, Save
<1>2. case.version \in Nat
  BY DEF IInv, WellFormed, Case
<1>3. WellFormed(case') /\ Keeps(case, case')
  BY <1>1, <1>2, VersionIrrelevant DEF Stored
<1>4. case'.version = case.version + 1
  BY <1>1 DEF Stored, WellFormed, Case
<1> QED
  BY <1>1, <1>2, <1>3, <1>4 DEF Later

-----------------------------------------------------------------------------
(* Steps of a thread. *)

\* A thread that comes to `at`, while the effects stay authorized.
LEMMA ThreadStep ==
  ASSUME IInv, NEW w \in Thread, NEW at \in PC, NEW j \in Decline \cup Decision,
         NEW c \in Case, NEW f \in Facts, NEW acts \in SUBSET Action,
         Become(w, at, j, c, f, acts),
         Later(case, case'), Snapshot(at, c, case'), Checked(at, j, c, acts),
         performed' \subseteq Action, repeated' \subseteq performed',
         EffectsAuthorized'
  PROVE  IInv'
<1>1. TypeOK'
  <2>1. case' \in Case /\ case'.pending \in 0 .. Len(case'.approvals)
    BY DEF Later, WellFormed, Answerable
  <2>2. /\ pc' \in [Thread -> PC] /\ job' \in [Thread -> Decline \cup Decision]
        /\ read' \in [Thread -> Case] /\ facts' \in [Thread -> Facts]
        /\ todo' \in [Thread -> SUBSET Action]
    BY DEF IInv, TypeOK, Become
  <2> QED
    BY <2>1, <2>2 DEF TypeOK
<1>2. ASSUME NEW v \in Thread
      PROVE  Snapshot(pc'[v], read'[v], case') /\ Checked(pc'[v], job'[v], read'[v], todo'[v])
  <2>1. CASE v = w
    <3>1. pc'[v] = at /\ job'[v] = j /\ read'[v] = c /\ todo'[v] = acts
      BY <2>1 DEF IInv, TypeOK, Become
    <3> QED
      BY <3>1
  <2>2. CASE v # w
    <3>1. pc'[v] = pc[v] /\ job'[v] = job[v] /\ read'[v] = read[v] /\ todo'[v] = todo[v]
      BY <2>2 DEF IInv, TypeOK, Become
    <3>2. /\ WellFormed(case) /\ Snapshot(pc[v], read[v], case)
          /\ Checked(pc[v], job[v], read[v], todo[v])
      BY DEF IInv
    <3> QED
      BY <3>1, <3>2, SnapshotStays
  <2> QED
    BY <2>1, <2>2
<1> QED
  BY <1>1, <1>2 DEF IInv, Later

\* What is authorized stays authorized.
LEMMA EffectsStay ==
  ASSUME IInv, Later(case, case'), UNCHANGED effectVars
  PROVE  /\ EffectsAuthorized'
         /\ performed' \subseteq Action /\ repeated' \subseteq performed'
<1>1. Authorized(case) \subseteq Authorized(case')
  BY KeepsExtends, AuthorizedForGood DEF IInv, Later
<1> QED
  BY <1>1 DEF IInv, TypeOK, EffectsAuthorized, effectVars

\* A thread that comes to `at` without having sent anything.
LEMMA QuietStep ==
  ASSUME IInv, NEW w \in Thread, NEW at \in PC, NEW j \in Decline \cup Decision,
         NEW c \in Case, NEW f \in Facts, NEW acts \in SUBSET Action,
         Become(w, at, j, c, f, acts), UNCHANGED effectVars,
         Later(case, case'), Snapshot(at, c, case'), Checked(at, j, c, acts)
  PROVE  IInv'
BY EffectsStay, ThreadStep

\* The values a thread is left with when it holds no snapshot.
LEMMA EmptyHands ==
  /\ NoJob \in Decline \cup Decision
  /\ NoCase \in Case
  /\ NoFacts \in Facts
  /\ {} \in SUBSET Action
<1>1. NoFacts \in [{} -> SUBSET Tick]
  BY DEF NoFacts
<1> QED
  BY <1>1, NoCaseWellFormed DEF NoJob, Decision, WellFormed, Facts

\* A thread that comes to a point where it will read everything again.
LEMMA FreshStep ==
  ASSUME IInv, NEW w \in Thread, NEW at \in {"idle", "lookup", "execute", "verify"},
         NEW f \in Facts, Become(w, at, NoJob, NoCase, f, {}),
         UNCHANGED effectVars, Later(case, case')
  PROVE  IInv'
<1>1. at \in PC /\ at \notin Holding
  BY DEF PC, Holding, Saving
<1>2. Snapshot(at, NoCase, case') /\ Checked(at, NoJob, NoCase, {})
  BY <1>1 DEF Snapshot, Checked, Holding, Saving
<1> QED
  BY <1>1, <1>2, EmptyHands, QuietStep

\* A request that is answered.
LEMMA AnswerStep ==
  ASSUME IInv, NEW w \in Thread, Answer(w), UNCHANGED effectVars, Later(case, case')
  PROVE  IInv'
BY EmptyHands, FreshStep DEF Answer

\* A request that goes on to execute what is stored.
LEMMA GoExecuteStep ==
  ASSUME IInv, NEW w \in Thread, GoExecute(w), UNCHANGED effectVars, Later(case, case')
  PROVE  IInv'
BY EmptyHands, FreshStep DEF GoExecute

\* A step that leaves the threads alone.
LEMMA ServerIdle ==
  ASSUME IInv, UNCHANGED serverVars, UNCHANGED effectVars, Later(case, case')
  PROVE  IInv'
<1>1. EffectsAuthorized'
  BY EffectsStay
<1>2. TypeOK'
  BY DEF IInv, TypeOK, serverVars, effectVars, Later, WellFormed, Answerable
<1>3. \A v \in Thread : Snapshot(pc'[v], read'[v], case')
                        /\ Checked(pc'[v], job'[v], read'[v], todo'[v])
  BY SnapshotStays DEF IInv, serverVars
<1> QED
  BY <1>1, <1>2, <1>3 DEF IInv, Later

-----------------------------------------------------------------------------
(* One lemma per action: it keeps the invariant, and the case it leaves is  *)
(* a later state of the case it found.                                     *)

\* Any case may follow the absent one.
LEMMA FirstCase ==
  ASSUME NEW c, WellFormed(c), c.version = 1, c.valid \/ c.plan = NoPlan
  PROVE  Later(NoCase, c)
<1>1. /\ NoCase.version = 0 /\ NoCase.plan = NoPlan /\ NoCase.prev = <<>>
      /\ NoCase.approvals = <<>> /\ NoCase.declines = {} /\ NoCase.done = {}
  BY DEF NoCase
<1>2. Len(c.approvals) \in Nat /\ Len(c.prev) \in Nat
  BY DEF WellFormed, Case
<1>3. EverPlans(NoCase) = {}
  BY <1>1 DEF EverPlans
<1>4. c.plan.id = NoPlan.id => c.plan = NoPlan
  BY <1>2 DEF WellFormed, Numbered, NoPlan
<1>5. Keeps(NoCase, c)
  BY <1>1, <1>2, <1>3, <1>4 DEF Keeps
<1> QED
  BY <1>1, <1>5 DEF Later

\* POST /recoveries when nobody can cover the window.
LEMMA StartWithoutOptionStep ==
  ASSUME IInv, NEW w \in Thread, StartWithoutOption(w)
  PROVE  IInv' /\ Later(case, case')
<1>1. PICK external \in ExternalSettings :
        case' = [NoCase EXCEPT !.version = 1, !.status = "NO_RECOVERY_OPTION",
                               !.external = external]
  BY DEF StartWithoutOption
<1>2. /\ NoCase \in Case /\ external \in BOOLEAN
      /\ Numbered(NoCase) /\ Answerable(NoCase) /\ NoCase.plan = NoPlan
  BY NoCaseWellFormed, PolicyAssumption DEF WellFormed, NoCase
<1>3. /\ case' \in Case /\ case'.version = 1 /\ case'.status = "NO_RECOVERY_OPTION"
      /\ case'.plan = NoCase.plan /\ case'.prev = NoCase.prev
      /\ case'.valid = NoCase.valid
      /\ case'.pending = NoCase.pending /\ case'.approvals = NoCase.approvals
  BY <1>1, <1>2 DEF Case, Status
<1>4. WellFormed(case')
  BY <1>2, <1>3 DEF WellFormed, Numbered, Answerable
<1>5. Later(case, case')
  BY <1>2, <1>3, <1>4, FirstCase DEF StartWithoutOption
<1> QED
  BY <1>5, ServerIdle DEF StartWithoutOption

\* POST /recoveries with an accepted plan.
LEMMA StartWithPlanStep ==
  ASSUME IInv, NEW w \in Thread, StartWithPlan(w)
  PROVE  IInv' /\ Later(case, case')
<1>0. PICK external \in ExternalSettings : \E proposal \in InitialProposals(external) :
        LET new == NewCase(AcceptedPlan(<<>>, proposal.cover), proposal.researched, external)
        IN  /\ case' = new
            /\ IF new.researched = NoOne /\ ~ new.plan.needs
               THEN UNCHANGED serverVars
               ELSE Become(w, "gate", NoJob, new, NoFacts, {})
  BY DEF StartWithPlan
<1>1. PICK proposal \in InitialProposals(external) :
        LET new == NewCase(AcceptedPlan(<<>>, proposal.cover), proposal.researched, external)
        IN  /\ case' = new
            /\ UNCHANGED serverVars \/ Become(w, "gate", NoJob, new, NoFacts, {})
  BY <1>0
<1> DEFINE plan == AcceptedPlan(<<>>, proposal.cover)
           new == NewCase(plan, proposal.researched, external)
<1>2. /\ proposal.cover \in Coverage
      /\ proposal.researched \in Candidate \cup {NoOne}
      /\ external \in BOOLEAN
  BY InitialProposalsTyped, PolicyAssumption
<1>3. plan \in Plan /\ plan.id = 1 /\ plan # NoPlan
  <2> DEFINE none == <<>>
  <2>1. none \in Seq(Plan) /\ (\A i \in DOMAIN none : none[i].id = i) /\ Len(none) = 0
    OBVIOUS
  <2>2. plan = AcceptedPlan(none, proposal.cover)
    OBVIOUS
  <2> HIDE DEF plan, none
  <2>3. /\ AcceptedPlan(none, proposal.cover) \in Plan
        /\ AcceptedPlan(none, proposal.cover).id = Len(none) + 1
        /\ AcceptedPlan(none, proposal.cover) # NoPlan
    BY <1>2, <2>1, AcceptedPlanIsNext
  <2> QED
    BY <2>1, <2>2, <2>3
<1> HIDE DEF plan
<1>4. Assumptions(plan) \subseteq Assumption
  BY <1>3, AssumptionsTyped
<1>5. /\ NoCase \in Case /\ NoCase.prev = <<>> /\ NoCase.pending = 0
      /\ NoCase.approvals = <<>> /\ NoCase.status = "WAITING_FOR_RESPONSE"
  BY NoCaseWellFormed DEF WellFormed, NoCase
<1>6. /\ new \in Case /\ new.version = 1 /\ new.plan = plan /\ new.valid
      /\ new.prev = <<>> /\ new.pending = 0 /\ new.approvals = <<>>
      /\ new.status = "WAITING_FOR_RESPONSE"
  BY <1>2, <1>3, <1>4, <1>5 DEF NewCase, Case
<1> HIDE DEF new
<1>7. WellFormed(new)
  BY <1>3, <1>6 DEF WellFormed, Numbered, Answerable
<1>8. case' = new /\ Later(case, case')
  BY <1>1, <1>6, <1>7, FirstCase DEF new, plan, StartWithPlan
<1>9. CASE UNCHANGED serverVars
  BY <1>8, <1>9, ServerIdle DEF StartWithPlan
<1>10. CASE Become(w, "gate", NoJob, new, NoFacts, {})
  <2>1. Snapshot("gate", new, case') /\ Checked("gate", NoJob, new, {})
    BY <1>3, <1>6, <1>7, <1>8, SnapshotOfItself DEF Checked
  <2>2. "gate" \in PC
    BY DEF PC
  <2> QED
    BY <1>6, <1>8, <1>10, <2>1, <2>2, EmptyHands, QuietStep DEF StartWithPlan
<1> QED
  BY <1>1, <1>9, <1>10, <1>8 DEF new, plan

\* A decline that passes the guards: the thread holds the stored case.
LEMMA ReceiveDeclineStep ==
  ASSUME IInv, NEW w \in Thread, ReceiveDecline(w)
  PROVE  IInv' /\ Later(case, case')
<1>1. PICK e \in EventId, r \in Reports :
        LET d == [id |-> e, who |-> r.who, window |-> r.window]
        IN  Applicable(case, d) /\ Become(w, "replan", d, case, NoFacts, {})
  BY DEF ReceiveDecline
<1> DEFINE d == [id |-> e, who |-> r.who, window |-> r.window]
<1>2. d \in Decline
  BY ReportsAssumption DEF Decline
<1>3. Later(case, case') /\ WellFormed(case) /\ case' = case /\ case \in Case
  BY LaterItself DEF ReceiveDecline, IInv, WellFormed
<1>4. Snapshot("replan", case, case') /\ Checked("replan", d, case, {})
  BY <1>1, <1>2, <1>3, SnapshotOfItself DEF Checked
<1>5. "replan" \in PC
  BY DEF PC
<1> HIDE DEF d
<1>6. Become(w, "replan", d, case, NoFacts, {})
  BY <1>1 DEF d
<1> QED
  BY <1>2, <1>3, <1>4, <1>5, <1>6, EmptyHands, QuietStep DEF ReceiveDecline

\* A decision that passes the guards: the thread holds the stored case.
LEMMA ReceiveDecisionStep ==
  ASSUME IInv, NEW w \in Thread, ReceiveDecision(w)
  PROVE  IInv' /\ Later(case, case')
<1>1. PICK i \in DOMAIN case.approvals, v \in {"APPROVED", "REJECTED"} :
        /\ Decidable(case, i)
        /\ Become(w, "decide", [approval |-> i, verdict |-> v], case, NoFacts, {})
  BY DEF ReceiveDecision
<1> DEFINE j == [approval |-> i, verdict |-> v]
<1>2. Later(case, case') /\ WellFormed(case) /\ case' = case /\ case \in Case
  BY LaterItself DEF ReceiveDecision, IInv, WellFormed
<1>3. j \in Decision
  BY <1>2 DEF Case, Decision
<1>4. Snapshot("decide", case, case') /\ Checked("decide", j, case, {})
  BY <1>1, <1>2, SnapshotOfItself DEF Checked
<1>5. "decide" \in PC
  BY DEF PC
<1> HIDE DEF j
<1>6. Become(w, "decide", j, case, NoFacts, {})
  BY <1>1 DEF j
<1> QED
  BY <1>2, <1>3, <1>4, <1>5, <1>6, EmptyHands, QuietStep DEF ReceiveDecision

\* A repeated approval changes nothing by itself.
LEMMA ReceiveSameApprovalStep ==
  ASSUME IInv, NEW w \in Thread, ReceiveSameApproval(w)
  PROVE  IInv' /\ Later(case, case')
<1>1. Later(case, case')
  BY LaterItself DEF ReceiveSameApproval, IInv
<1> QED
  BY <1>1, GoExecuteStep DEF ReceiveSameApproval

\* What a thread in the middle of a request knows of the case it read.
LEMMA HeldIsWellFormed ==
  ASSUME IInv, NEW w \in Thread, pc[w] \in Holding
  PROVE  WellFormed(read[w]) /\ Extends(read[w], case)
BY DEF IInv, Snapshot

\* The decline is saved with NO_RECOVERY_OPTION.
LEMMA RecordNoOptionStep ==
  ASSUME IInv, NEW w \in Thread, RecordNoOption(w)
  PROVE  IInv' /\ Later(case, case')
<1> DEFINE n == [AfterDecline(read[w], job[w]) EXCEPT !.status = "NO_RECOVERY_OPTION"]
<1>1. pc[w] \in Saving /\ pc[w] \in Holding
  BY DEF RecordNoOption, Saving, Holding
<1>2. /\ WellFormed(read[w]) /\ job[w] \in Decline /\ Applicable(read[w], job[w])
  BY <1>1, HeldIsWellFormed DEF RecordNoOption, IInv, Checked
<1>3. WellFormed(n) /\ Keeps(read[w], n)
  BY <1>2, DeclineKeeps
<1>4. Save(n, read[w])
  BY DEF RecordNoOption
<1> HIDE DEF n
<1>5. Later(case, case')
  BY <1>1, <1>3, <1>4, SavedIsLater
<1> QED
  BY <1>5, AnswerStep DEF RecordNoOption

\* The decline is saved and nothing replaces the plan.
LEMMA RecordFailedReplanStep ==
  ASSUME IInv, NEW w \in Thread, RecordFailedReplan(w)
  PROVE  IInv' /\ Later(case, case')
<1>1. pc[w] \in Saving /\ pc[w] \in Holding
  BY DEF RecordFailedReplan, Saving, Holding
<1>2. /\ WellFormed(read[w]) /\ job[w] \in Decline /\ Applicable(read[w], job[w])
  BY <1>1, HeldIsWellFormed DEF RecordFailedReplan, IInv, Checked
<1>3. /\ WellFormed(AfterDecline(read[w], job[w]))
      /\ Keeps(read[w], AfterDecline(read[w], job[w]))
  BY <1>2, AfterDeclineKeeps
<1>4. Later(case, case')
  BY <1>1, <1>3, SavedIsLater DEF RecordFailedReplan
<1> QED
  BY <1>4, AnswerStep DEF RecordFailedReplan

\* The replacement is saved, and the gate is given what was saved.
LEMMA AdoptReplacementStep ==
  ASSUME IInv, NEW w \in Thread, AdoptReplacement(w)
  PROVE  IInv' /\ Later(case, case')
<1>1. pc[w] \in Saving /\ pc[w] \in Holding
  BY DEF AdoptReplacement, Saving, Holding
<1>2. /\ WellFormed(read[w]) /\ job[w] \in Decline /\ Applicable(read[w], job[w])
  BY <1>1, HeldIsWellFormed DEF AdoptReplacement, IInv, Checked
<1>3. PICK proposal \in Replacements(read[w], job[w]) :
        LET new == AfterReplan(read[w], job[w], proposal)
        IN  /\ Save(new, read[w])
            /\ Answer(w) \/ Become(w, "gate", NoJob, Stored(new, read[w]), NoFacts, {})
  BY DEF AdoptReplacement
<1> DEFINE n == AfterReplan(read[w], job[w], proposal)
<1>4. WellFormed(n) /\ Keeps(read[w], n) /\ n.valid /\ n.plan # NoPlan
  BY <1>2, AfterReplanKeeps
<1>5. Save(n, read[w]) /\ (Answer(w) \/ Become(w, "gate", NoJob, Stored(n, read[w]), NoFacts, {}))
  BY <1>3
<1> HIDE DEF n
<1>6. Later(case, case') /\ case' = Stored(n, read[w])
  BY <1>1, <1>4, <1>5, SavedIsLater
<1>7. CASE Answer(w)
  BY <1>6, <1>7, AnswerStep DEF AdoptReplacement
<1>8. CASE Become(w, "gate", NoJob, Stored(n, read[w]), NoFacts, {})
  <2>1. case'.valid /\ case'.plan # NoPlan /\ WellFormed(case') /\ case' \in Case
    BY <1>4, <1>6 DEF Stored, WellFormed, Case, Later
  <2>2. Snapshot("gate", case', case') /\ Checked("gate", NoJob, case', {})
    BY <2>1, SnapshotOfItself DEF Checked
  <2>3. Become(w, "gate", NoJob, case', NoFacts, {}) /\ "gate" \in PC
    BY <1>6, <1>8 DEF PC
  <2> QED
    BY <1>6, <2>1, <2>2, <2>3, EmptyHands, QuietStep DEF AdoptReplacement
<1> QED
  BY <1>5, <1>6, <1>7, <1>8

\* A plan within the policy becomes EXECUTING.
LEMMA PassGateStep ==
  ASSUME IInv, NEW w \in Thread, PassGate(w)
  PROVE  IInv' /\ Later(case, case')
<1> DEFINE n == [read[w] EXCEPT !.status = "EXECUTING"]
<1>1. pc[w] \in Saving /\ WellFormed(read[w])
  BY HeldIsWellFormed DEF PassGate, Saving, Holding
<1>2. n = [read[w] EXCEPT !.status = "EXECUTING", !.verified = read[w].verified]
      /\ read[w].verified \in BOOLEAN
  BY <1>1 DEF WellFormed, Case
<1>3. "EXECUTING" \in Status \ {"APPROVAL_REQUIRED"}
  BY DEF Status
<1>4. WellFormed(n) /\ Keeps(read[w], n)
  BY <1>1, <1>2, <1>3, StatusKeeps
<1>5. Save(n, read[w])
  BY DEF PassGate
<1> HIDE DEF n
<1>6. Later(case, case')
  BY <1>1, <1>4, <1>5, SavedIsLater
<1> QED
  BY <1>6, GoExecuteStep DEF PassGate

\* A plan outside the policy waits for the parent's decision.
LEMMA AskParentStep ==
  ASSUME IInv, NEW w \in Thread, AskParent(w)
  PROVE  IInv' /\ Later(case, case')
<1>1. pc[w] \in Saving /\ WellFormed(read[w])
  BY HeldIsWellFormed DEF AskParent, Saving, Holding
<1>2. CASE UNCHANGED case
  <2>1. Later(case, case')
    BY <1>2, LaterItself DEF IInv
  <2> QED
    BY <2>1, AnswerStep DEF AskParent
<1>3. CASE Save(Asking(read[w]), read[w])
  <2>1. read[w].valid /\ read[w].plan # NoPlan
    BY DEF AskParent, IInv, Checked
  <2>2. WellFormed(Asking(read[w])) /\ Keeps(read[w], Asking(read[w]))
    BY <1>1, <2>1, AskingKeeps
  <2>3. Later(case, case')
    BY <1>1, <1>3, <2>2, SavedIsLater
  <2> QED
    BY <2>3, AnswerStep DEF AskParent
<1> QED
  BY <1>2, <1>3 DEF AskParent

\* The decision is saved if nothing was saved since it was checked.
LEMMA DecideStep ==
  ASSUME IInv, NEW w \in Thread, Decide(w)
  PROVE  IInv' /\ Later(case, case')
<1> DEFINE n == Decided(read[w], job[w].approval, job[w].verdict)
<1>1. pc[w] \in Saving /\ WellFormed(read[w])
  BY HeldIsWellFormed DEF Decide, Saving, Holding
<1>2. /\ job[w].verdict \in {"APPROVED", "REJECTED"}
      /\ job[w].approval \in DOMAIN read[w].approvals
      /\ Decidable(read[w], job[w].approval)
  BY DEF Decide, IInv, Checked
<1>3. WellFormed(n) /\ Keeps(read[w], n)
  BY <1>1, <1>2, DecidedKeeps
<1>4. Save(n, read[w])
  BY DEF Decide
<1> HIDE DEF n
<1>5. Later(case, case')
  BY <1>1, <1>3, <1>4, SavedIsLater
<1> QED
  BY <1>5, AnswerStep, GoExecuteStep DEF Decide

\* The scenario is looked up, or cannot be.
LEMMA LookUpScenarioStep ==
  ASSUME IInv, NEW w \in Thread, LookUpScenario(w)
  PROVE  IInv' /\ Later(case, case')
<1>1. Later(case, case') /\ case \in Case
  BY LaterItself DEF LookUpScenario, IInv, WellFormed
<1>2. ScenarioFor(case) \in Facts
  <2>1. /\ DOMAIN ScenarioFor(case) \in SUBSET Caregiver
        /\ \A p \in DOMAIN ScenarioFor(case) : ScenarioFor(case)[p] \in SUBSET Tick
    BY <1>1, ScenarioTyped
  <2>2. ScenarioFor(case) = [p \in DOMAIN ScenarioFor(case) |-> ScenarioFor(case)[p]]
    BY DEF ScenarioFor
  <2> DEFINE s == ScenarioFor(case)
  <2>3. s \in [DOMAIN s -> SUBSET Tick]
    <3> HIDE DEF s
    <3> QED
      BY <2>1, <2>2 DEF s
  <2> HIDE DEF s
  <2>4. s \in Facts
    BY <2>1, <2>3 DEF Facts, s
  <2> QED
    BY <2>4 DEF s
<1>3. CASE Answer(w)
  BY <1>1, <1>3, AnswerStep DEF LookUpScenario
<1>4. CASE Become(w, "execute", NoJob, NoCase, ScenarioFor(case), {})
  BY <1>1, <1>2, <1>4, FreshStep DEF LookUpScenario
<1> QED
  BY <1>1, <1>3, <1>4 DEF LookUpScenario

\* What is to be sent belongs to the plan that passed the guards.
LEMMA BeginExecutionStep ==
  ASSUME IInv, NEW w \in Thread, BeginExecution(w)
  PROVE  IInv' /\ Later(case, case')
<1> DEFINE missing == RequiredActions(case.plan) \ case.done
           at == IF missing = {} THEN "record" ELSE "adapter"
<1>1. /\ Later(case, case') /\ case' = case /\ case \in Case /\ WellFormed(case)
      /\ facts[w] \in Facts
  BY LaterItself DEF BeginExecution, IInv, WellFormed, TypeOK
<1>2. CASE Answer(w)
  BY <1>1, <1>2, AnswerStep DEF BeginExecution
<1>3. CASE Become(w, "verify", NoJob, NoCase, facts[w], {})
  BY <1>1, <1>3, FreshStep DEF BeginExecution
<1>4. CASE Executable(case) /\ Become(w, at, NoJob, case, facts[w], missing)
  <2>1. missing \in SUBSET Action /\ missing \subseteq RequiredActions(case.plan)
    BY <1>1, ActionsTyped DEF Case
  <2>2. at \in PC /\ at \in {"adapter", "record"}
    BY DEF PC
  <2> HIDE DEF missing, at
  <2>3. Snapshot(at, case, case') /\ Checked(at, NoJob, case, missing)
    BY <1>1, <1>4, <2>1, <2>2, SnapshotOfItself DEF Checked
  <2> QED
    BY <1>1, <1>4, <2>1, <2>2, <2>3, EmptyHands, QuietStep DEF BeginExecution
<1> QED
  BY <1>1, <1>2, <1>3, <1>4 DEF BeginExecution

\* The plan execution was begun for is authorized, and stays so: the adapter
\* is called for nothing else.
LEMMA CallAdapterStep ==
  ASSUME IInv, NEW w \in Thread, CallAdapter(w)
  PROVE  IInv' /\ Later(case, case')
<1>1. PICK a \in todo[w] :
        /\ performed' = performed \cup {a}
        /\ repeated' = IF a \in performed THEN repeated \cup {a} ELSE repeated
        /\ todo' = [todo EXCEPT ![w] = @ \ {a}]
        /\ pc' = [pc EXCEPT ![w] = IF todo[w] = {a} THEN "record" ELSE @]
  BY DEF CallAdapter
<1> DEFINE at == IF todo[w] = {a} THEN "record" ELSE "adapter"
<1>2. /\ pc[w] = "adapter" /\ pc[w] \in Holding /\ UNCHANGED <<case, job, read, facts>>
  BY DEF CallAdapter, Holding
<1>3. /\ WellFormed(read[w]) /\ Extends(read[w], case) /\ Snapshot(pc[w], read[w], case)
      /\ Executable(read[w]) /\ todo[w] \subseteq RequiredActions(read[w].plan)
  BY <1>2, HeldIsWellFormed DEF IInv, Checked
<1>4. /\ read[w].plan \in Plan /\ read[w] \in Case /\ job[w] \in Decline \cup Decision
      /\ facts[w] \in Facts /\ todo[w] \in SUBSET Action
      /\ performed \subseteq Action /\ repeated \subseteq performed
  BY <1>3 DEF IInv, TypeOK, WellFormed, Case
<1>5. a.plan = read[w].plan.id /\ a \in Action
  BY <1>3, <1>4, ActionsTyped
<1>6. read[w].plan.id \in Authorized(read[w])
  BY <1>3 DEF Executable, Authorized, EverPlans
<1>7. a.plan \in Authorized(case)
  BY <1>3, <1>5, <1>6, AuthorizedForGood
<1>8. Later(case, case') /\ case' = case
  BY <1>2, LaterItself DEF IInv
<1>9. EffectsAuthorized'
  BY <1>1, <1>7, <1>8 DEF EffectsAuthorized, IInv
<1>10. performed' \subseteq Action /\ repeated' \subseteq performed'
  BY <1>1, <1>4, <1>5
<1>11. Become(w, at, job[w], read[w], facts[w], todo[w] \ {a})
  BY <1>1, <1>2 DEF Become, IInv, TypeOK
<1>12. at \in PC /\ at \in {"adapter", "record"}
  BY DEF PC
<1> HIDE DEF at
<1>13. Snapshot(at, read[w], case') /\ Checked(at, job[w], read[w], todo[w] \ {a})
  BY <1>2, <1>3, <1>8, <1>12 DEF Snapshot, Checked
<1> QED
  BY <1>4, <1>8, <1>9, <1>10, <1>11, <1>12, <1>13, ThreadStep

\* The results are saved.
LEMMA RecordExecutionStep ==
  ASSUME IInv, NEW w \in Thread, RecordExecution(w)
  PROVE  IInv' /\ Later(case, case')
<1>1. pc[w] \in Saving /\ WellFormed(read[w])
  BY HeldIsWellFormed DEF RecordExecution, Saving, Holding
<1>2. WellFormed(Executed(read[w])) /\ Keeps(read[w], Executed(read[w]))
  BY <1>1, ExecutedKeeps
<1>3. Later(case, case')
  BY <1>1, <1>2, SavedIsLater DEF RecordExecution
<1>4. facts[w] \in Facts
  BY DEF IInv, TypeOK
<1>5. CASE Answer(w)
  BY <1>3, <1>5, AnswerStep DEF RecordExecution
<1>6. CASE Become(w, "verify", NoJob, NoCase, facts[w], {})
  BY <1>3, <1>4, <1>6, FreshStep DEF RecordExecution
<1> QED
  BY <1>3, <1>5, <1>6 DEF RecordExecution

\* The thread holds the case it verified.
LEMMA VerifyCompletionStep ==
  ASSUME IInv, NEW w \in Thread, VerifyCompletion(w)
  PROVE  IInv' /\ Later(case, case')
<1>1. Later(case, case') /\ case' = case /\ case \in Case /\ WellFormed(case)
  BY LaterItself DEF VerifyCompletion, IInv, WellFormed
<1>2. CASE Answer(w)
  BY <1>1, <1>2, AnswerStep DEF VerifyCompletion
<1>3. CASE Become(w, "resolve", NoJob, case, NoFacts, {})
  <2>1. "resolve" \in PC
    BY DEF PC
  <2>2. Snapshot("resolve", case, case') /\ Checked("resolve", NoJob, case, {})
    BY <1>1, SnapshotOfItself DEF Checked
  <2> QED
    BY <1>1, <1>3, <2>1, <2>2, EmptyHands, QuietStep DEF VerifyCompletion
<1> QED
  BY <1>1, <1>2, <1>3 DEF VerifyCompletion

\* RESOLVED is saved.
LEMMA ResolveStep ==
  ASSUME IInv, NEW w \in Thread, Resolve(w)
  PROVE  IInv' /\ Later(case, case')
<1> DEFINE n == [read[w] EXCEPT !.status = "RESOLVED", !.verified = TRUE]
<1>1. pc[w] \in Saving /\ WellFormed(read[w])
  BY HeldIsWellFormed DEF Resolve, Saving, Holding
<1>2. WellFormed(n) /\ Keeps(read[w], n)
  BY <1>1, StatusKeeps DEF Status
<1>3. Save(n, read[w])
  BY DEF Resolve
<1> HIDE DEF n
<1>4. Later(case, case')
  BY <1>1, <1>2, <1>3, SavedIsLater
<1> QED
  BY <1>4, AnswerStep DEF Resolve

\* A conflict or a crash changes nothing.
LEMMA EndedStep ==
  ASSUME IInv, NEW w \in Thread, LoseRace(w) \/ Abort(w)
  PROVE  IInv' /\ Later(case, case')
<1>1. Answer(w) /\ UNCHANGED case /\ UNCHANGED effectVars
  BY DEF LoseRace, Abort
<1>2. Later(case, case')
  BY <1>1, LaterItself DEF IInv
<1> QED
  BY <1>1, <1>2, AnswerStep

-----------------------------------------------------------------------------
(* The theorems. *)

\* The service starts with no case and no request.
LEMMA InitIsSafe ==
  ASSUME Init
  PROVE  IInv
<1>1. WellFormed(case) /\ case \in Case /\ case.pending \in 0 .. Len(case.approvals)
  BY NoCaseWellFormed DEF Init, WellFormed, Answerable
<1>2. TypeOK
  BY <1>1, EmptyHands DEF Init, TypeOK, PC
<1>3. \A w \in Thread : /\ Snapshot(pc[w], read[w], case)
                        /\ Checked(pc[w], job[w], read[w], todo[w])
  BY DEF Init, Snapshot, Checked, Holding, Saving
<1>4. EffectsAuthorized
  BY DEF Init, EffectsAuthorized
<1> QED
  BY <1>1, <1>2, <1>3, <1>4 DEF IInv

\* Every step keeps the invariant and leaves a later state of the case.
LEMMA StepIsSafe ==
  ASSUME IInv, [Next]_vars
  PROVE  IInv' /\ Later(case, case')
<1>1. CASE UNCHANGED vars
  <2>1. Later(case, case')
    BY <1>1, LaterItself DEF vars, IInv
  <2> QED
    BY <1>1, <2>1, ServerIdle DEF vars
<1>2. ASSUME NEW w \in Thread, Arrive(w)
      PROVE  IInv' /\ Later(case, case')
  BY <1>2, StartWithoutOptionStep, StartWithPlanStep, ReceiveDeclineStep,
     ReceiveDecisionStep, ReceiveSameApprovalStep DEF Arrive
<1>3. ASSUME NEW w \in Thread, Serve(w)
      PROVE  IInv' /\ Later(case, case')
  BY <1>3, RecordNoOptionStep, RecordFailedReplanStep, AdoptReplacementStep,
     PassGateStep, AskParentStep, DecideStep, LookUpScenarioStep, BeginExecutionStep,
     CallAdapterStep, RecordExecutionStep, VerifyCompletionStep, ResolveStep,
     EndedStep DEF Serve
<1>4. ASSUME NEW w \in Thread, Abort(w)
      PROVE  IInv' /\ Later(case, case')
  BY <1>4, EndedStep
<1> QED
  BY <1>1, <1>2, <1>3, <1>4 DEF Next

\* The inductive invariant holds throughout.
THEOREM Invariance == Spec => []IInv
<1>1. Init => IInv
  BY InitIsSafe
<1>2. IInv /\ [Next]_vars => IInv'
  BY StepIsSafe
<1> QED
  BY <1>1, <1>2, PTL DEF Spec

\* Every variable keeps its type: the service never builds a case the
\* repository could not hold.
THEOREM TypeCorrect == Spec => []TypeOK
<1>1. IInv => TypeOK
  BY DEF IInv
<1> QED
  BY <1>1, Invariance, PTL

\* Whatever races, crashes and replays happen, the adapter is only called for
\* plans that need no approval or were approved (execution_service.py, execute).
THEOREM EffectsAreAuthorized == Spec => []EffectsAuthorized
<1>1. IInv => EffectsAuthorized
  BY DEF IInv
<1> QED
  BY <1>1, Invariance, PTL

\* No two plans a case ever had share an id (_accept_plan).
THEOREM PlanIdsAreUnique == Spec => []PlanIdsNameOnePlan
<1>1. ASSUME IInv
      PROVE  PlanIdsNameOnePlan
  <2>1. Numbered(case) /\ case.prev \in Seq(Plan)
    BY <1>1 DEF IInv, WellFormed, Case
  <2>2. DOMAIN case.prev = 1 .. Len(case.prev) /\ Len(case.prev) \in Nat
    BY <2>1
  <2>3. ASSUME NEW p \in EverPlans(case), NEW q \in EverPlans(case), p.id = q.id
        PROVE  p = q
    <3>1. CASE case.plan = NoPlan
      BY <2>1, <2>3, <3>1 DEF EverPlans, Numbered
    <3>2. CASE case.plan # NoPlan /\ case.valid
      BY <2>1, <2>2, <2>3, <3>2 DEF EverPlans, Numbered
    <3>3. CASE case.plan # NoPlan /\ ~ case.valid
      BY <2>1, <2>2, <2>3, <3>3 DEF EverPlans, Numbered
    <3> QED
      BY <3>1, <3>2, <3>3
  <2> QED
    BY <2>3 DEF PlanIdsNameOnePlan
<1> QED
  BY <1>1, Invariance, PTL

\* A case that waits for the parent has an open request about its active,
\* valid plan (approval_service.py, require_approval_or_proceed and _decide).
THEOREM WaitingCasesAreAnswerable == Spec => []WaitingIsAnswerable
<1>1. ASSUME IInv
      PROVE  WaitingIsAnswerable
  <2>1. case \in Case /\ Answerable(case)
    BY <1>1 DEF IInv, WellFormed
  <2> QED
    BY <2>1 DEF Answerable, WaitingIsAnswerable, Decidable
<1> QED
  BY <1>1, Invariance, PTL

\* No save ever drops what another request recorded: the conditional write of
\* the repository is enough for that, at any number of threads.
THEOREM NothingIsLost == Spec => NothingRecordedIsLost
<1>1. ASSUME IInv, [Next]_vars
      PROVE  [/\ case.declines \subseteq case'.declines
              /\ Prefix(case.prev, case'.prev)
              /\ case.done \subseteq case'.done
              /\ Len(case.approvals) <= Len(case'.approvals)
              /\ case'.plan.id = case.plan.id => case'.plan = case.plan]_vars
  <2>1. Keeps(case, case')
    BY <1>1, StepIsSafe DEF Later
  <2> QED
    BY <2>1 DEF Keeps, Prefix
<1> QED
  BY <1>1, Invariance, PTL DEF Spec, NothingRecordedIsLost

\* A decision never changes again and is only recorded about the plan that is
\* active and valid when it is recorded (approval_service.py, _decide).
THEOREM DecisionsStand == Spec => DecisionsFinalAndCurrent
<1>1. ASSUME IInv, [Next]_vars
      PROVE  [\A i \in DOMAIN case.approvals :
                LET was == case.approvals[i]
                    is  == case'.approvals[i]
                IN  /\ is.plan = was.plan
                    /\ was.status # "PENDING" => is.status = was.status
                    /\ is.status # was.status => case.valid /\ case.plan.id = was.plan]_vars
  <2>1. Keeps(case, case')
    BY <1>1, StepIsSafe DEF Later
  <2> QED
    BY <2>1 DEF Keeps
<1> QED
  BY <1>1, Invariance, PTL DEF Spec, DecisionsFinalAndCurrent

=============================================================================
