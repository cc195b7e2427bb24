---------------------------- MODULE RecoveryCase ----------------------------
(***************************************************************************)
(* The RecoveryCase aggregate and the deterministic operations on it: what *)
(* a plan requires, what a caregiver decline breaks, when a plan fits the  *)
(* facts, when it needs a parent's approval, and when a case may be        *)
(* declared resolved.  Everything here is a pure function of one case; the *)
(* module RecoveryService interleaves the requests that apply them.        *)
(*                                                                         *)
(* The required coverage window is cut into Horizon ticks.  A plan's       *)
(* coverage is a function from ticks to people; its segments are the       *)
(* maximal runs of one person.  Travel, locations and handoffs are left to *)
(* the plan validator and the feasible-assignment matrix.                  *)
(***************************************************************************)
EXTENDS Integers, Sequences, FiniteSets, FiniteSetsExt

CONSTANTS
  Horizon,           \* number of ticks of required_coverage
  Parent,            \* the parents, taken as one person
  NoOne,             \* absent person (no researched candidate, no assignee)
  Known,             \* caregivers of the scenario snapshot
  Candidate,         \* backup_care_candidates of the scenario snapshot
  BaseAvailability,  \* caregiver |-> ticks it is available, in the snapshot
  Offer,             \* candidate |-> ticks it offers
  ParentFree,        \* ticks the parents' calendars allow them to cover
  Movable,           \* ticks where a parent covering must move a meeting
  Rate,              \* person |-> price of one tick
  SpendLimit,        \* policy.automatic_spend_limit
  Unfamiliar,        \* external, unknown, paid: approval whatever the price
  ExternalSettings,  \* values policy.allow_external_backup_providers can have
  EventId,           \* ids of the caregiver-declined events
  Reports            \* the declines a client may report: who, and for when

Tick == 1 .. Horizon
Caregiver == Known \cup Candidate
Person == Caregiver \cup {Parent}

ASSUME HorizonAssumption == Horizon \in Nat \ {0}
ASSUME PeopleAssumption ==
  /\ Known \cap Candidate = {}
  /\ Parent \notin Caregiver
  /\ NoOne \notin Person
ASSUME ScenarioAssumption ==
  /\ BaseAvailability \in [Known -> SUBSET Tick]
  /\ Offer \in [Candidate -> SUBSET Tick]
  /\ ParentFree \subseteq Tick
  /\ Movable \subseteq Tick
ASSUME PolicyAssumption ==
  /\ Rate \in [Person -> Nat]
  /\ SpendLimit \in Nat
  /\ Unfamiliar \subseteq Caregiver
  /\ ExternalSettings \subseteq BOOLEAN

ASSUME ReportsAssumption == Reports \subseteq [who : Caregiver, window : SUBSET Tick]

-----------------------------------------------------------------------------
(* Data. *)

Status == {"WAITING_FOR_RESPONSE", "REPLANNING", "EXECUTING",
           "APPROVAL_REQUIRED", "RESOLVED", "FAILED", "NO_RECOVERY_OPTION"}

\* `needs` is bool(plan.approval_reasons); id n stands for "<case>:plan:n".
\* validation_state changes while the plan stays the same plan, so it is the
\* field `valid` of the case.
Plan == [id : Nat, cover : [Tick -> Person \cup {NoOne}], needs : BOOLEAN]

NoPlan == [id |-> 0, cover |-> [t \in Tick |-> NoOne], needs |-> FALSE]

\* An approval's id is its position in approval_history.
Approval == [plan : Nat, status : {"PENDING", "APPROVED", "REJECTED"}]

\* One caregiver-availability assumption; its id is <plan, segment>.
Assumption == [plan : Nat, who : Caregiver, window : SUBSET Tick,
               active : BOOLEAN]

Decline == [id : EventId, who : Caregiver, window : SUBSET Tick]

\* One required side effect: reserving `who` for `window`, or, with the
\* Parent, moving the meeting of that tick.
Action == [plan : Nat, who : Person, window : SUBSET Tick]

Case == [version    : Nat,
         status     : Status,
         plan       : Plan,                 \* active_recovery_plan
         valid      : BOOLEAN,              \* its validation_state is VALID
         prev       : Seq(Plan),            \* previous_plans
         assumed    : SUBSET Assumption,    \* assumptions
         declines   : SUBSET Decline,       \* CAREGIVER_DECLINED events
         pending    : Nat,                  \* pending_approval, 0 if none
         approvals  : Seq(Approval),        \* approval_history
         done       : SUBSET Action,        \* execution_history, SUCCEEDED
         failed     : SUBSET Action,        \* execution_history, FAILED
         verified   : BOOLEAN,              \* completion_verified_at is set
         researched : Candidate \cup {NoOne},
         external   : BOOLEAN]              \* the snapshot of that setting

\* Version 0: the repository holds no such case.
NoCase ==
  [version |-> 0, status |-> "WAITING_FOR_RESPONSE", plan |-> NoPlan,
   valid |-> FALSE, prev |-> <<>>, assumed |-> {}, declines |-> {},
   pending |-> 0, approvals |-> <<>>, done |-> {}, failed |-> {},
   verified |-> FALSE, researched |-> NoOne, external |-> FALSE]

-----------------------------------------------------------------------------
(* Segments, assumptions and required actions of a plan. *)

Runs(cover) ==
  {r \in Tick \X Tick :
     /\ r[1] <= r[2]
     /\ \A t \in r[1] .. r[2] : cover[t] = cover[r[1]]
     /\ r[1] > 1 => cover[r[1] - 1] # cover[r[1]]
     /\ r[2] < Horizon => cover[r[2] + 1] # cover[r[2]]}

Segments(cover) ==
  {[who |-> cover[r[1]], window |-> r[1] .. r[2]] : r \in Runs(cover)}

CareSegments(cover) == {s \in Segments(cover) : s.who \in Caregiver}

\* materialize_caregiver_assumptions
Assumptions(plan) ==
  {[plan |-> plan.id, who |-> s.who, window |-> s.window, active |-> TRUE] :
     s \in CareSegments(plan.cover)}

\* required_execution_actions
RequiredActions(plan) ==
  {[plan |-> plan.id, who |-> s.who, window |-> s.window] :
     s \in CareSegments(plan.cover)}
  \cup
  {[plan |-> plan.id, who |-> Parent, window |-> {t}] :
     t \in {m \in Movable : plan.cover[m] = Parent}}

-----------------------------------------------------------------------------
(* The facts: who is available when, as far as one case knows. *)

People(c) == Known \cup ({c.researched} \ {NoOne})

DeclinedTicks(declines, p) == UNION {d.window : d \in {e \in declines : e.who = p}}

\* _scenario_for: the snapshot, the one researched candidate the case still
\* remembers, less every recorded decline.
ScenarioFor(c) ==
  [p \in People(c) |->
     (IF p \in Known THEN BaseAvailability[p] ELSE Offer[p])
       \ DeclinedTicks(c.declines, p)]

\* Replaying a decline of somebody the scenario does not list raises.
ScenarioLost(c) == \E d \in c.declines : d.who \notin People(c)

\* apply_caregiver_decline_to_scenario, for the decline being processed
LessDecline(avail, d) == [avail EXCEPT ![d.who] = @ \ d.window]

\* add_researched_caregiver: a caregiver listed twice counts with its later
\* entry, the candidate's full offer.
WithCandidate(avail, k) ==
  [p \in DOMAIN avail \cup {k} |-> IF p = k THEN Offer[k] ELSE avail[p]]

\* PlanValidator.validate, per tick
Fits(cover, avail) ==
  \A t \in Tick :
    \/ cover[t] = Parent /\ t \in ParentFree
    \/ cover[t] \in DOMAIN avail /\ t \in avail[cover[t]]

Cost(cover) == MapThenSumSet(LAMBDA t : Rate[cover[t]], Tick)

NeedsApproval(cover) ==
  \/ Cost(cover) > SpendLimit
  \/ \E t \in Tick : cover[t] \in Unfamiliar

-----------------------------------------------------------------------------
(* What a decline breaks. *)

Overlap(w1, w2) == w1 \cap w2 # {}

Impacted(c, d) ==
  {s \in CareSegments(c.plan.cover) : s.who = d.who /\ Overlap(s.window, d.window)}

Uncovered(c, d) == UNION {s.window : s \in Impacted(c, d)}

Breaks(a, d) == a.active /\ a.who = d.who /\ Overlap(a.window, d.window)

\* The guards of _scenario_for and of apply_caregiver_decline.
Applicable(c, d) ==
  /\ ~ ScenarioLost(c)
  /\ d.id \notin {e.id : e \in c.declines}
  /\ c.plan # NoPlan
  /\ c.valid
  /\ d.who \in People(c)
  /\ Impacted(c, d) # {}
  /\ \E a \in c.assumed : Breaks(a, d)

PlanIds(plans) == {plans[i].id : i \in DOMAIN plans}

\* Faulty: the broken plan is not kept.
ForgetPlan(plans, p) == plans

Remember(plans, p) == IF p.id \in PlanIds(plans) THEN plans ELSE Append(plans, p)

\* apply_caregiver_decline; the pending approval and completion_verified_at
\* are left as they are.
AfterDecline(c, d) ==
  [c EXCEPT !.status   = "REPLANNING",
            !.valid    = FALSE,
            !.prev     = Remember(@, c.plan),
            !.assumed  = {[a EXCEPT !.active = @ /\ ~ Breaks(a, d)] : a \in @},
            !.declines = @ \cup {d}]

-----------------------------------------------------------------------------
(* Which outcomes planning can have. *)

Gap(avail) ==
  {t \in Tick \ ParentFree : \A p \in DOMAIN avail : t \notin avail[p]}

\* planable_research_candidate_ids: research compares at least two eligible
\* candidates, each judged on its offer alone.
Planable(external, need) ==
  LET eligible == {k \in Candidate : need \subseteq Offer[k]}
  IN  IF external /\ Cardinality(eligible) >= 2 THEN eligible ELSE {}

\* Coverages by `people` that fit, and that agree with `old` on the ticks `kept`.
Covers(people, avail, old, kept) ==
  {f \in [Tick -> people \cup {Parent}] :
     Fits(f, avail) /\ \A t \in kept : f[t] = old[t]}

\* The valid results of a planner run: a coverage and the candidate it hired,
\* one only when the known options leave `gap` open.
ValidProposals(avail, gap, hireable, old, kept) ==
  {[cover |-> f, researched |-> NoOne] :
     f \in IF gap = {} THEN Covers(DOMAIN avail, avail, old, kept) ELSE {}}
  \cup
  UNION {{[cover |-> f, researched |-> k] :
            f \in Covers(DOMAIN avail \cup {k}, WithCandidate(avail, k), old, kept)} :
         k \in IF gap = {} THEN {} ELSE hireable}

InitialProposals(external) ==
  LET gap == Gap(BaseAvailability)
  IN  ValidProposals(BaseAvailability, gap, Planable(external, gap), NoPlan.cover, {})

\* assess_known_option_recovery_need over the windows the decline uncovered
ReplanGap(c, d) ==
  Gap(LessDecline(ScenarioFor(c), d)) \cap Uncovered(c, d)

NoOptionLeft(c, d) ==
  ReplanGap(c, d) # {} /\ Planable(c.external, Uncovered(c, d)) = {}

\* A repair keeps every segment the decline left intact (validate_repair).
Replacements(c, d) ==
  ValidProposals(LessDecline(ScenarioFor(c), d), ReplanGap(c, d),
                 Planable(c.external, Uncovered(c, d)),
                 c.plan.cover, Tick \ Uncovered(c, d))

\* Faulty: counts from the last plan on.
ReusedPlanId(plans) == IF plans = <<>> THEN 1 ELSE Len(plans)

\* _accept_plan: the first unused id from len(previous_plans) + 1 on.
NextPlanId(plans) ==
  CHOOSE n \in Len(plans) + 1 .. 2 * Len(plans) + 1 :
    /\ n \notin PlanIds(plans)
    /\ \A m \in Len(plans) + 1 .. n - 1 : m \in PlanIds(plans)

AcceptedPlan(plans, cover) ==
  [id |-> NextPlanId(plans), cover |-> cover, needs |-> NeedsApproval(cover)]

\* build_replanning_result and _accept_replanning_result, on success: the
\* case is EXECUTING before the autonomy gate has looked at the plan.
AfterReplan(c, d, proposal) ==
  LET hit == AfterDecline(c, d)
      new == AcceptedPlan(hit.prev, proposal.cover)
  IN  [hit EXCEPT !.status     = "EXECUTING",
                  !.plan       = new,
                  !.valid      = TRUE,
                  !.assumed    = @ \cup Assumptions(new),
                  !.researched = IF proposal.researched = NoOne
                                 THEN @ ELSE proposal.researched]

-----------------------------------------------------------------------------
(* Authorization, execution and completion. *)

Approved(c) == {c.approvals[i].plan :
                  i \in {j \in DOMAIN c.approvals : c.approvals[j].status = "APPROVED"}}

\* Every plan the case has had.
EverPlans(c) == {c.prev[i] : i \in DOMAIN c.prev} \cup ({c.plan} \ {NoPlan})

\* Ids of the plans that may be carried out: they need no approval, or have it.
Authorized(c) == {p.id : p \in {q \in EverPlans(c) : q.needs => q.id \in Approved(c)}}

\* Faulty: relies on the autonomy gate having asked.
ExecutableUnasked(c) ==
  c.plan # NoPlan /\ c.valid /\ c.pending = 0 /\ c.status = "EXECUTING"

\* The guards of RecoveryExecutionService.execute.
Executable(c) ==
  /\ c.plan # NoPlan /\ c.valid
  /\ c.pending = 0
  /\ c.status = "EXECUTING"
  /\ c.plan.needs => c.plan.id \in Approved(c)

AllDone(c) == RequiredActions(c.plan) # {} /\ RequiredActions(c.plan) \subseteq c.done

ReliesOnInvalidated(c) ==
  \E a \in c.assumed, s \in CareSegments(c.plan.cover) :
    ~ a.active /\ s.who = a.who /\ Overlap(s.window, a.window)

\* Faulty: trusts that whoever got here executed the active plan.
VerifiableUnexecuted(c, avail) ==
  /\ c.status = "EXECUTING"
  /\ c.plan # NoPlan
  /\ Fits(c.plan.cover, avail)
  /\ c.pending = 0
  /\ NeedsApproval(c.plan.cover) => c.plan.id \in Approved(c)
  /\ ~ ReliesOnInvalidated(c)

\* Faulty: trusts the validation the plan had when it was accepted.
VerifiableUnchecked(c, avail) ==
  /\ c.status = "EXECUTING"
  /\ c.plan # NoPlan
  /\ c.pending = 0
  /\ NeedsApproval(c.plan.cover) => c.plan.id \in Approved(c)
  /\ RequiredActions(c.plan) \subseteq c.done

\* verify_and_resolve finds no error, judging by the scenario it was given.
Verifiable(c, avail) ==
  /\ c.status = "EXECUTING"
  /\ c.plan # NoPlan
  /\ Fits(c.plan.cover, avail)
  /\ c.pending = 0
  /\ NeedsApproval(c.plan.cover) => c.plan.id \in Approved(c)
  /\ RequiredActions(c.plan) \subseteq c.done
  /\ ~ ReliesOnInvalidated(c)

=============================================================================
