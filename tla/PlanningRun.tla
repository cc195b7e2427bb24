---------------------------- MODULE PlanningRun -----------------------------
(***************************************************************************)
(* Planning runs of one recovery case, from the request that starts one to *)
(* the plan that is adopted or the failure that is recorded: the service's *)
(* deterministic gate, the three ways a run is hosted (a single agent, an  *)
(* orchestrated run in the process, a stateless AgentCore runtime behind a *)
(* network), the research that may hire a provider, and the bounded loop   *)
(* of proposals and verdicts.  What a language model says is arbitrary.    *)
(* Approval and execution of what is adopted are RecoveryService's.        *)
(***************************************************************************)
EXTENDS BackupCare, DeclineImpact

CONSTANTS
  NoOne,
  Snapshots,    \* scenarios a case may be started with
  Hosts,        \* deployments: <<architecture, is it on AgentCore>>
  Reports,      \* declines clients may report
  MaxDeclines   \* bound: declines recorded on the case

MAX_PLAN_ATTEMPTS == 3
TRANSPORT_ATTEMPTS == 2

ASSUME HostAssumption ==
  Hosts \subseteq {<<"single", FALSE>>, <<"multi", FALSE>>, <<"multi", TRUE>>,
                   <<"multi_research", FALSE>>, <<"multi_research", TRUE>>}
ASSUME InputAssumption ==
  /\ NoOne \notin Person /\ Reports \subseteq Declined
  /\ \A s \in Snapshots : IsScenario(s) /\ Listed(s) \subseteq Known

VARIABLES
  snapshot,    \* context_state.scenario_snapshot
  host,        \* architecture and runtime mode of the deployment
  status,      \* "none": no case yet; "broken": its plan is INVALID
  plan,        \* active_recovery_plan
  researched,  \* context_state.researched_backup_care_candidate
  declines,    \* recorded CAREGIVER_DECLINED events
  run          \* the planning run in progress

vars == <<snapshot, host, status, plan, researched, declines, run>>
case == <<snapshot, host, status, plan, researched, declines>>

NoPlan == [segments |-> {}, moves |-> FALSE]
NoDecline == [who |-> NoOne, window |-> Required]

Research == host[1] = "multi_research"
Remote == host[2]

\* `facts` is the scenario the run was started with, `hired` the candidate its
\* research selected, `judged` the verdicts so far, `sends` the transmissions
\* of the current request, `reasonings` the times agents were made to reason.
Idle == [phase |-> "idle", facts |-> snapshot, scope |-> InitialScope,
         decline |-> NoDecline, hired |-> NoOne, judged |-> 0, sends |-> 0,
         reasonings |-> 0]

-----------------------------------------------------------------------------
(* The facts of the case and of the run. *)

DeclinedBy(c) == {d.window : d \in {e \in declines : e.who = c}}

\* _scenario_for: the snapshot, the researched candidate the case remembers,
\* less every recorded decline
CaseFacts ==
  LET listed == IF researched = NoOne THEN snapshot ELSE WithResearched(snapshot, researched)
  IN  [listed EXCEPT !.free =
         [c \in Listed(listed) |-> UNION {Minus(w, DeclinedBy(c)) : w \in listed.free[c]}]]

\* Replaying the decline of somebody no longer listed raises.
FactsLost == \E d \in declines : d.who \notin Listed(snapshot) \cup {researched}

\* validation_scenario: the run's facts with the candidate it hired
Judging(k) == IF k = NoOne THEN run.facts ELSE WithResearched(run.facts, k)

-----------------------------------------------------------------------------
(* A request starts a run, unless no option is left. *)

\* Faulty: does not ask whether the candidates complete the day.
HopelessUnasked(facts, scope) == Need(facts, scope).insufficient /\ ~ facts.external

\* The gate of start_recovery and of _stop_when_no_recovery_option
Hopeless(facts, scope) ==
  /\ Need(facts, scope).insufficient
  /\ ~ facts.external \/ Planable(facts, scope) = {}

Begin(facts, scope, d) ==
  /\ run' = [Idle EXCEPT !.phase = IF Remote THEN "send" ELSE "brief",
                         !.facts = facts, !.scope = scope, !.decline = d]
  /\ UNCHANGED case

\* start_recovery
StartRecovery ==
  /\ run.phase = "idle" /\ status = "none"
  /\ IF Hopeless(snapshot, InitialScope)
     THEN status' = "no_option" /\ UNCHANGED <<snapshot, host, plan, researched, declines, run>>
     ELSE Begin(snapshot, InitialScope, NoDecline)

\* process_event: the decline is recorded with the outcome of planning only.
ReportDecline(d) ==
  /\ run.phase = "idle" /\ status = "active"
  /\ Cardinality(declines) < MaxDeclines /\ d \notin declines
  /\ ~ FactsLost /\ d.who \in Listed(CaseFacts)
  /\ Breaks(plan.segments, d)
  /\ LET facts == WithoutDeclined(CaseFacts, d)
         scope == RepairScope(plan.segments, d)
     IN  IF Hopeless(facts, scope)
         THEN /\ status' = "no_option" /\ declines' = declines \cup {d}
              /\ UNCHANGED <<snapshot, host, plan, researched, run>>
         ELSE Begin(facts, scope, d)

-----------------------------------------------------------------------------
(* How a run ends. *)

\* An exception leaves the case as it was.
Raise == run' = Idle /\ UNCHANGED case

\* The plan, the candidate and the decline enter the case with one save.
Adopt(k, p) ==
  /\ status' = "active" /\ plan' = p
  /\ researched' = IF k = NoOne THEN researched ELSE k
  /\ declines' = declines \cup ({run.decline} \ {NoDecline})
  /\ run' = Idle
  /\ UNCHANGED <<snapshot, host>>

\* The last attempt was rejected: an initial run leaves no case, a replan
\* saves the decline and the INVALID plan.
Exhaust ==
  /\ status' = IF run.scope.replan THEN "broken" ELSE status
  /\ declines' = declines \cup ({run.decline} \ {NoDecline})
  /\ run' = Idle
  /\ UNCHANGED <<plan, researched, snapshot, host>>

\* Faulty: judges a replacement like a first plan.
AcceptsUnpreserved(k, p) == Valid(Judging(k), p)

\* One verdict
Accepts(k, p) == ValidRepair(Judging(k), p, run.scope.kept)

\* Faulty: a repair goes on counting the transmissions of the last request.
JudgeCounting(k, p, next) ==
  IF Accepts(k, p) THEN Adopt(k, p)
  ELSE IF run.judged + 1 = MAX_PLAN_ATTEMPTS THEN Exhaust
  ELSE /\ run' = [run EXCEPT !.phase = next, !.hired = k, !.judged = @ + 1,
                             !.reasonings = @ + 1]
       /\ UNCHANGED case

\* Faulty: one attempt too many.
JudgeOnceMore(k, p, next) ==
  IF Accepts(k, p) THEN Adopt(k, p)
  ELSE IF run.judged = MAX_PLAN_ATTEMPTS THEN Exhaust
  ELSE /\ run' = [run EXCEPT !.phase = next, !.hired = k, !.judged = @ + 1,
                             !.sends = 0, !.reasonings = @ + 1]
       /\ UNCHANGED case

\* `next` is the phase in which a rejected proposal is repaired.
Judge(k, p, next) ==
  IF Accepts(k, p) THEN Adopt(k, p)
  ELSE IF run.judged + 1 = MAX_PLAN_ATTEMPTS THEN Exhaust
  ELSE /\ run' = [run EXCEPT !.phase = next, !.hired = k, !.judged = @ + 1,
                             !.sends = 0, !.reasonings = @ + 1]
       /\ UNCHANGED case

-----------------------------------------------------------------------------
(* What the agents may propose. *)

\* Any plan that fits the facts, any that overlooks the declines, or nonsense
FreeProposals(facts) == {NoPlan} \cup ValidPlans(facts) \cup ValidPlans(snapshot)

\* propose_constraint_plan: a replan whose primitives need no calendar change
\* selects among them, any other proposal is free.
ProposalsFrom(m, facts, scope) ==
  IF scope.replan /\ UsesSelection(facts, m)
  THEN {[segments |-> c, moves |-> FALSE] : c \in Materializable(m)}
  ELSE FreeProposals(facts)

PlannerProposals(facts, scope) == ProposalsFrom(Matrix(facts, scope), facts, scope)

\* The candidates the research of a run can end with; NoOne if it is not
\* needed, none if the research fails or no ranked candidate completes the day
Hireable(facts, scope) ==
  IF Research /\ Need(facts, scope).research
  THEN UNION {Selected(facts, scope, r) : r \in Rankings(facts, scope)}
  ELSE {NoOne}

-----------------------------------------------------------------------------
(* A run in the service's own process. *)

Goes(next) == run' = [run EXCEPT !.phase = next] /\ UNCHANGED case

Hires == \E k \in Hireable(run.facts, run.scope) :
           run' = [run EXCEPT !.phase = "propose", !.hired = k] /\ UNCHANGED case

\* run_initial_planning_session: the single agent looks the facts up
GatherContext ==
  run.phase = "brief" /\ host[1] = "single" /\ ~ run.scope.replan /\ Goes("propose")

\* process_external_event: it looks them up again after a decline
RefreshContext ==
  run.phase = "brief" /\ host[1] = "single" /\ run.scope.replan /\ Goes("propose")

\* create_initial_planning_brief: the orchestrator has a say in nothing that
\* is authoritative, it can only refuse.
ScopeInitial ==
  run.phase = "brief" /\ host[1] # "single" /\ ~ run.scope.replan /\ Goes("research")

\* create_replanning_brief, with a second try if the answer was too long
ScopeReplan ==
  run.phase = "brief" /\ host[1] # "single" /\ run.scope.replan /\ Goes("research")

\* run_multi_agent_initial_planning: without a researcher
SkipResearch ==
  run.phase = "research" /\ ~ Research /\ ~ run.scope.replan /\ Goes("propose")

\* run_research_multi_agent_initial_planning
ResearchInitial == run.phase = "research" /\ Research /\ ~ run.scope.replan /\ Hires

\* run_multi_agent_replanning, with a researcher or without
ResearchReplan == run.phase = "research" /\ run.scope.replan /\ Hires

\* run_constraint_planning: one attempt of the constraint planner
PlannerAttempt ==
  /\ run.phase = "propose" /\ host[1] # "single"
  /\ \E p \in PlannerProposals(Judging(run.hired), run.scope) : Judge(run.hired, p, "propose")

\* run_bounded_plan_attempts: one attempt of the single agent
SingleAgentAttempt ==
  /\ run.phase = "propose" /\ host[1] = "single"
  /\ \E p \in FreeProposals(run.facts) : Judge(NoOne, p, "propose")

\* An agent says nothing usable, a selection is refused, research finds nobody.
LocalRunRaises == run.phase \in {"brief", "research", "propose"} /\ Raise

-----------------------------------------------------------------------------
(* A run on AgentCore: the gateway sends, the runtime reasons, the gateway  *)
(* judges and asks for repairs.  The runtime keeps nothing.                 *)

\* AgentCoreClient.invoke: one transmission
Send ==
  /\ run.phase = "send"
  /\ run' = [run EXCEPT !.phase = "runtime", !.sends = @ + 1]
  /\ UNCHANGED case

\* A connect timeout or endpoint error: the runtime never saw the request,
\* which is transmitted once more.
ConnectFails ==
  /\ run.phase = "runtime" /\ run.sends < TRANSPORT_ATTEMPTS
  /\ run' = [run EXCEPT !.phase = "send"]
  /\ UNCHANGED case

\* The connection closed after the runtime had taken the request: this, too,
\* is transmitted once more, and the first reasoning was for nothing.
ConnectionClosed ==
  /\ run.phase = "runtime" /\ run.sends < TRANSPORT_ATTEMPTS
  /\ run' = [run EXCEPT !.phase = "send", !.reasonings = @ + 1]
  /\ UNCHANGED case

\* The same errors of the last transmission, a read timeout, any other error, a
\* response to another request, and every exception of the runtime
InvocationFails == run.phase = "runtime" /\ Raise

\* A first request is briefed and researched, a repair carries the brief and
\* the candidate of the first response.
RuntimeCandidates ==
  IF run.judged = 0 THEN Hireable(run.facts, run.scope) ELSE {run.hired}

\* execute_runtime_request: the answers to one request
RuntimeReasoning ==
  UNION {{<<k, p>> : p \in PlannerProposals(Judging(k), run.scope)} : k \in RuntimeCandidates}

\* _validate_with_repairs: an answer arrives and is judged.
RuntimeAnswers ==
  /\ run.phase = "runtime"
  /\ \E answer \in RuntimeReasoning : Judge(answer[1], answer[2], "send")

-----------------------------------------------------------------------------
Init ==
  /\ snapshot \in Snapshots /\ host \in Hosts
  /\ status = "none" /\ plan = NoPlan /\ researched = NoOne /\ declines = {}
  /\ run = Idle

LocalStep ==
  \/ GatherContext \/ RefreshContext \/ SingleAgentAttempt
  \/ ScopeInitial \/ ScopeReplan
  \/ SkipResearch \/ ResearchInitial \/ ResearchReplan
  \/ PlannerAttempt
  \/ LocalRunRaises

RemoteStep == Send \/ ConnectFails \/ ConnectionClosed \/ InvocationFails \/ RuntimeAnswers

Next ==
  \/ StartRecovery
  \/ \E d \in Reports : ReportDecline(d)
  \/ LocalStep
  \/ RemoteStep

Spec == Init /\ [][Next]_vars

\* A run in progress gets on: model and network calls have timeouts.  Nobody
\* has to ask for a run.  This is WF_run of the steps of a run, one of which is
\* always enabled while it is not idle, in a form TLC evaluates faster.
FairSpec == Spec /\ ([]<>(run.phase = "idle") \/ []<><<TRUE>>_run)

-----------------------------------------------------------------------------
TypeOK ==
  /\ IsScenario(snapshot) /\ host \in Hosts
  /\ status \in {"none", "active", "no_option", "broken"}
  /\ plan \in DayPlan
  /\ researched \in Candidates \cup {NoOne}
  /\ declines \subseteq Declined
  /\ IsScenario(run.facts)
  /\ run \in [phase : {"idle", "brief", "research", "propose", "send", "runtime"},
              facts : {run.facts},
              scope : [replan : BOOLEAN, affected : SUBSET Window, kept : SUBSET Segment],
              decline : Declined \cup {NoDecline},
              hired : Candidates \cup {NoOne},
              judged : 0 .. MAX_PLAN_ATTEMPTS - 1,
              sends : 0 .. TRANSPORT_ATTEMPTS,
              reasonings : 0 .. MAX_PLAN_ATTEMPTS * TRANSPORT_ATTEMPTS - 1]

-----------------------------------------------------------------------------
(* The child's day, tick by tick, without the validator's definitions. *)

Ticks(g) == g.window.start .. g.window.end - 1

Busy(events, t) == \E e \in events : e.start <= t /\ t < e.end

\* A caregiver has said they are there at tick t.  A hired candidate counts as
\* offered, whatever they declined since.
Offers(c, t) ==
  IF c \in Candidates THEN Busy(Offer[c], t)
  ELSE Busy(snapshot.free[c], t) /\ ~ Busy(DeclinedBy(c), t)

\* Somebody may take charge of the child at tick t.
Present(who, t) ==
  IF who \in Parents
  THEN ~ Busy(snapshot.fixed[who], t) /\ (plan.moves \/ ~ Busy(snapshot.movable[who], t))
  ELSE /\ who \notin snapshot.out
       /\ who \in External => snapshot.external
       /\ snapshot.trustedOnly => who \in Trusted
       /\ Offers(who, t)

\* Somebody is able and free to drive the child at tick t.
CanDrive(by, t) ==
  IF by \in Parents
  THEN Busy(snapshot.drives[by], t) /\ ~ Busy(snapshot.fixed[by], t)
  ELSE /\ by \in Drivers
       /\ by \in External => snapshot.external /\ snapshot.providerTrips
       /\ Offers(by, t)

\* The child is never without somebody in charge who is trusted as the family
\* demands and can be there, is driven only by somebody who is able and free to
\* drive, and never changes place without a trip: whatever was proposed,
\* rejected or retried, declined or hired on the way to the plan in force
\* (plan_validator.py).  Of a driver who is not the person assigned, the code
\* asks neither trust nor whether they are out that day, and nor does this.
AdoptedDaysAreSafe ==
  status = "active" =>
    /\ \A t \in Required.start .. Required.end - 1 : \E g \in plan.segments : t \in Ticks(g)
    /\ \A g \in plan.segments : \A t \in Ticks(g) :
         /\ Present(g.who, t)
         /\ g.kind = "TRANSPORT" => CanDrive(g.by, t)
    /\ \A g \in plan.segments, h \in plan.segments : Adjacent(plan.segments, g, h) => g.to = h.from

\* The decliner's own work at the declined time, and any trip to or from the
\* decliner's place
Touched(g, d) ==
  \/ g.who = d.who /\ \E t \in Ticks(g) : Busy({d.window}, t)
  \/ g.kind = "TRANSPORT" /\ At[d.who] \in {g.from, g.to}

\* A replacement leaves alone what the decline did not touch: whoever had the
\* child at a tick still has, at the same place, or on the same trip with the
\* same driver (README.md: "repairs only the affected coverage").
OnlyTouchedWorkChanges ==
  [][run.phase # "idle" /\ run.scope.replan /\ status' = "active" /\ run'.phase = "idle"
       /\ declines' # declines
     => \A g \in plan.segments :
          ~ Touched(g, run.decline) =>
            \A t \in Ticks(g) : \E h \in plan'.segments :
              /\ t \in Ticks(h) /\ h.who = g.who /\ h.by = g.by
              /\ h.from = g.from /\ h.to = g.to]_vars

-----------------------------------------------------------------------------
(* What a run is given to work with, looked at before its first proposal.   *)

Starting == run.judged = 0 /\ run.phase \in {"brief", "send"}

\* For each primitive the sets of primitives that lead from it, one after the
\* other, to the end of the day
Onward(work) ==
  LET onward[g \in work] ==
        (IF g.window.end = Required.end THEN {{g}} ELSE {})
        \cup
        UNION {{{g} \cup j : j \in onward[h]} :
               h \in {k \in work : k.window.start = g.window.end /\ k.from = g.to}}
  IN  onward

\* Those that lead from home through the whole day
Journeys(work) ==
  LET onward == Onward(work)
  IN  UNION {onward[g] : g \in {k \in work : k.window.start = Required.start /\ k.from = Home}}

\* The search for connected paths finds exactly the primitives of complete
\* journeys, so that "insufficient" means there is none.
MatrixIsExact ==
  Starting =>
    Matrix(run.facts, run.scope).work
      = UNION Journeys(Scoped(Primitives(run.facts), run.scope))

\* One person takes over exactly when the other leaves.
Unbuffered(s) == s.handoff = 0 /\ \A c \in Caregivers : Buffer[c] = 0

\* Whoever may decline next, nobody is left to bring the child to them or to
\* fetch it there: a preserved trip to or from the decliner's place still meets
\* supervision at that place (plan_invalidation.py, the connected handoffs).
PreservedTripsMeetCare ==
  \A d \in Reports :
    status = "active" /\ Unbuffered(snapshot) /\ At[d.who] # Home /\ Breaks(plan.segments, d) =>
      LET kept == RepairScope(plan.segments, d).kept
      IN  \A g \in {k \in kept : k.kind = "TRANSPORT"} :
            /\ g.to = At[d.who] /\ g.window.end # Required.end =>
                 \E h \in kept : h.window.start = g.window.end /\ h.from = g.to
            /\ g.from = At[d.who] /\ g.window.start # Required.start =>
                 \E h \in kept : h.window.end = g.window.start /\ h.to = g.from

\* Once the service has let a run start, the research of that run finds a
\* candidate, however it ranks them: the gate and the workflow ask the same
\* question of the same facts (NoPlanableResearchCandidateError is unreachable).
GateAgreesWithResearch ==
  Starting /\ Research /\ Need(run.facts, run.scope).research =>
    \A rankings \in {Rankings(run.facts, run.scope)} :
      /\ rankings # {}
      /\ \A r \in rankings : Selected(run.facts, run.scope, r) # {}

\* A parent's trip does not ask for the meeting it would move.
AsksForMoves(g, s) ==
  g.kind = "TRANSPORT" /\ g.who \in Parents /\ \E e \in s.movable[g.who] : Overlaps(g.window, e)

\* A planner that selects a complete journey has a plan the validator accepts,
\* with all preserved work in it, so selecting primitives never dooms a run: if
\* there are no handoff buffers and the preserved work is still possible, which
\* a provider hired again for a time they declined is not.
JourneysValidate ==
  /\ Starting /\ run.scope.replan /\ Unbuffered(run.facts)
  /\ \A g \in run.scope.kept : SegmentOk(run.facts, g, FALSE)
  => \A m \in {Matrix(run.facts, run.scope)} :
       UsesSelection(run.facts, m) =>
         \A j \in Journeys(m.work) :
           ~ (\E g \in j : AsksForMoves(g, run.facts)) =>
             ValidRepair(run.facts, [segments |-> j, moves |-> FALSE], run.scope.kept)

\* The provider that research picks really completes the day: with all preserved
\* work and some care of theirs there is a valid plan, if meetings may be moved.
HiringSuffices ==
  /\ run.phase \in {"propose", "send"} /\ run.hired # NoOne /\ Unbuffered(run.facts)
  /\ \A g \in run.scope.kept : SegmentOk(run.facts, g, TRUE)
  => LET facts == Judging(run.hired)
     IN  \E j \in Journeys(Matrix(facts, run.scope).work) :
           /\ \E g \in j : g.kind = "CARE" /\ g.who = run.hired
           /\ ValidRepair(facts, [segments |-> j, moves |-> TRUE], run.scope.kept)

\* Whoever declined is not in charge of any of the declined time again.  The
\* code makes an exception it does not announce: research compares the providers
\* by what they offered once (backup_care.py).
DeclinersAreReleased ==
  status = "active" =>
    \A d \in declines : \A g \in plan.segments : g.who = d.who => ~ Overlaps(g.window, d.window)

-----------------------------------------------------------------------------
\* Any run ends with a verdict of its own within three proposals and twice as
\* many reasonings, and the plan in force changes only to one that validates.
Promise == INSTANCE PlanningPromise WITH
  MaxJudged <- MAX_PLAN_ATTEMPTS,
  MaxReasonings <- MAX_PLAN_ATTEMPTS * TRANSPORT_ATTEMPTS,
  NoDay <- NoPlan,
  day <- plan,
  acceptable <- {p \in {plan} : AdoptedDaysAreSafe},
  running <- run.phase # "idle",
  judged <- run.judged,
  reasonings <- run.reasonings

PromiseKept == Promise!Spec

=============================================================================
