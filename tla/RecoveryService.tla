--------------------------- MODULE RecoveryService ---------------------------
(***************************************************************************)
(* RecoveryApplicationService with the approval, execution and completion  *)
(* services it calls, over the versioned case repository, for one recovery *)
(* case.  Every HTTP request runs on a server thread and is a sequence of  *)
(* steps; a step ends where another thread's step may come between: each   *)
(* repository.get, each repository.save, each call of the execution        *)
(* adapter.  A save is conditional on the version the thread read; a       *)
(* thread that loses the race is answered with a conflict.                 *)
(*                                                                         *)
(* The client's expected_version only turns requests away (a mismatch is   *)
(* answered 409 and changes nothing), and the client may omit it: the      *)
(* requests modelled are those that get past it.                           *)
(***************************************************************************)
EXTENDS RecoveryCase

CONSTANTS
  Thread,       \* server threads
  FailTargets   \* people whose actions the adapter reports as FAILED

ASSUME FailTargetsAssumption == FailTargets \subseteq Person

VARIABLES
  case,       \* the stored aggregate
  pc,         \* thread |-> where its request stands
  job,        \* thread |-> the request it serves
  read,       \* thread |-> the case it read and will save a successor of
  facts,      \* thread |-> the scenario _execute_and_complete looked up
  todo,       \* thread |-> the actions it has still to send to the adapter
  performed,  \* actions the adapter was called for, ever
  repeated    \* actions the adapter was called for more than once

serverVars == <<pc, job, read, facts, todo>>
effectVars == <<performed, repeated>>
vars == <<case, serverVars, effectVars>>

Decision == [approval : Nat, verdict : {"APPROVED", "REJECTED", "NONE"}]

NoJob == [approval |-> 0, verdict |-> "NONE"]
NoFacts == [p \in {} |-> {}]

\* Who is available when, as far as some scenario says.
Facts == UNION {[people -> SUBSET Tick] : people \in SUBSET Caregiver}

PC == {"idle", "replan", "gate", "decide", "lookup", "execute", "adapter",
       "record", "verify", "resolve"}

\* The points at which a thread is about to save what it made of `read`.
Saving == {"replan", "gate", "decide", "record", "resolve"}

\* Every variable has its type, and the pending request is one of the history.
TypeOK ==
  /\ case \in Case
  /\ case.pending \in 0 .. Len(case.approvals)
  /\ pc \in [Thread -> PC]
  /\ job \in [Thread -> Decline \cup Decision]
  /\ read \in [Thread -> Case]
  /\ facts \in [Thread -> Facts]
  /\ todo \in [Thread -> SUBSET Action]
  /\ performed \subseteq Action
  /\ repeated \subseteq performed

Init ==
  /\ case = NoCase
  /\ pc = [w \in Thread |-> "idle"]
  /\ job = [w \in Thread |-> NoJob]
  /\ read = [w \in Thread |-> NoCase]
  /\ facts = [w \in Thread |-> NoFacts]
  /\ todo = [w \in Thread |-> {}]
  /\ performed = {}
  /\ repeated = {}

-----------------------------------------------------------------------------
(* Threads and the repository. *)

Become(w, at, j, c, f, acts) ==
  /\ pc' = [pc EXCEPT ![w] = at]
  /\ job' = [job EXCEPT ![w] = j]
  /\ read' = [read EXCEPT ![w] = c]
  /\ facts' = [facts EXCEPT ![w] = f]
  /\ todo' = [todo EXCEPT ![w] = acts]

\* The request is answered, whatever the answer.
Answer(w) == Become(w, "idle", NoJob, NoCase, NoFacts, {})

\* _execute_and_complete starts: everything it needs it reads again.
GoExecute(w) == Become(w, "lookup", NoJob, NoCase, NoFacts, {})

\* next_version: the successor of the version the writer read.
Stored(c, old) == [c EXCEPT !.version = old.version + 1]

\* Faulty: last writer wins.
SaveUnversioned(c, old) == case' = Stored(c, old)

\* repository.save with expected_version = old.version, when it succeeds.
Save(c, old) ==
  /\ case.version = old.version
  /\ case' = Stored(c, old)

\* Faulty: the conflict is swallowed and the same save tried again.
RetryForever(w) ==
  /\ pc[w] \in Saving
  /\ case.version # read[w].version
  /\ UNCHANGED vars

\* Every save can find that the stored version moved on: the exception ends
\* the request and nothing of it is kept.
LoseRace(w) ==
  /\ pc[w] \in Saving
  /\ case.version # read[w].version
  /\ Answer(w)
  /\ UNCHANGED <<case, effectVars>>

\* The request dies with its server process, or its planner raises.
Abort(w) ==
  /\ pc[w] # "idle"
  /\ Answer(w)
  /\ UNCHANGED <<case, effectVars>>

-----------------------------------------------------------------------------
(* POST /recoveries.  A start that ends before the first save leaves no    *)
(* trace, so planning and the first save are one step.                     *)

\* The case keeps a snapshot of the family's settings as they are now.
NewCase(plan, researched, external) ==
  [NoCase EXCEPT !.version = 1, !.plan = plan, !.valid = TRUE,
                 !.assumed = Assumptions(plan), !.researched = researched,
                 !.external = external]

StartWithoutOption(w) ==
  /\ pc[w] = "idle"
  /\ case = NoCase
  /\ Gap(BaseAvailability) # {}
  /\ \E external \in ExternalSettings :
       /\ Planable(external, Gap(BaseAvailability)) = {}
       /\ case' = [NoCase EXCEPT !.version = 1, !.status = "NO_RECOVERY_OPTION",
                                 !.external = external]
  /\ UNCHANGED <<serverVars, effectVars>>

\* A plan that needs no approval and no researched candidate is kept waiting
\* for the caregivers' response; any other goes to the autonomy gate.
StartWithPlan(w) ==
  /\ pc[w] = "idle"
  /\ case = NoCase
  /\ \E external \in ExternalSettings : \E proposal \in InitialProposals(external) :
       LET new == NewCase(AcceptedPlan(<<>>, proposal.cover), proposal.researched, external)
       IN  /\ case' = new
           /\ IF new.researched = NoOne /\ ~ new.plan.needs
              THEN UNCHANGED serverVars
              ELSE Become(w, "gate", NoJob, new, NoFacts, {})
  /\ UNCHANGED effectVars

-----------------------------------------------------------------------------
(* POST /recoveries/{id}/events.  The planner runs between the two steps.  *)

ReceiveDecline(w) ==
  /\ pc[w] = "idle"
  /\ case.version > 0
  /\ \E e \in EventId, r \in Reports :
       LET d == [id |-> e, who |-> r.who, window |-> r.window]
       IN  /\ Applicable(case, d)
           /\ Become(w, "replan", d, case, NoFacts, {})
  /\ UNCHANGED <<case, effectVars>>

\* _stop_when_no_recovery_option
RecordNoOption(w) ==
  /\ pc[w] = "replan"
  /\ NoOptionLeft(read[w], job[w])
  /\ Save([AfterDecline(read[w], job[w]) EXCEPT !.status = "NO_RECOVERY_OPTION"],
          read[w])
  /\ Answer(w)
  /\ UNCHANGED effectVars

\* The bounded attempts ended without a valid plan: the decline is recorded
\* and the active plan stays INVALID.
RecordFailedReplan(w) ==
  /\ pc[w] = "replan"
  /\ ~ NoOptionLeft(read[w], job[w])
  /\ Save(AfterDecline(read[w], job[w]), read[w])
  /\ Answer(w)
  /\ UNCHANGED effectVars

\* The replacement is saved; the policy for the gate is looked up again,
\* which can raise.
AdoptReplacement(w) ==
  /\ pc[w] = "replan"
  /\ ~ NoOptionLeft(read[w], job[w])
  /\ \E proposal \in Replacements(read[w], job[w]) :
       LET new == AfterReplan(read[w], job[w], proposal)
       IN  /\ Save(new, read[w])
           /\ IF ScenarioLost(new)
              THEN Answer(w)
              ELSE Become(w, "gate", NoJob, Stored(new, read[w]), NoFacts, {})
  /\ UNCHANGED effectVars

-----------------------------------------------------------------------------
(* ApprovalService. *)

\* Faulty: answers before executing.
PassGateOnly(w) ==
  /\ pc[w] = "gate"
  /\ ~ read[w].plan.needs
  /\ Save([read[w] EXCEPT !.status = "EXECUTING"], read[w])
  /\ Answer(w)
  /\ UNCHANGED effectVars

\* No approval needed: EXECUTING.  A pending approval of an earlier plan is
\* left in place.
PassGate(w) ==
  /\ pc[w] = "gate"
  /\ ~ read[w].plan.needs
  /\ Save([read[w] EXCEPT !.status = "EXECUTING"], read[w])
  /\ GoExecute(w)
  /\ UNCHANGED effectVars

AskedAlready(c) ==
  c.pending # 0 /\ c.approvals[c.pending] = [plan |-> c.plan.id, status |-> "PENDING"]

\* Faulty: the request is not put into the history.
AskingUnlisted(c) ==
  [c EXCEPT !.status = "APPROVAL_REQUIRED", !.pending = Len(c.approvals) + 1]

\* Faulty: an earlier request stays the pending one.
AskingBehind(c) ==
  [c EXCEPT !.status    = "APPROVAL_REQUIRED",
            !.approvals = Append(@, [plan |-> c.plan.id, status |-> "PENDING"])]

\* The case with a new request for its active plan.
Asking(c) ==
  [c EXCEPT !.status    = "APPROVAL_REQUIRED",
            !.approvals = Append(@, [plan |-> c.plan.id, status |-> "PENDING"]),
            !.pending   = Len(c.approvals) + 1]

AskParent(w) ==
  /\ pc[w] = "gate"
  /\ read[w].plan.needs
  /\ IF AskedAlready(read[w]) THEN UNCHANGED case ELSE Save(Asking(read[w]), read[w])
  /\ Answer(w)
  /\ UNCHANGED effectVars

\* Faulty: any open request may be answered.
DecidableStale(c, i) ==
  c.approvals[i].status = "PENDING" /\ c.status = "APPROVAL_REQUIRED"

\* The guards of _decide for a request that is still open.
Decidable(c, i) ==
  /\ c.approvals[i].status = "PENDING"
  /\ c.status = "APPROVAL_REQUIRED"
  /\ c.pending = i
  /\ c.plan # NoPlan
  /\ c.approvals[i].plan = c.plan.id

Decided(c, i, verdict) ==
  [c EXCEPT !.status    = IF verdict = "APPROVED" THEN "EXECUTING" ELSE "REPLANNING",
            !.pending   = 0,
            !.approvals = [@ EXCEPT ![i].status = verdict]]

\* POST /recoveries/{id}/approvals/{id} with either verdict, for any request of
\* the history that is still open; one the guards refuse changes nothing.
ReceiveDecision(w) ==
  /\ pc[w] = "idle"
  /\ \E i \in DOMAIN case.approvals, v \in {"APPROVED", "REJECTED"} :
       /\ Decidable(case, i)
       /\ Become(w, "decide", [approval |-> i, verdict |-> v], case, NoFacts, {})
  /\ UNCHANGED <<case, effectVars>>

\* The request already has that verdict: an approval resumes execution, of
\* whatever plan is active by now, unless the case is resolved.  Repeating a
\* rejection changes nothing.
ReceiveSameApproval(w) ==
  /\ pc[w] = "idle"
  /\ \E i \in DOMAIN case.approvals : case.approvals[i].status = "APPROVED"
  /\ case.status # "RESOLVED"
  /\ GoExecute(w)
  /\ UNCHANGED <<case, effectVars>>

\* Faulty: the approval is recorded and nothing is executed.
DecideOnly(w) ==
  /\ pc[w] = "decide"
  /\ Save(Decided(read[w], job[w].approval, job[w].verdict), read[w])
  /\ Answer(w)
  /\ UNCHANGED effectVars

Decide(w) ==
  /\ pc[w] = "decide"
  /\ Save(Decided(read[w], job[w].approval, job[w].verdict), read[w])
  /\ IF job[w].verdict = "APPROVED" THEN GoExecute(w) ELSE Answer(w)
  /\ UNCHANGED effectVars

-----------------------------------------------------------------------------
(* _execute_and_complete. *)

LookUpScenario(w) ==
  /\ pc[w] = "lookup"
  /\ IF ScenarioLost(case)
     THEN Answer(w)
     ELSE Become(w, "execute", NoJob, NoCase, ScenarioFor(case), {})
  /\ UNCHANGED <<case, effectVars>>

\* RecoveryExecutionService.execute up to its loop.
BeginExecution(w) ==
  /\ pc[w] = "execute"
  /\ IF ~ Executable(case) THEN Answer(w)
     ELSE IF AllDone(case) THEN Become(w, "verify", NoJob, NoCase, facts[w], {})
     ELSE LET missing == RequiredActions(case.plan) \ case.done
          IN  Become(w, IF missing = {} THEN "record" ELSE "adapter",
                     NoJob, case, facts[w], missing)
  /\ UNCHANGED <<case, effectVars>>

\* Faulty: leaves the loop after the first action.
CallAdapterOnce(w) ==
  /\ pc[w] = "adapter"
  /\ \E a \in todo[w] :
       /\ performed' = performed \cup {a}
       /\ repeated' = IF a \in performed THEN repeated \cup {a} ELSE repeated
       /\ todo' = [todo EXCEPT ![w] = @ \ {a}]
  /\ pc' = [pc EXCEPT ![w] = "record"]
  /\ UNCHANGED <<case, job, read, facts>>

\* One adapter call.  The order of the loop only matters to what a crash
\* leaves undone, so any remaining action may be next.
CallAdapter(w) ==
  /\ pc[w] = "adapter"
  /\ \E a \in todo[w] :
       /\ performed' = performed \cup {a}
       /\ repeated' = IF a \in performed THEN repeated \cup {a} ELSE repeated
       /\ todo' = [todo EXCEPT ![w] = @ \ {a}]
       /\ pc' = [pc EXCEPT ![w] = IF todo[w] = {a} THEN "record" ELSE @]
  /\ UNCHANGED <<case, job, read, facts>>

\* Faulty: the execution history starts afresh.
ExecutedAnew(c) ==
  LET tried == RequiredActions(c.plan) \ c.done
      bad   == {a \in tried : a.who \in FailTargets}
  IN  [c EXCEPT !.status = IF bad = {} THEN "EXECUTING" ELSE "FAILED",
                !.done = tried \ bad, !.failed = bad]

\* What the loop made of the case it had read.
Executed(c) ==
  LET tried == RequiredActions(c.plan) \ c.done
      bad   == {a \in tried : a.who \in FailTargets}
  IN  [c EXCEPT !.status = IF bad = {} THEN "EXECUTING" ELSE "FAILED",
                !.done   = @ \cup (tried \ bad),
                !.failed = (@ \ tried) \cup bad]

RecordExecution(w) ==
  /\ pc[w] = "record"
  /\ Save(Executed(read[w]), read[w])
  /\ IF Executed(read[w]).status = "FAILED"
     THEN Answer(w)
     ELSE Become(w, "verify", NoJob, NoCase, facts[w], {})
  /\ UNCHANGED effectVars

\* CompletionVerifier, with the scenario looked up before the execution.
VerifyCompletion(w) ==
  /\ pc[w] = "verify"
  /\ IF Verifiable(case, facts[w])
     THEN Become(w, "resolve", NoJob, case, NoFacts, {})
     ELSE Answer(w)
  /\ UNCHANGED <<case, effectVars>>

Resolve(w) ==
  /\ pc[w] = "resolve"
  /\ Save([read[w] EXCEPT !.status = "RESOLVED", !.verified = TRUE], read[w])
  /\ Answer(w)
  /\ UNCHANGED effectVars

-----------------------------------------------------------------------------
(* Specifications. *)

\* What a client may ask for ...
Arrive(w) ==
  \/ StartWithoutOption(w) \/ StartWithPlan(w)
  \/ ReceiveDecline(w) \/ ReceiveDecision(w) \/ ReceiveSameApproval(w)

\* ... and the steps by which the server answers.
Serve(w) ==
  \/ RecordNoOption(w) \/ RecordFailedReplan(w) \/ AdoptReplacement(w)
  \/ PassGate(w) \/ AskParent(w) \/ Decide(w)
  \/ LookUpScenario(w) \/ BeginExecution(w)
  \/ CallAdapter(w) \/ RecordExecution(w)
  \/ VerifyCompletion(w) \/ Resolve(w)
  \/ LoseRace(w)

ReliableNext == \E w \in Thread : Arrive(w) \/ Serve(w)

Next == \E w \in Thread : Arrive(w) \/ Serve(w) \/ Abort(w)

\* Threads may die in the middle of a request.
Spec == Init /\ [][Next]_vars

\* No thread dies, and the scheduler runs every request it has accepted.
Fairness == \A w \in Thread : WF_vars(Serve(w))
ReliableSpec == Init /\ [][ReliableNext]_vars /\ Fairness

-----------------------------------------------------------------------------
(* Safety. *)

\* No external side effect is ever sent for a plan that lacked its
\* authorization, whatever races, crashes and replays happen: an adapter call
\* belongs to a plan of the case that needs no approval or was APPROVED.
EffectsAuthorized == \A a \in performed : a.plan \in Authorized(case)

\* A rejected plan stays inert for good: none of its actions is ever sent to
\* the adapter and the case is never resolved by it.
RejectedPlansInert ==
  \A i \in DOMAIN case.approvals :
    case.approvals[i].status = "REJECTED" =>
      /\ \A a \in performed : a.plan # case.approvals[i].plan
      /\ ~ (case.status = "RESOLVED" /\ case.plan.id = case.approvals[i].plan)

\* RESOLVED is only ever the state of a case whose active plan is valid and
\* authorized and whose every required action really reached the adapter.
ResolvedIsEarned ==
  case.status = "RESOLVED" =>
    /\ case.valid
    /\ case.plan.id \in Authorized(case)
    /\ RequiredActions(case.plan) \subseteq performed

\* A resolved case puts nobody in charge of a time they declined.  The
\* verifier judges by a scenario looked up before the execution, so this
\* needs that nothing was recorded in between.
ResolvedRespectsDeclines ==
  case.status = "RESOLVED" =>
    \A d \in case.declines : \A t \in d.window : case.plan.cover[t] # d.who

\* A plan id names one plan for good: actions, approvals and assumptions are
\* keyed by it, so no two plans of a case may share one.
PlanIdsNameOnePlan ==
  \A p, q \in EverPlans(case) : p.id = q.id => p = q

\* A case that waits for the parent can be answered: the pending request is
\* open, is the one the case points at, and is about the active plan.
WaitingIsAnswerable ==
  case.status = "APPROVAL_REQUIRED" => case.pending # 0 /\ Decidable(case, case.pending)

\* A required action is sent to the adapter once.  Two requests that repeat
\* the approval both find it missing in the history and both send it.
ActionsRunOnce == repeated = {}

\* Whoever a valid plan counts on is known to the scenario the case is judged
\* by.  The case remembers one researched provider, the last one hired.
HiredHelpIsKnown ==
  case.valid => \A t \in Tick : case.plan.cover[t] \in People(case) \cup {Parent}

Prefix(s, t) == Len(s) <= Len(t) /\ \A i \in 1 .. Len(s) : t[i] = s[i]

\* No writer ever overwrites what another has recorded: declines, earlier
\* plans, finished actions and approval requests are only added to, and a
\* plan stays the same plan for as long as it is active.
NothingRecordedIsLost ==
  [][/\ case.declines \subseteq case'.declines
     /\ Prefix(case.prev, case'.prev)
     /\ case.done \subseteq case'.done
     /\ Len(case.approvals) <= Len(case'.approvals)
     /\ case'.plan.id = case.plan.id => case'.plan = case.plan]_vars

\* A parent's decision is final, and is only ever recorded about the plan
\* that is active and valid at that moment: a stale approval cannot slip
\* through between a decline and its replacement plan.
DecisionsFinalAndCurrent ==
  [][\A i \in DOMAIN case.approvals :
       LET was == case.approvals[i]
           is  == case'.approvals[i]
       IN  /\ is.plan = was.plan
           /\ was.status # "PENDING" => is.status = was.status
           /\ is.status # was.status => case.valid /\ case.plan.id = was.plan]_vars

-----------------------------------------------------------------------------
(* Where a case can be left, and progress. *)

Quiet == \A w \in Thread : pc[w] = "idle"

\* Why an EXECUTING case can be beyond the verifier's reach for good.
Blocked(c) ==
  \/ c.pending # 0
  \/ ReliesOnInvalidated(c)
  \/ ScenarioLost(c)
  \/ ~ Fits(c.plan.cover, ScenarioFor(c))

\* When no request is running and none has died, an EXECUTING case is one of
\* the known dead ends, or all its actions were performed and recorded and
\* only the verdict is missing: no race drops the execution of a plan.
ExecutionNeverDropped ==
  Quiet /\ case.status = "EXECUTING" =>
    Blocked(case) \/ RequiredActions(case.plan) \subseteq case.done

\* Every request is answered, also one that loses every race.
RequestsAnswered == \A w \in Thread : pc[w] # "idle" ~> pc[w] = "idle"

\* However often clients retry and whoever loses a race, an EXECUTING case
\* leaves that state, is one of the dead ends, or has all its actions done.
ExecutionSettles ==
  case.status = "EXECUTING" ~>
    \/ case.status # "EXECUTING"
    \/ Blocked(case)
    \/ RequiredActions(case.plan) \subseteq case.done

=============================================================================
