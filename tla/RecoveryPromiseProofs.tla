------------------------ MODULE RecoveryPromiseProofs ------------------------
(***************************************************************************)
(* RecoveryService keeps AutonomyPromise, and what follows on the way: a   *)
(* rejected plan stays inert, a resolution is earned, the execution of a   *)
(* plan is never dropped, and a resolved case respects every decline that  *)
(* was not recorded behind the back of the request that resolved it.       *)
(*                                                                         *)
(* The argument: to the invariant of RecoveryServiceProofs it adds what    *)
(* the history of a case says of its plans and approvals (Earned) and what *)
(* a thread knows of the calls it made (Worked).  At most one request is   *)
(* ever made per plan, because the gate is only reached with a plan that   *)
(* was just accepted under an id never used before.                        *)
(***************************************************************************)
EXTENDS RecoveryPromise, RecoveryServiceProofs

\* The price and the familiarity of a plan were judged when it was accepted.
Priced(c) == \A p \in EverPlans(c) : p.needs = NeedsApproval(p.cover)

\* A parent is asked once per plan, and only about plans that need it.
AskedOnce(c) ==
  /\ \A i, j \in DOMAIN c.approvals :
       c.approvals[i].plan = c.approvals[j].plan => i = j
  /\ \A i \in DOMAIN c.approvals :
       \E p \in EverPlans(c) : p.id = c.approvals[i].plan /\ p.needs

\* What the stored case may claim, the adapter having been called for `acts`.
Earned(c, acts) ==
  /\ Priced(c)
  /\ AskedOnce(c)
  /\ c.done \subseteq acts
  /\ c.status \in {"EXECUTING", "RESOLVED"} => c.valid
  /\ c.status = "RESOLVED" => /\ c.plan.id \in Authorized(c)
                              /\ RequiredActions(c.plan) \subseteq acts

Unasked(c) == \A i \in DOMAIN c.approvals : c.approvals[i].plan # c.plan.id

\* What a thread at `at` that read c and has `left` still to send relies on.
Worked(at, c, left, acts) ==
  /\ at = "gate" => Unasked(c) /\ c.status # "RESOLVED"
  /\ at = "adapter" => (RequiredActions(c.plan) \ c.done) \ left \subseteq acts
  /\ at = "record" => RequiredActions(c.plan) \ c.done \subseteq acts
  /\ at = "resolve" => /\ c.status = "EXECUTING"
                       /\ c.plan # NoPlan
                       /\ NeedsApproval(c.plan.cover) => c.plan.id \in Approved(c)
                       /\ RequiredActions(c.plan) \subseteq c.done

HistoryInv ==
  /\ IInv
  /\ Earned(case, performed)
  /\ \A w \in Thread : Worked(pc[w], read[w], todo[w], performed)

PromiseStep == [Promise!Next]_(Promise!vars)

-----------------------------------------------------------------------------
(* Plans of a case. *)

\* Every plan a case had is a plan whose id is at most one above the number of
\* the plans before, and no two of them share it.
LEMMA PlansNumbered ==
  ASSUME NEW c, WellFormed(c)
  PROVE  /\ \A p \in EverPlans(c) : p \in Plan /\ p.id \in 1 .. Len(c.prev) + 1
         /\ \A p, q \in EverPlans(c) : p.id = q.id => p = q
         /\ Len(c.prev) \in Nat
<1>1. /\ Numbered(c) /\ c.prev \in Seq(Plan) /\ c.plan \in Plan
      /\ DOMAIN c.prev = 1 .. Len(c.prev) /\ Len(c.prev) \in Nat
  BY DEF WellFormed, Case
<1>2. \A i \in DOMAIN c.prev : c.prev[i] \in Plan /\ c.prev[i].id = i
  BY <1>1 DEF Numbered
<1>3. CASE c.plan = NoPlan
  BY <1>1, <1>2, <1>3 DEF EverPlans, Numbered
<1>4. CASE c.plan # NoPlan /\ c.valid
  BY <1>1, <1>2, <1>4 DEF EverPlans, Numbered
<1>5. CASE c.plan # NoPlan /\ ~ c.valid
  BY <1>1, <1>2, <1>5 DEF EverPlans, Numbered
<1> QED
  BY <1>3, <1>4, <1>5

\* A broken plan moves to the previous ones: the case has had the same plans.
LEMMA DeclineSamePlans ==
  ASSUME NEW c, WellFormed(c), NEW n,
         n.prev = Append(c.prev, c.plan), n.plan = c.plan
  PROVE  EverPlans(n) = EverPlans(c) \cup {c.plan}
<1>1. c.prev \in Seq(Plan) /\ c.plan \in Plan
  BY DEF WellFormed, Case
<1>2. /\ DOMAIN n.prev = 1 .. Len(c.prev) + 1 /\ DOMAIN c.prev = 1 .. Len(c.prev)
      /\ Len(c.prev) \in Nat
      /\ \A i \in 1 .. Len(c.prev) : n.prev[i] = c.prev[i]
      /\ n.prev[Len(c.prev) + 1] = c.plan
  BY <1>1
<1> QED
  BY <1>2 DEF EverPlans

\* What build_replanning_result makes of each field that matters here.
LEMMA ReplanFields ==
  ASSUME NEW c, WellFormed(c), NEW d \in Decline, Applicable(c, d),
         NEW p \in Replacements(c, d)
  PROVE  LET n == AfterReplan(c, d, p)
         IN  /\ n.status = "EXECUTING" /\ n.valid /\ n.version = c.version
             /\ n.plan.id = Len(c.prev) + 2
             /\ n.plan.needs = NeedsApproval(n.plan.cover)
             /\ EverPlans(n) = EverPlans(c) \cup {n.plan}
             /\ n.approvals = c.approvals /\ n.done = c.done
             /\ n.pending = c.pending
             /\ n.declines = c.declines \cup {d}
<1> DEFINE h == AfterDecline(c, d)
           new == AcceptedPlan(h.prev, p.cover)
           n == AfterReplan(c, d, p)
<1>1. c.prev \in Seq(Plan) /\ c.plan \in Plan /\ c \in Case
  BY DEF WellFormed, Case
<1>2. p.cover \in Coverage
  BY <1>1, ReplacementsTyped
<1>3. /\ h \in Case /\ h.version = c.version /\ c.plan # NoPlan /\ h.plan = c.plan
      /\ h.prev = Append(c.prev, c.plan) /\ h.declines = c.declines \cup {d}
      /\ h.done = c.done /\ h.pending = c.pending /\ h.approvals = c.approvals
  BY DeclineFields
<1>4. WellFormed(h)
  BY AfterDeclineKeeps
<1>5. /\ Len(h.prev) = Len(c.prev) + 1 /\ Len(c.prev) \in Nat /\ h.prev \in Seq(Plan)
  BY <1>1, <1>3
<1>6. \A i \in DOMAIN h.prev : h.prev[i].id = i
  BY <1>4 DEF WellFormed, Numbered
<1>7. new.id = Len(c.prev) + 2 /\ new # NoPlan
  BY <1>2, <1>5, <1>6, AcceptedPlanIsNext
<1>8. new.cover = p.cover /\ new.needs = NeedsApproval(p.cover)
  BY DEF AcceptedPlan
<1> HIDE DEF new, h
<1>9. n = [h EXCEPT !.status = "EXECUTING", !.plan = new, !.valid = TRUE,
                    !.assumed = h.assumed \cup Assumptions(new),
                    !.researched = IF p.researched = NoOne THEN h.researched
                                   ELSE p.researched]
  BY <1>3 DEF AfterReplan, h, new, Case
<1> HIDE DEF n
<1>10. /\ n.status = "EXECUTING" /\ n.version = c.version
       /\ n.plan = new /\ n.valid /\ n.prev = h.prev /\ n.declines = h.declines
       /\ n.done = h.done /\ n.pending = h.pending /\ n.approvals = h.approvals
  BY <1>3, <1>9 DEF Case
<1>11. EverPlans(h) = EverPlans(c)
  BY <1>3, DeclineSamePlans DEF EverPlans
<1>12. EverPlans(h) = {h.prev[i] : i \in DOMAIN h.prev}
  <2>1. c.plan \in {h.prev[i] : i \in DOMAIN h.prev}
    BY <1>1, <1>3
  <2> QED
    BY <1>3, <2>1 DEF EverPlans
<1>13. EverPlans(n) = EverPlans(c) \cup {new}
  BY <1>7, <1>10, <1>11, <1>12 DEF EverPlans
<1> QED
  BY <1>3, <1>7, <1>8, <1>10, <1>13 DEF n

-----------------------------------------------------------------------------
(* Operations of the aggregate and the history. *)

\* An operation that leaves the plans and the approvals alone.
LEMMA SettledEarned ==
  ASSUME NEW c, NEW n, NEW acts, NEW more, Earned(c, acts), acts \subseteq more,
         EverPlans(n) = EverPlans(c), n.approvals = c.approvals,
         n.done \subseteq more, n.status # "RESOLVED",
         n.status = "EXECUTING" => n.valid
  PROVE  Earned(n, more)
BY DEF Earned, Priced, AskedOnce

\* More calls of the adapter take nothing away.
LEMMA EarnedGrows ==
  ASSUME NEW c, NEW acts, NEW more, Earned(c, acts), acts \subseteq more
  PROVE  Earned(c, more)
BY DEF Earned

\* A thread loses nothing by the calls of the others.
LEMMA WorkedGrows ==
  ASSUME NEW at, NEW c, NEW left, NEW acts, NEW more,
         Worked(at, c, left, acts), acts \subseteq more
  PROVE  Worked(at, c, left, more)
BY DEF Worked

\* A case that says the same under another version number.
LEMMA VersionEarned ==
  ASSUME NEW c \in Case, NEW acts, NEW v \in Nat, Earned(c, acts)
  PROVE  Earned([c EXCEPT !.version = v], acts)
<1> DEFINE n == [c EXCEPT !.version = v]
<1>1. /\ n.status = c.status /\ n.plan = c.plan /\ n.valid = c.valid
      /\ n.prev = c.prev /\ n.approvals = c.approvals /\ n.done = c.done
  BY DEF Case
<1> HIDE DEF n
<1>2. EverPlans(n) = EverPlans(c) /\ Approved(n) = Approved(c)
  BY <1>1 DEF EverPlans, Approved
<1>3. Authorized(n) = Authorized(c)
  BY <1>2 DEF Authorized
<1>4. Earned(n, acts)
  BY <1>1, <1>2, <1>3 DEF Earned, Priced, AskedOnce
<1> QED
  BY <1>4 DEF n

\* No approval is about a plan id that was never given out.
LEMMA UnaskedWhenNew ==
  ASSUME NEW c, WellFormed(c), NEW acts, Earned(c, acts), NEW n,
         n.approvals = c.approvals, n.plan.id = Len(c.prev) + 2
  PROVE  Unasked(n)
<1>1. ASSUME NEW i \in DOMAIN c.approvals
      PROVE  c.approvals[i].plan # Len(c.prev) + 2
  <2>1. PICK p \in EverPlans(c) : p.id = c.approvals[i].plan
    BY DEF Earned, AskedOnce
  <2> QED
    BY <2>1, PlansNumbered
<1> QED
  BY <1>1 DEF Unasked

\* A recorded decline withdraws the plan and claims nothing new.
LEMMA DeclineEarned ==
  ASSUME NEW c, WellFormed(c), NEW acts, Earned(c, acts),
         NEW d \in Decline, Applicable(c, d),
         NEW st \in {"REPLANNING", "NO_RECOVERY_OPTION"},
         NEW n, n = [AfterDecline(c, d) EXCEPT !.status = st]
  PROVE  /\ Earned(n, acts) /\ n.status # "RESOLVED" /\ ~ n.valid
         /\ EverPlans(n) = EverPlans(c) /\ n.approvals = c.approvals
         /\ c.valid /\ c.plan # NoPlan
<1> DEFINE h == AfterDecline(c, d)
<1>1. /\ h \in Case /\ h.plan = c.plan /\ c.plan # NoPlan /\ c.valid /\ ~ h.valid
      /\ h.prev = Append(c.prev, c.plan) /\ h.done = c.done
      /\ h.approvals = c.approvals
  BY DeclineFields
<1>n. n = [h EXCEPT !.status = st]
  OBVIOUS
<1> HIDE DEF h
<1>2. /\ n.plan = c.plan /\ ~ n.valid /\ n.prev = Append(c.prev, c.plan)
      /\ n.done = c.done /\ n.approvals = c.approvals /\ n.status = st
  BY <1>1, <1>n DEF Case
<1>3. EverPlans(n) = EverPlans(c)
  <2>1. EverPlans(n) = EverPlans(c) \cup {c.plan}
    BY <1>2, DeclineSamePlans
  <2>2. c.plan \in EverPlans(c)
    BY <1>1 DEF EverPlans
  <2> QED
    BY <2>1, <2>2
<1>4. Earned(n, acts)
  BY <1>2, <1>3, SettledEarned DEF Earned
<1> QED
  BY <1>1, <1>2, <1>3, <1>4

\* The replacement is judged by the policy and nobody was asked about it.
LEMMA ReplanEarned ==
  ASSUME NEW c, WellFormed(c), NEW acts, Earned(c, acts),
         NEW d \in Decline, Applicable(c, d), NEW p \in Replacements(c, d)
  PROVE  Earned(AfterReplan(c, d, p), acts) /\ Unasked(AfterReplan(c, d, p))
<1> DEFINE n == AfterReplan(c, d, p)
<1>1. /\ n.status = "EXECUTING" /\ n.valid
      /\ n.plan.id = Len(c.prev) + 2
      /\ n.plan.needs = NeedsApproval(n.plan.cover)
      /\ EverPlans(n) = EverPlans(c) \cup {n.plan}
      /\ n.approvals = c.approvals /\ n.done = c.done
  BY ReplanFields
<1> HIDE DEF n
<1>2. Unasked(n)
  BY <1>1, UnaskedWhenNew
<1>3. Earned(n, acts)
  BY <1>1 DEF Earned, Priced, AskedOnce
<1> QED
  BY <1>2, <1>3 DEF n

\* The one request about a plan nobody was asked about.
LEMMA AskingEarned ==
  ASSUME NEW c, WellFormed(c), c.plan # NoPlan, c.plan.needs, Unasked(c),
         NEW acts, Earned(c, acts)
  PROVE  /\ Earned(Asking(c), acts)
         /\ EverPlans(Asking(c)) = EverPlans(c)
         /\ Asking(c).status = "APPROVAL_REQUIRED"
         /\ Asking(c).valid = c.valid /\ Asking(c).plan = c.plan
         /\ Asking(c).approvals = Append(c.approvals, [plan |-> c.plan.id, status |-> "PENDING"])
<1> DEFINE n == Asking(c)
           new == [plan |-> c.plan.id, status |-> "PENDING"]
<1>1. c \in Case /\ c.approvals \in Seq(Approval)
  BY DEF WellFormed, Case
<1>2. /\ n.approvals = Append(c.approvals, new) /\ n.status = "APPROVAL_REQUIRED"
      /\ n.plan = c.plan /\ n.prev = c.prev /\ n.valid = c.valid /\ n.done = c.done
  BY <1>1 DEF Asking, Case
<1>3. /\ DOMAIN n.approvals = 1 .. Len(c.approvals) + 1 /\ Len(c.approvals) \in Nat
      /\ DOMAIN c.approvals = 1 .. Len(c.approvals)
      /\ \A i \in 1 .. Len(c.approvals) : n.approvals[i] = c.approvals[i]
      /\ n.approvals[Len(c.approvals) + 1] = new /\ new.plan = c.plan.id
  BY <1>1, <1>2
<1> HIDE DEF n, new
<1>4. EverPlans(n) = EverPlans(c) /\ c.plan \in EverPlans(n)
  BY <1>2 DEF EverPlans
<1>5. AskedOnce(n)
  <2>1. ASSUME NEW i \in DOMAIN n.approvals, NEW j \in DOMAIN n.approvals,
               n.approvals[i].plan = n.approvals[j].plan
        PROVE  i = j
    <3>1. \A k \in 1 .. Len(c.approvals) : n.approvals[k].plan # c.plan.id
      BY <1>3 DEF Unasked
    <3>2. \A k, m \in 1 .. Len(c.approvals) :
            n.approvals[k].plan = n.approvals[m].plan => k = m
      BY <1>3 DEF Earned, AskedOnce
    <3>3. n.approvals[Len(c.approvals) + 1].plan = c.plan.id
      BY <1>3
    <3>4. \A k \in DOMAIN n.approvals :
            k \in 1 .. Len(c.approvals) \/ k = Len(c.approvals) + 1
      BY <1>3
    <3> QED
      BY <2>1, <3>1, <3>2, <3>3, <3>4
  <2>2. ASSUME NEW i \in DOMAIN n.approvals
        PROVE  \E p \in EverPlans(n) : p.id = n.approvals[i].plan /\ p.needs
    BY <1>3, <1>4 DEF Earned, AskedOnce
  <2> QED
    BY <2>1, <2>2 DEF AskedOnce
<1>6. Earned(n, acts)
  BY <1>2, <1>4, <1>5 DEF Earned, Priced
<1> QED
  BY <1>2, <1>4, <1>6 DEF n, new

\* The decision about the pending request.
LEMMA DecidedFields ==
  ASSUME NEW c, WellFormed(c), NEW i \in DOMAIN c.approvals, Decidable(c, i),
         NEW v \in {"APPROVED", "REJECTED"}, NEW n, n = Decided(c, i, v)
  PROVE  /\ n.status \in {"EXECUTING", "REPLANNING"}
         /\ n.plan = c.plan /\ n.valid = c.valid /\ n.prev = c.prev
         /\ n.done = c.done /\ n.pending = 0
         /\ DOMAIN n.approvals = DOMAIN c.approvals
         /\ \A k \in DOMAIN c.approvals : k # i => n.approvals[k] = c.approvals[k]
         /\ n.approvals[i].plan = c.plan.id /\ n.approvals[i].status = v
<1> DEFINE list == [c.approvals EXCEPT ![i].status = v]
<1>1. c \in Case /\ c.approvals \in Seq(Approval) /\ c.approvals[i] \in Approval
  BY DEF WellFormed, Case
<1>2. /\ n.approvals = list
      /\ n.status = (IF v = "APPROVED" THEN "EXECUTING" ELSE "REPLANNING")
      /\ n.plan = c.plan /\ n.prev = c.prev /\ n.valid = c.valid /\ n.done = c.done
      /\ n.pending = 0
  BY <1>1 DEF Decided, Case
<1>3. DOMAIN list = DOMAIN c.approvals
  OBVIOUS
<1>4. \A k \in DOMAIN c.approvals : k # i => list[k] = c.approvals[k]
  OBVIOUS
<1>5. list[i] = [plan |-> c.plan.id, status |-> v]
  <2>1. list[i] = [c.approvals[i] EXCEPT !.status = v]
    OBVIOUS
  <2>2. c.approvals[i].plan = c.plan.id
    BY DEF Decidable
  <2> QED
    BY <1>1, <2>1, <2>2 DEF Approval
<1>6. list[i].plan = c.plan.id /\ list[i].status = v
  BY <1>5
<1> HIDE DEF list
<1> QED
  BY <1>2, <1>3, <1>4, <1>6

\* A decision claims nothing new.
LEMMA DecidedEarned ==
  ASSUME NEW c, WellFormed(c), NEW i \in DOMAIN c.approvals, Decidable(c, i),
         NEW v \in {"APPROVED", "REJECTED"}, NEW n, n = Decided(c, i, v),
         NEW acts, Earned(c, acts)
  PROVE  Earned(n, acts) /\ EverPlans(n) = EverPlans(c)
<1>1. c.valid /\ c.approvals[i].plan = c.plan.id
  BY DEF Decidable, WellFormed, Answerable
<1>2. n.status = "EXECUTING" \/ n.status = "REPLANNING"
  BY DecidedFields
<1>3. n.plan = c.plan /\ n.valid = c.valid /\ n.prev = c.prev /\ n.done = c.done
  BY DecidedFields
<1>4. DOMAIN n.approvals = DOMAIN c.approvals
  BY DecidedFields
<1>5. \A k \in DOMAIN c.approvals : n.approvals[k].plan = c.approvals[k].plan
  <2>1. \A k \in DOMAIN c.approvals : k # i => n.approvals[k] = c.approvals[k]
    BY DecidedFields
  <2>2. n.approvals[i].plan = c.plan.id
    BY DecidedFields
  <2> QED
    BY <1>1, <2>1, <2>2
<1>6. EverPlans(n) = EverPlans(c)
  BY <1>3 DEF EverPlans
<1>7. AskedOnce(n)
  BY <1>4, <1>5, <1>6 DEF AskedOnce, Earned
<1>8. Earned(n, acts)
  BY <1>1, <1>2, <1>3, <1>6, <1>7 DEF Earned, Priced
<1> QED
  BY <1>6, <1>8

-----------------------------------------------------------------------------
(* Steps of a thread. *)

\* A step after which nothing the household sees has changed.
LEMMA UnseenStep ==
  ASSUME case' = case, performed' = performed
  PROVE  PromiseStep
<1>1. Offered' = Offered /\ Verdicts' = Verdicts
  BY DEF Offered, Verdicts
<1>2. UNCHANGED Promise!vars
  BY <1>1 DEF Promise!vars
<1> QED
  BY <1>2 DEF PromiseStep

\* A save that leaves the plans, the decisions and the resolution as they are.
LEMMA UnseenSave ==
  ASSUME EverPlans(case') = EverPlans(case), Verdicts' = Verdicts,
         case'.plan = case.plan, case'.valid = case.valid,
         case.status # "RESOLVED", case'.status # "RESOLVED",
         performed' = performed
  PROVE  PromiseStep
<1>1. Offered' = Offered
  BY DEF Offered
<1>2. (case.status = "RESOLVED")' = (case.status = "RESOLVED")
  OBVIOUS
<1>3. UNCHANGED Promise!vars
  BY <1>1, <1>2 DEF Promise!vars
<1> QED
  BY <1>3 DEF PromiseStep

\* A thread that comes to `at`.
LEMMA HistoryThread ==
  ASSUME HistoryInv, IInv', NEW w \in Thread, NEW at, NEW j, NEW c, NEW f, NEW left,
         Become(w, at, j, c, f, left), performed \subseteq performed',
         Earned(case', performed'), Worked(at, c, left, performed')
  PROVE  HistoryInv'
<1>1. ASSUME NEW v \in Thread
      PROVE  Worked(pc'[v], read'[v], todo'[v], performed')
  <2>1. CASE v = w
    <3>1. pc'[v] = at /\ read'[v] = c /\ todo'[v] = left
      BY <2>1 DEF HistoryInv, IInv, TypeOK, Become
    <3> QED
      BY <3>1
  <2>2. CASE v # w
    <3>1. pc'[v] = pc[v] /\ read'[v] = read[v] /\ todo'[v] = todo[v]
      BY <2>2 DEF HistoryInv, IInv, TypeOK, Become
    <3>2. Worked(pc[v], read[v], todo[v], performed)
      BY DEF HistoryInv
    <3> QED
      BY <3>1, <3>2, WorkedGrows
  <2> QED
    BY <2>1, <2>2
<1> QED
  BY <1>1 DEF HistoryInv

\* A thread at a point where it relies on nothing.
LEMMA HistoryFresh ==
  ASSUME HistoryInv, IInv', NEW w \in Thread, NEW f,
         NEW at \in {"idle", "lookup", "execute", "verify"},
         Become(w, at, NoJob, NoCase, f, {}), UNCHANGED effectVars,
         Earned(case', performed)
  PROVE  HistoryInv'
<1>1. performed' = performed
  BY DEF effectVars
<1>2. Worked(at, NoCase, {}, performed')
  BY DEF Worked
<1> QED
  BY <1>1, <1>2, HistoryThread

\* The same of a request that is answered or goes on to execute.
LEMMA HistoryAnswered ==
  ASSUME HistoryInv, IInv', NEW w \in Thread, Answer(w) \/ GoExecute(w),
         UNCHANGED effectVars, Earned(case', performed)
  PROVE  HistoryInv'
BY HistoryFresh DEF Answer, GoExecute

\* A step that leaves the threads alone.
LEMMA HistoryIdle ==
  ASSUME HistoryInv, IInv', UNCHANGED serverVars, UNCHANGED effectVars,
         Earned(case', performed)
  PROVE  HistoryInv'
BY DEF HistoryInv, serverVars, effectVars

-----------------------------------------------------------------------------
(* One lemma per action. *)

\* What a save leaves, and what the thread had read.
LEMMA SavedHistory ==
  ASSUME HistoryInv, NEW w \in Thread, pc[w] \in Saving,
         NEW x, WellFormed(x), Keeps(read[w], x), Earned(x, performed),
         Save(x, read[w])
  PROVE  /\ case = read[w] /\ case' = Stored(x, read[w])
         /\ Earned(case', performed)
         /\ EverPlans(case') = EverPlans(x)
         /\ case'.plan = x.plan /\ case'.valid = x.valid /\ case'.status = x.status
         /\ case'.approvals = x.approvals
         /\ case'.done = x.done
<1>1. case = read[w] /\ case' = Stored(x, read[w]) /\ case.version \in Nat /\ x \in Case
  BY SavedIsLater DEF HistoryInv, IInv, WellFormed, Case
<1>2. case' = [x EXCEPT !.version = case.version + 1]
  BY <1>1 DEF Stored
<1>3. Earned(case', performed)
  BY <1>1, <1>2, VersionEarned
<1>4. /\ case'.plan = x.plan /\ case'.valid = x.valid /\ case'.status = x.status
      /\ case'.approvals = x.approvals /\ case'.prev = x.prev /\ case'.done = x.done
  BY <1>1, <1>2 DEF Case
<1>5. EverPlans(case') = EverPlans(x)
  BY <1>4 DEF EverPlans
<1> QED
  BY <1>1, <1>3, <1>4, <1>5

\* The first plan is on offer, or there is none.
LEMMA StartWithoutOptionHistory ==
  ASSUME HistoryInv, IInv', NEW w \in Thread, StartWithoutOption(w)
  PROVE  HistoryInv' /\ PromiseStep
<1>1. PICK external \in ExternalSettings :
        case' = [NoCase EXCEPT !.version = 1, !.status = "NO_RECOVERY_OPTION",
                               !.external = external]
  BY DEF StartWithoutOption
<1>2. case = NoCase /\ NoCase \in Case /\ performed' = performed
  BY NoCaseWellFormed DEF StartWithoutOption, WellFormed, effectVars
<1>3. /\ case'.status = "NO_RECOVERY_OPTION" /\ case'.plan = NoCase.plan
      /\ case'.prev = NoCase.prev /\ case'.valid = NoCase.valid
      /\ case'.approvals = NoCase.approvals /\ case'.done = NoCase.done
      /\ NoCase.status = "WAITING_FOR_RESPONSE"
  BY <1>1, <1>2 DEF Case, NoCase
<1>4. EverPlans(case') = EverPlans(case)
  BY <1>2, <1>3 DEF EverPlans
<1>5. Earned(case', performed)
  BY <1>2, <1>3, <1>4, SettledEarned DEF HistoryInv, Earned
<1>6. Verdicts' = Verdicts
  BY <1>2, <1>3 DEF Verdicts
<1>7. PromiseStep
  BY <1>2, <1>3, <1>4, <1>6, UnseenSave
<1> QED
  BY <1>5, <1>7, HistoryIdle DEF StartWithoutOption

\* A plan under an id never used before takes the place of the one on offer.
LEMMA OfferStep ==
  ASSUME EverPlans(case') = EverPlans(case) \cup {case'.plan},
         case'.plan.id # 0, case'.valid,
         \A q \in EverPlans(case) : q.id # case'.plan.id,
         Verdicts' = Verdicts, case'.status # "RESOLVED", performed' = performed
  PROVE  PromiseStep
<1> DEFINE Shown(q) == [id |-> q.id, needs |-> q.needs, duties |-> RequiredActions(q)]
           p == Shown(case'.plan)
<1>1. Offered' = Offered \cup {p}
  BY DEF Offered
<1>2. \A q \in Offered : q.id # p.id
  BY DEF Offered
<1>3. p \in Offered' /\ p.id # 0 /\ p.id = case'.plan.id
  BY <1>1
<1> HIDE DEF p
<1>4. Promise!OfferPlan
  BY <1>1, <1>2, <1>3 DEF Promise!OfferPlan
<1> QED
  BY <1>4 DEF PromiseStep, Promise!Next

\* POST /recoveries offers the first plan.
LEMMA StartWithPlanHistory ==
  ASSUME HistoryInv, IInv', NEW w \in Thread, StartWithPlan(w)
  PROVE  HistoryInv' /\ PromiseStep
<1>0. PICK external \in ExternalSettings : \E proposal \in InitialProposals(external) :
        LET new == NewCase(AcceptedPlan(<<>>, proposal.cover), proposal.researched, external)
        IN  /\ case' = new
            /\ IF new.researched = NoOne /\ ~ new.plan.needs
               THEN UNCHANGED serverVars
               ELSE Become(w, "gate", NoJob, new, NoFacts, {})
  BY DEF StartWithPlan
<1>1. PICK proposal \in InitialProposals(external) :
        LET new == NewCase(AcceptedPlan(<<>>, proposal.cover), proposal.researched, external)
        IN  /\ case' = new
            /\ UNCHANGED serverVars \/ Become(w, "gate", NoJob, new, NoFacts, {})
  BY <1>0
<1> DEFINE plan == AcceptedPlan(<<>>, proposal.cover)
           new == NewCase(plan, proposal.researched, external)
<1>2. plan.needs = NeedsApproval(plan.cover)
  BY DEF AcceptedPlan
<1>3. /\ case = NoCase /\ performed' = performed
      /\ NoCase.prev = <<>> /\ NoCase.approvals = <<>> /\ NoCase.done = {}
      /\ NoCase.status = "WAITING_FOR_RESPONSE" /\ NoCase.plan = NoPlan
  BY DEF StartWithPlan, effectVars, NoCase
<1> HIDE DEF plan
<1>4. /\ new.prev = <<>> /\ new.approvals = <<>> /\ new.done = {} /\ new.plan = plan
      /\ new.valid /\ new.status = "WAITING_FOR_RESPONSE"
  BY DEF NewCase, NoCase
<1>5. case' = new
  BY <1>1 DEF plan
<1> HIDE DEF new
<1>6. plan # NoPlan /\ plan.id # 0
  <2>1. WellFormed(case')
    BY DEF IInv
  <2> QED
    BY <1>4, <1>5, <2>1 DEF WellFormed, Numbered, NoPlan
<1>7. EverPlans(case) = {} /\ EverPlans(case') = {plan}
  BY <1>3, <1>4, <1>5, <1>6 DEF EverPlans
<1>8. Earned(case', performed)
  BY <1>2, <1>4, <1>5, <1>7 DEF Earned, Priced, AskedOnce
<1>9. Unasked(case') /\ Verdicts' = Verdicts
  BY <1>3, <1>4, <1>5 DEF Unasked, Verdicts
<1>10. PromiseStep
  BY <1>3, <1>4, <1>5, <1>6, <1>7, <1>9, OfferStep
<1>11. CASE UNCHANGED serverVars
  BY <1>8, <1>10, <1>11, HistoryIdle DEF StartWithPlan
<1>12. CASE Become(w, "gate", NoJob, new, NoFacts, {})
  <2>1. Worked("gate", new, {}, performed')
    BY <1>4, <1>5, <1>9 DEF Worked
  <2> QED
    BY <1>3, <1>8, <1>10, <1>12, <2>1, HistoryThread
<1> QED
  BY <1>1, <1>11, <1>12 DEF new, plan

\* A decline is only checked so far.
LEMMA ReceiveDeclineHistory ==
  ASSUME HistoryInv, IInv', NEW w \in Thread, ReceiveDecline(w)
  PROVE  HistoryInv' /\ PromiseStep
<1>1. PICK e \in EventId, r \in Reports :
        Become(w, "replan", [id |-> e, who |-> r.who, window |-> r.window], case,
               NoFacts, {})
  BY DEF ReceiveDecline
<1>2. case' = case /\ performed' = performed /\ Earned(case, performed)
  BY DEF ReceiveDecline, effectVars, HistoryInv
<1>3. Worked("replan", case, {}, performed')
  BY DEF Worked
<1> QED
  BY <1>1, <1>2, <1>3, HistoryThread, UnseenStep

\* The same of a decision.
LEMMA ReceiveDecisionHistory ==
  ASSUME HistoryInv, IInv', NEW w \in Thread, ReceiveDecision(w)
  PROVE  HistoryInv' /\ PromiseStep
<1>1. PICK i \in DOMAIN case.approvals, v \in {"APPROVED", "REJECTED"} :
        Become(w, "decide", [approval |-> i, verdict |-> v], case, NoFacts, {})
  BY DEF ReceiveDecision
<1>2. case' = case /\ performed' = performed /\ Earned(case, performed)
  BY DEF ReceiveDecision, effectVars, HistoryInv
<1>3. Worked("decide", case, {}, performed')
  BY DEF Worked
<1> QED
  BY <1>1, <1>2, <1>3, HistoryThread, UnseenStep

\* A repeated approval only sends the thread to execute.
LEMMA ReceiveSameApprovalHistory ==
  ASSUME HistoryInv, IInv', NEW w \in Thread, ReceiveSameApproval(w)
  PROVE  HistoryInv' /\ PromiseStep
<1>1. case' = case /\ performed' = performed /\ Earned(case, performed)
  BY DEF ReceiveSameApproval, effectVars, HistoryInv
<1> QED
  BY <1>1, HistoryAnswered, UnseenStep DEF ReceiveSameApproval

\* The plan on offer broke and nothing replaces it.
LEMMA WithdrawStep ==
  ASSUME EverPlans(case') = EverPlans(case), case'.approvals = case.approvals,
         case.valid, case.plan.id # 0, ~ case'.valid, case'.status # "RESOLVED",
         performed' = performed
  PROVE  PromiseStep
<1>1. Offered' = Offered /\ Verdicts' = Verdicts
  BY DEF Offered, Verdicts
<1>2. Promise!Withdraw
  BY <1>1 DEF Promise!Withdraw
<1> QED
  BY <1>2 DEF PromiseStep, Promise!Next

\* A decline saved without a replacement withdraws the plan.
LEMMA DeclineSavedHistory ==
  ASSUME HistoryInv, IInv', NEW w \in Thread, pc[w] = "replan",
         NEW st \in {"REPLANNING", "NO_RECOVERY_OPTION"},
         Save([AfterDecline(read[w], job[w]) EXCEPT !.status = st], read[w]),
         Answer(w), UNCHANGED effectVars
  PROVE  HistoryInv' /\ PromiseStep
<1> DEFINE n == [AfterDecline(read[w], job[w]) EXCEPT !.status = st]
<1>1. pc[w] \in Saving /\ pc[w] \in Holding /\ performed' = performed
  BY DEF Saving, Holding, effectVars
<1>2. /\ WellFormed(read[w]) /\ job[w] \in Decline /\ Applicable(read[w], job[w])
  BY <1>1, HeldIsWellFormed DEF IInv, Checked, HistoryInv
<1>3. WellFormed(n) /\ Keeps(read[w], n)
  BY <1>2, DeclineKeeps
<1>6. Save(n, read[w])
  OBVIOUS
<1>n. n = [AfterDecline(read[w], job[w]) EXCEPT !.status = st]
  OBVIOUS
<1> HIDE DEF n
<1>4. case = read[w] /\ Earned(read[w], performed)
  BY <1>1, <1>3, <1>6, SavedIsLater DEF HistoryInv
<1>5. /\ Earned(n, performed) /\ n.status # "RESOLVED" /\ ~ n.valid
      /\ EverPlans(n) = EverPlans(read[w]) /\ n.approvals = read[w].approvals
      /\ read[w].valid /\ read[w].plan # NoPlan
  <2>1. Earned(n, performed)
    BY <1>2, <1>4, <1>n, DeclineEarned
  <2>2. n.status # "RESOLVED"
    BY <1>2, <1>4, <1>n, DeclineEarned
  <2>3. AfterDecline(read[w], job[w]) \in Case
    BY <1>2, DeclineFields
  <2>4. ~ n.valid /\ n.approvals = read[w].approvals
    BY <1>2, <1>n, <2>3, DeclineFields DEF Case
  <2>6. EverPlans(n) = EverPlans(read[w])
    BY <1>2, <1>4, <1>n, DeclineEarned
  <2>5. read[w].valid /\ read[w].plan # NoPlan
    BY <1>2, <1>4, <1>n, DeclineEarned
  <2> QED
    BY <2>1, <2>2, <2>4, <2>5, <2>6
<1>7. /\ Earned(case', performed)
      /\ EverPlans(case') = EverPlans(case) /\ case'.approvals = case.approvals
      /\ ~ case'.valid /\ case'.status # "RESOLVED"
  BY <1>1, <1>3, <1>4, <1>5, <1>6, SavedHistory
<1>8. case.plan.id # 0
  BY <1>2, <1>4, <1>5 DEF WellFormed, Numbered, Case
<1>9. PromiseStep
  BY <1>1, <1>4, <1>5, <1>7, <1>8, WithdrawStep
<1> QED
  BY <1>7, <1>9, HistoryAnswered

\* NO_RECOVERY_OPTION is saved.
LEMMA RecordNoOptionHistory ==
  ASSUME HistoryInv, IInv', NEW w \in Thread, RecordNoOption(w)
  PROVE  HistoryInv' /\ PromiseStep
BY DeclineSavedHistory DEF RecordNoOption

\* The case is saved with its plan INVALID.
LEMMA RecordFailedReplanHistory ==
  ASSUME HistoryInv, IInv', NEW w \in Thread, RecordFailedReplan(w)
  PROVE  HistoryInv' /\ PromiseStep
<1>1. WellFormed(read[w]) /\ job[w] \in Decline /\ Applicable(read[w], job[w])
  BY HeldIsWellFormed DEF RecordFailedReplan, IInv, Checked, HistoryInv, Saving, Holding
<1>2. AfterDecline(read[w], job[w])
        = [AfterDecline(read[w], job[w]) EXCEPT !.status = "REPLANNING"]
  BY <1>1, DeclineFields DEF Case
<1>3. Save([AfterDecline(read[w], job[w]) EXCEPT !.status = "REPLANNING"], read[w])
  <2>1. Save(AfterDecline(read[w], job[w]), read[w])
    BY DEF RecordFailedReplan
  <2> QED
    BY <1>2, <2>1 DEF Save
<1>4. pc[w] = "replan" /\ Answer(w) /\ UNCHANGED effectVars
  BY DEF RecordFailedReplan
<1>5. "REPLANNING" \in {"REPLANNING", "NO_RECOVERY_OPTION"}
  OBVIOUS
<1> QED
  BY <1>3, <1>4, <1>5, DeclineSavedHistory

\* The replacement is on offer, and the gate is given what was saved.
LEMMA AdoptReplacementHistory ==
  ASSUME HistoryInv, IInv', NEW w \in Thread, AdoptReplacement(w)
  PROVE  HistoryInv' /\ PromiseStep
<1>1. pc[w] \in Saving /\ pc[w] \in Holding /\ performed' = performed
  BY DEF AdoptReplacement, Saving, Holding, effectVars
<1>2. WellFormed(read[w]) /\ job[w] \in Decline /\ Applicable(read[w], job[w])
  BY <1>1, HeldIsWellFormed DEF AdoptReplacement, IInv, Checked, HistoryInv
<1>3. PICK proposal \in Replacements(read[w], job[w]) :
        LET new == AfterReplan(read[w], job[w], proposal)
        IN  /\ Save(new, read[w])
            /\ Answer(w) \/ Become(w, "gate", NoJob, Stored(new, read[w]), NoFacts, {})
  BY DEF AdoptReplacement
<1> DEFINE n == AfterReplan(read[w], job[w], proposal)
<1>4. WellFormed(n) /\ Keeps(read[w], n)
  BY <1>2, AfterReplanKeeps
<1>5. Save(n, read[w]) /\ (Answer(w) \/ Become(w, "gate", NoJob, Stored(n, read[w]), NoFacts, {}))
  BY <1>3
<1>6. case = read[w] /\ Earned(read[w], performed)
  BY <1>1, <1>4, <1>5, SavedIsLater DEF HistoryInv
<1>7. Earned(n, performed) /\ Unasked(n)
  BY <1>2, <1>6, ReplanEarned
<1>8. /\ n.status = "EXECUTING" /\ n.valid /\ n.plan.id = Len(read[w].prev) + 2
      /\ EverPlans(n) = EverPlans(read[w]) \cup {n.plan}
      /\ n.approvals = read[w].approvals
  BY <1>2, ReplanFields
<1> HIDE DEF n
<1>9. /\ case' = Stored(n, read[w]) /\ Earned(case', performed)
      /\ EverPlans(case') = EverPlans(case) \cup {case'.plan}
      /\ case'.plan = n.plan /\ case'.valid /\ case'.status = "EXECUTING"
      /\ case'.approvals = case.approvals /\ n.approvals = case.approvals
  BY <1>1, <1>4, <1>5, <1>6, <1>7, <1>8, SavedHistory
<1>10. \A q \in EverPlans(case) : q.id # case'.plan.id
  BY <1>2, <1>6, <1>8, <1>9, PlansNumbered
<1>11. case'.plan.id # 0
  BY <1>2, <1>8, <1>9, PlansNumbered
<1>12. PromiseStep
  <2>1. Verdicts' = Verdicts
    BY <1>9 DEF Verdicts
  <2> QED
    BY <1>1, <1>9, <1>10, <1>11, <2>1, OfferStep
<1>13. CASE Answer(w)
  BY <1>9, <1>12, <1>13, HistoryAnswered DEF AdoptReplacement
<1>14. CASE Become(w, "gate", NoJob, Stored(n, read[w]), NoFacts, {})
  <2>1. Worked("gate", case', {}, performed')
    BY <1>7, <1>9 DEF Worked, Unasked
  <2>2. Become(w, "gate", NoJob, case', NoFacts, {})
    BY <1>9, <1>14
  <2> QED
    BY <1>1, <1>9, <1>12, <2>1, <2>2, HistoryThread
<1> QED
  BY <1>5, <1>13, <1>14

\* A plan within the policy becomes EXECUTING.
LEMMA PassGateHistory ==
  ASSUME HistoryInv, IInv', NEW w \in Thread, PassGate(w)
  PROVE  HistoryInv' /\ PromiseStep
<1> DEFINE n == [read[w] EXCEPT !.status = "EXECUTING"]
<1>1. /\ pc[w] \in Saving /\ pc[w] = "gate" /\ WellFormed(read[w]) /\ read[w] \in Case
      /\ performed' = performed
  BY HeldIsWellFormed DEF PassGate, Saving, Holding, HistoryInv, WellFormed, effectVars
<1>2. read[w].valid /\ read[w].status # "RESOLVED"
  BY <1>1 DEF HistoryInv, IInv, Checked, Worked
<1>3. WellFormed(n) /\ Keeps(read[w], n)
  <2>1. n = [read[w] EXCEPT !.status = "EXECUTING", !.verified = read[w].verified]
        /\ read[w].verified \in BOOLEAN
    BY <1>1 DEF Case
  <2> QED
    BY <1>1, <2>1, StatusKeeps DEF Status
<1>4. /\ n.status = "EXECUTING" /\ n.plan = read[w].plan /\ n.valid = read[w].valid
      /\ n.prev = read[w].prev /\ n.approvals = read[w].approvals
      /\ n.done = read[w].done
  BY <1>1 DEF Case
<1>5. Save(n, read[w])
  BY DEF PassGate
<1> HIDE DEF n
<1>6. case = read[w] /\ Earned(read[w], performed)
  BY <1>1, <1>3, <1>5, SavedIsLater DEF HistoryInv
<1>7. EverPlans(n) = EverPlans(case)
  BY <1>4, <1>6 DEF EverPlans
<1>8. Earned(n, performed)
  BY <1>2, <1>4, <1>6, <1>7, SettledEarned DEF Earned
<1>9. /\ Earned(case', performed) /\ EverPlans(case') = EverPlans(case)
      /\ case'.plan = case.plan /\ case'.valid = case.valid
      /\ case'.status = "EXECUTING" /\ case'.approvals = case.approvals
  BY <1>1, <1>3, <1>4, <1>5, <1>6, <1>7, <1>8, SavedHistory
<1>10. PromiseStep
  <2>1. Verdicts' = Verdicts
    BY <1>9 DEF Verdicts
  <2> QED
    BY <1>1, <1>2, <1>6, <1>9, <2>1, UnseenSave
<1> QED
  BY <1>9, <1>10, HistoryAnswered DEF PassGate

\* A request that is still open is no verdict.
LEMMA PendingNoVerdict ==
  ASSUME NEW x, case.approvals \in Seq(Approval), x \in Approval, x.status = "PENDING",
         case'.approvals = Append(case.approvals, x)
  PROVE  Verdicts' = Verdicts
<1>1. /\ DOMAIN case'.approvals = 1 .. Len(case.approvals) + 1
      /\ DOMAIN case.approvals = 1 .. Len(case.approvals) /\ Len(case.approvals) \in Nat
      /\ \A i \in 1 .. Len(case.approvals) : case'.approvals[i] = case.approvals[i]
      /\ case'.approvals[Len(case.approvals) + 1] = x
  OBVIOUS
<1>2. {j \in DOMAIN case'.approvals : case'.approvals[j].status # "PENDING"}
        = {j \in DOMAIN case.approvals : case.approvals[j].status # "PENDING"}
  BY <1>1
<1>3. \A i \in DOMAIN case.approvals : case'.approvals[i] = case.approvals[i]
  BY <1>1
<1> QED
  BY <1>2, <1>3 DEF Verdicts

\* A plan outside the policy waits for the parent's decision; nobody was asked
\* about it before.
LEMMA AskParentHistory ==
  ASSUME HistoryInv, IInv', NEW w \in Thread, AskParent(w)
  PROVE  HistoryInv' /\ PromiseStep
<1>1. /\ pc[w] \in Saving /\ pc[w] = "gate" /\ WellFormed(read[w])
      /\ performed' = performed /\ read[w].plan.needs
  BY HeldIsWellFormed DEF AskParent, Saving, Holding, HistoryInv, effectVars
<1>2. /\ read[w].valid /\ read[w].plan # NoPlan /\ read[w].status # "RESOLVED"
      /\ Unasked(read[w])
  BY <1>1 DEF HistoryInv, IInv, Checked, Worked
<1>3. CASE UNCHANGED case
  <2>1. Earned(case', performed)
    BY <1>3 DEF HistoryInv
  <2> QED
    BY <1>1, <1>3, <2>1, UnseenStep, HistoryAnswered DEF AskParent
<1>4. CASE Save(Asking(read[w]), read[w])
  <2> DEFINE n == Asking(read[w])
             x == [plan |-> read[w].plan.id, status |-> "PENDING"]
  <2>1. WellFormed(n) /\ Keeps(read[w], n)
    BY <1>1, <1>2, AskingKeeps
  <2>2. case = read[w] /\ Earned(read[w], performed)
    BY <1>1, <1>4, <2>1, SavedIsLater DEF HistoryInv
  <2>3. /\ Earned(n, performed) /\ EverPlans(n) = EverPlans(read[w])
        /\ n.status = "APPROVAL_REQUIRED"
        /\ n.valid = read[w].valid /\ n.plan = read[w].plan
        /\ n.approvals = Append(read[w].approvals, x)
    BY <1>1, <1>2, <2>2, AskingEarned
  <2>4. x \in Approval /\ x.status = "PENDING" /\ case.approvals \in Seq(Approval)
    BY <1>1, <2>2 DEF WellFormed, Case, Plan, Approval
  <2> HIDE DEF n, x
  <2>5. Save(n, read[w])
    BY <1>4 DEF n
  <2>6. /\ Earned(case', performed) /\ EverPlans(case') = EverPlans(case)
        /\ case'.plan = case.plan /\ case'.valid = case.valid
        /\ case'.status = "APPROVAL_REQUIRED"
        /\ case'.approvals = Append(case.approvals, x)
    BY <1>1, <2>1, <2>2, <2>3, <2>5, SavedHistory
  <2>7. PromiseStep
    BY <1>1, <1>2, <2>2, <2>4, <2>6, PendingNoVerdict, UnseenSave
  <2> QED
    BY <2>6, <2>7, HistoryAnswered DEF AskParent
<1> QED
  BY <1>3, <1>4 DEF AskParent

\* The one verdict about the plan on offer.
LEMMA JudgeStep ==
  ASSUME WellFormed(case), AskedOnce(case), NEW i \in DOMAIN case.approvals,
         Decidable(case, i), NEW v \in {"APPROVED", "REJECTED"},
         DOMAIN case'.approvals = DOMAIN case.approvals,
         \A k \in DOMAIN case.approvals : k # i => case'.approvals[k] = case.approvals[k],
         case'.approvals[i].plan = case.plan.id, case'.approvals[i].status = v,
         EverPlans(case') = EverPlans(case),
         case'.plan = case.plan, case'.valid = case.valid,
         case'.status # "RESOLVED", performed' = performed
  PROVE  PromiseStep
<1>1. /\ case.valid /\ case.plan # NoPlan /\ case.status = "APPROVAL_REQUIRED"
      /\ case.approvals[i].plan = case.plan.id /\ case.approvals[i].status = "PENDING"
  BY DEF Decidable, WellFormed, Answerable
<1>2. case.plan.id # 0
  BY <1>1 DEF WellFormed, Numbered, Case
<1>3. v # "PENDING"
  OBVIOUS
<1>4. Verdicts' = Verdicts \cup {<<case.plan.id, v>>}
  BY <1>1, <1>3 DEF Verdicts
<1>5. \A x \in Verdicts : x[1] # case.plan.id
  <2>1. ASSUME NEW j \in DOMAIN case.approvals, case.approvals[j].status # "PENDING"
        PROVE  case.approvals[j].plan # case.plan.id
    BY <1>1, <2>1 DEF AskedOnce
  <2> QED
    BY <2>1 DEF Verdicts
<1>6. Offered' = Offered
  BY DEF Offered
<1>7. (case.status = "RESOLVED")' = (case.status = "RESOLVED")
  BY <1>1
<1>8. Promise!Judge
  BY <1>1, <1>2, <1>4, <1>5, <1>6, <1>7 DEF Promise!Judge
<1> QED
  BY <1>8 DEF PromiseStep, Promise!Next

\* The parent's decision is saved if nothing was saved since it was checked.
LEMMA DecideHistory ==
  ASSUME HistoryInv, IInv', NEW w \in Thread, Decide(w)
  PROVE  HistoryInv' /\ PromiseStep
<1>1. /\ pc[w] \in Saving /\ WellFormed(read[w]) /\ performed' = performed
  BY HeldIsWellFormed DEF Decide, Saving, Holding, HistoryInv, effectVars
<1>2. PICK i \in DOMAIN read[w].approvals, v \in {"APPROVED", "REJECTED"} :
        /\ i = job[w].approval /\ v = job[w].verdict /\ Decidable(read[w], i)
  BY DEF Decide, HistoryInv, IInv, Checked
<1>3. PICK n : n = Decided(read[w], i, v)
  OBVIOUS
<1>4. WellFormed(n) /\ Keeps(read[w], n)
  BY <1>1, <1>2, <1>3, DecidedKeeps
<1>5. Save(n, read[w])
  BY <1>2, <1>3 DEF Decide
<1>6. case = read[w] /\ Earned(read[w], performed)
  BY <1>1, <1>4, <1>5, SavedIsLater DEF HistoryInv
<1>7. Earned(n, performed) /\ EverPlans(n) = EverPlans(read[w])
  BY <1>1, <1>2, <1>3, <1>6, DecidedEarned
<1>8. /\ n.status \in {"EXECUTING", "REPLANNING"}
      /\ n.plan = read[w].plan /\ n.valid = read[w].valid
      /\ DOMAIN n.approvals = DOMAIN read[w].approvals
      /\ \A k \in DOMAIN read[w].approvals : k # i => n.approvals[k] = read[w].approvals[k]
      /\ n.approvals[i].plan = read[w].plan.id /\ n.approvals[i].status = v
  BY <1>1, <1>2, <1>3, DecidedFields
<1>9. /\ Earned(case', performed) /\ EverPlans(case') = EverPlans(n)
      /\ case'.plan = n.plan /\ case'.valid = n.valid /\ case'.status = n.status
      /\ case'.approvals = n.approvals
  BY <1>1, <1>4, <1>5, <1>7, SavedHistory
<1>10. PromiseStep
  <2>1. WellFormed(case) /\ AskedOnce(case)
    BY <1>1, <1>6 DEF Earned
  <2> QED
    BY <1>1, <1>2, <1>6, <1>7, <1>8, <1>9, <2>1, JudgeStep
<1>11. Answer(w) \/ GoExecute(w)
  BY DEF Decide
<1> QED
  BY <1>9, <1>10, <1>11, HistoryAnswered DEF Decide

\* The scenario is looked up, or cannot be.
LEMMA LookUpScenarioHistory ==
  ASSUME HistoryInv, IInv', NEW w \in Thread, LookUpScenario(w)
  PROVE  HistoryInv' /\ PromiseStep
<1>1. case' = case /\ performed' = performed /\ Earned(case, performed)
  BY DEF LookUpScenario, effectVars, HistoryInv
<1>2. CASE Answer(w)
  BY <1>1, <1>2, HistoryAnswered, UnseenStep DEF LookUpScenario
<1>3. CASE Become(w, "execute", NoJob, NoCase, ScenarioFor(case), {})
  BY <1>1, <1>3, HistoryFresh, UnseenStep DEF LookUpScenario
<1> QED
  BY <1>2, <1>3 DEF LookUpScenario

\* Nothing of the plan is left out: what is not done is to be sent.
LEMMA BeginExecutionHistory ==
  ASSUME HistoryInv, IInv', NEW w \in Thread, BeginExecution(w)
  PROVE  HistoryInv' /\ PromiseStep
<1> DEFINE missing == RequiredActions(case.plan) \ case.done
           at == IF missing = {} THEN "record" ELSE "adapter"
<1>1. case' = case /\ performed' = performed /\ Earned(case, performed)
  BY DEF BeginExecution, effectVars, HistoryInv
<1>2. CASE Answer(w)
  BY <1>1, <1>2, HistoryAnswered, UnseenStep DEF BeginExecution
<1>3. CASE Become(w, "verify", NoJob, NoCase, facts[w], {})
  BY <1>1, <1>3, HistoryFresh, UnseenStep DEF BeginExecution
<1>4. CASE Become(w, at, NoJob, case, facts[w], missing)
  <2>1. Worked(at, case, missing, performed')
    BY DEF Worked
  <2> HIDE DEF at, missing
  <2> QED
    BY <1>1, <1>4, <2>1, HistoryThread, UnseenStep
<1> QED
  BY <1>2, <1>3, <1>4 DEF BeginExecution

\* One duty of an authorized plan is carried out.
LEMMA PerformStep ==
  ASSUME NEW p \in EverPlans(case), NEW a \in RequiredActions(p),
         p.needs => p.id \in Approved(case),
         case' = case, performed' = performed \cup {a}
  PROVE  PromiseStep
<1> DEFINE q == [id |-> p.id, needs |-> p.needs, duties |-> RequiredActions(p)]
<1>1. Offered' = Offered /\ Verdicts' = Verdicts
  BY DEF Offered, Verdicts
<1>2. q \in Offered /\ a \in q.duties
  BY DEF Offered
<1>3. q.needs => <<q.id, "APPROVED">> \in Verdicts
  <2>1. q.needs => p.id \in Approved(case)
    OBVIOUS
  <2>2. p.id \in Approved(case) => <<p.id, "APPROVED">> \in Verdicts
    BY DEF Approved, Verdicts
  <2> QED
    BY <2>1, <2>2
<1> HIDE DEF q
<1>4. Promise!Perform
  BY <1>1, <1>2, <1>3 DEF Promise!Perform, Promise!Authorized
<1> QED
  BY <1>4 DEF PromiseStep, Promise!Next

\* A call of the adapter.
LEMMA CallAdapterHistory ==
  ASSUME HistoryInv, IInv', NEW w \in Thread, CallAdapter(w)
  PROVE  HistoryInv' /\ PromiseStep
<1>1. PICK a \in todo[w] :
        /\ performed' = performed \cup {a}
        /\ todo' = [todo EXCEPT ![w] = @ \ {a}]
        /\ pc' = [pc EXCEPT ![w] = IF todo[w] = {a} THEN "record" ELSE @]
  BY DEF CallAdapter
<1> DEFINE at == IF todo[w] = {a} THEN "record" ELSE "adapter"
<1>2. /\ pc[w] = "adapter" /\ pc[w] \in Holding /\ UNCHANGED <<case, job, read, facts>>
  BY DEF CallAdapter, Holding
<1>3. /\ WellFormed(read[w]) /\ Extends(read[w], case)
      /\ Executable(read[w]) /\ todo[w] \subseteq RequiredActions(read[w].plan)
      /\ (RequiredActions(read[w].plan) \ read[w].done) \ todo[w] \subseteq performed
      /\ Earned(case, performed)
  BY <1>2, HeldIsWellFormed DEF HistoryInv, IInv, Checked, Worked
<1>4. /\ read[w].plan \in EverPlans(case)
      /\ read[w].plan.needs => read[w].plan.id \in Approved(case)
  BY <1>3 DEF Executable, EverPlans, Extends
<1>5. PromiseStep
  BY <1>1, <1>2, <1>3, <1>4, PerformStep
<1>6. Become(w, at, job[w], read[w], facts[w], todo[w] \ {a})
  BY <1>1, <1>2 DEF Become, HistoryInv, IInv, TypeOK
<1>7. Worked(at, read[w], todo[w] \ {a}, performed')
  BY <1>1, <1>3 DEF Worked
<1>8. Earned(case', performed') /\ performed \subseteq performed'
  BY <1>1, <1>2, <1>3, EarnedGrows
<1> HIDE DEF at
<1> QED
  BY <1>5, <1>6, <1>7, <1>8, HistoryThread

\* What is recorded as done was sent.
LEMMA RecordExecutionHistory ==
  ASSUME HistoryInv, IInv', NEW w \in Thread, RecordExecution(w)
  PROVE  HistoryInv' /\ PromiseStep
<1> DEFINE n == Executed(read[w])
<1>1. /\ pc[w] \in Saving /\ pc[w] = "record" /\ WellFormed(read[w]) /\ read[w] \in Case
      /\ performed' = performed
  BY HeldIsWellFormed DEF RecordExecution, Saving, Holding, HistoryInv, WellFormed, effectVars
<1>2. /\ Executable(read[w])
      /\ RequiredActions(read[w].plan) \ read[w].done \subseteq performed
  BY <1>1 DEF HistoryInv, IInv, Checked, Worked
<1>3. WellFormed(n) /\ Keeps(read[w], n)
  BY <1>1, ExecutedKeeps
<1>4. Save(n, read[w])
  BY DEF RecordExecution
<1>5. /\ n.status \in {"EXECUTING", "FAILED"} /\ n.plan = read[w].plan
      /\ n.valid = read[w].valid /\ n.prev = read[w].prev
      /\ n.approvals = read[w].approvals
      /\ n.done \subseteq read[w].done \cup (RequiredActions(read[w].plan) \ read[w].done)
  BY <1>1 DEF Executed, Case
<1> HIDE DEF n
<1>6. case = read[w] /\ Earned(read[w], performed)
  BY <1>1, <1>3, <1>4, SavedIsLater DEF HistoryInv
<1>7. read[w].valid /\ read[w].status = "EXECUTING" /\ n.done \subseteq performed
  BY <1>2, <1>5, <1>6 DEF Executable, Earned
<1>8. EverPlans(n) = EverPlans(case)
  BY <1>5, <1>6 DEF EverPlans
<1>9. Earned(n, performed)
  BY <1>5, <1>6, <1>7, <1>8, SettledEarned
<1>10. /\ Earned(case', performed) /\ EverPlans(case') = EverPlans(case)
       /\ case'.plan = case.plan /\ case'.valid = case.valid
       /\ case'.status # "RESOLVED" /\ case'.approvals = case.approvals
  BY <1>1, <1>3, <1>4, <1>5, <1>6, <1>8, <1>9, SavedHistory
<1>11. PromiseStep
  <2>1. Verdicts' = Verdicts
    BY <1>10 DEF Verdicts
  <2> QED
    BY <1>1, <1>6, <1>7, <1>10, <2>1, UnseenSave
<1>12. CASE Answer(w)
  BY <1>10, <1>11, <1>12, HistoryAnswered DEF RecordExecution
<1>13. CASE Become(w, "verify", NoJob, NoCase, facts[w], {})
  BY <1>10, <1>11, <1>13, HistoryFresh DEF RecordExecution
<1> QED
  BY <1>12, <1>13 DEF RecordExecution

\* What was verified is held until it is saved.
LEMMA VerifyCompletionHistory ==
  ASSUME HistoryInv, IInv', NEW w \in Thread, VerifyCompletion(w)
  PROVE  HistoryInv' /\ PromiseStep
<1>1. case' = case /\ performed' = performed /\ Earned(case, performed)
  BY DEF VerifyCompletion, effectVars, HistoryInv
<1>2. CASE Answer(w)
  BY <1>1, <1>2, HistoryAnswered, UnseenStep DEF VerifyCompletion
<1>3. CASE Verifiable(case, facts[w]) /\ Become(w, "resolve", NoJob, case, NoFacts, {})
  <2>1. Worked("resolve", case, {}, performed')
    BY <1>3 DEF Worked, Verifiable
  <2> QED
    BY <1>1, <1>3, <2>1, HistoryThread, UnseenStep
<1> QED
  BY <1>2, <1>3 DEF VerifyCompletion

\* The household is told that the recovery is settled.
LEMMA ResolutionStep ==
  ASSUME WellFormed(case), case.plan # NoPlan, case.valid,
         case.plan.needs => case.plan.id \in Approved(case),
         RequiredActions(case.plan) \subseteq performed,
         EverPlans(case') = EverPlans(case), case'.approvals = case.approvals,
         case'.plan = case.plan, case'.valid = case.valid,
         case'.status = "RESOLVED", performed' = performed
  PROVE  PromiseStep
<1> DEFINE p == case.plan
           q == [id |-> p.id, needs |-> p.needs, duties |-> RequiredActions(p)]
<1>1. Offered' = Offered /\ Verdicts' = Verdicts
  BY DEF Offered, Verdicts
<1>2. q \in Offered /\ q.id = p.id /\ q.duties \subseteq performed
  BY DEF Offered, EverPlans
<1>3. q.needs => <<q.id, "APPROVED">> \in Verdicts
  <2>1. q.needs => p.id \in Approved(case)
    OBVIOUS
  <2>2. p.id \in Approved(case) => <<p.id, "APPROVED">> \in Verdicts
    BY DEF Approved, Verdicts
  <2> QED
    BY <2>1, <2>2
<1> HIDE DEF q
<1>4. Promise!Resolve
  BY <1>1, <1>2, <1>3 DEF Promise!Resolve, Promise!Authorized
<1> QED
  BY <1>4 DEF PromiseStep, Promise!Next

\* RESOLVED is saved for a plan that earned it.
LEMMA ResolveHistory ==
  ASSUME HistoryInv, IInv', NEW w \in Thread, Resolve(w)
  PROVE  HistoryInv' /\ PromiseStep
<1> DEFINE n == [read[w] EXCEPT !.status = "RESOLVED", !.verified = TRUE]
<1>1. /\ pc[w] \in Saving /\ pc[w] = "resolve" /\ WellFormed(read[w]) /\ read[w] \in Case
      /\ performed' = performed
  BY HeldIsWellFormed DEF Resolve, Saving, Holding, HistoryInv, WellFormed, effectVars
<1>2. /\ read[w].status = "EXECUTING" /\ read[w].plan # NoPlan
      /\ NeedsApproval(read[w].plan.cover) => read[w].plan.id \in Approved(read[w])
      /\ RequiredActions(read[w].plan) \subseteq read[w].done
  BY <1>1 DEF HistoryInv, Worked
<1>3. WellFormed(n) /\ Keeps(read[w], n)
  BY <1>1, StatusKeeps DEF Status
<1>4. /\ n.status = "RESOLVED" /\ n.plan = read[w].plan /\ n.valid = read[w].valid
      /\ n.prev = read[w].prev /\ n.approvals = read[w].approvals
      /\ n.done = read[w].done
  BY <1>1 DEF Case
<1>5. Save(n, read[w])
  BY DEF Resolve
<1> HIDE DEF n
<1>6. case = read[w] /\ Earned(read[w], performed)
  BY <1>1, <1>3, <1>5, SavedIsLater DEF HistoryInv
<1>7. read[w].plan \in EverPlans(read[w])
  BY <1>2 DEF EverPlans
<1>8. /\ read[w].valid /\ RequiredActions(read[w].plan) \subseteq performed
      /\ read[w].plan.needs => read[w].plan.id \in Approved(read[w])
  BY <1>2, <1>6, <1>7 DEF Earned, Priced
<1>9. EverPlans(n) = EverPlans(read[w]) /\ Approved(n) = Approved(read[w])
  BY <1>4 DEF EverPlans, Approved
<1>10. Earned(n, performed)
  <2>1. n.plan.id \in Authorized(n)
    BY <1>4, <1>7, <1>8, <1>9 DEF Authorized
  <2> QED
    BY <1>4, <1>6, <1>8, <1>9, <2>1 DEF Earned, Priced, AskedOnce
<1>11. /\ Earned(case', performed) /\ EverPlans(case') = EverPlans(case)
       /\ case'.plan = case.plan /\ case'.valid = case.valid
       /\ case'.status = "RESOLVED" /\ case'.approvals = case.approvals
  BY <1>1, <1>3, <1>4, <1>5, <1>6, <1>9, <1>10, SavedHistory
<1>12. PromiseStep
  BY <1>1, <1>2, <1>6, <1>8, <1>11, ResolutionStep
<1> QED
  BY <1>11, <1>12, HistoryAnswered DEF Resolve

\* A conflict or a crash changes nothing the household sees.
LEMMA EndedHistory ==
  ASSUME HistoryInv, IInv', NEW w \in Thread, LoseRace(w) \/ Abort(w)
  PROVE  HistoryInv' /\ PromiseStep
<1>1. /\ Answer(w) /\ UNCHANGED effectVars
      /\ case' = case /\ performed' = performed /\ Earned(case, performed)
  BY DEF LoseRace, Abort, effectVars, HistoryInv
<1> QED
  BY <1>1, HistoryAnswered, UnseenStep

-----------------------------------------------------------------------------
(* What the history gives. *)

\* Nothing has happened yet.
LEMMA InitHistory ==
  ASSUME Init
  PROVE  HistoryInv /\ Promise!Init
<1>1. /\ case.prev = <<>> /\ case.plan = NoPlan /\ ~ case.valid /\ case.approvals = <<>>
      /\ case.done = {} /\ case.status = "WAITING_FOR_RESPONSE"
  BY DEF Init, NoCase
<1>2. EverPlans(case) = {}
  BY <1>1 DEF EverPlans
<1>3. Earned(case, performed)
  BY <1>1, <1>2 DEF Earned, Priced, AskedOnce
<1>4. \A w \in Thread : Worked(pc[w], read[w], todo[w], performed)
  BY DEF Init, Worked
<1>5. Promise!Init
  <2>1. Offered = {} /\ Verdicts = {}
    BY <1>1, <1>2 DEF Offered, Verdicts
  <2> QED
    BY <1>1, <2>1 DEF Promise!Init, Init
<1> QED
  BY <1>3, <1>4, <1>5, InitIsSafe DEF HistoryInv

\* Every step keeps the history, and is a step of the promise or none.
LEMMA StepKeepsHistory ==
  ASSUME HistoryInv, [Next]_vars
  PROVE  HistoryInv' /\ PromiseStep
<1> IInv'
  BY StepIsSafe DEF HistoryInv
<1>1. CASE UNCHANGED vars
  <2>1. /\ case' = case /\ performed' = performed /\ UNCHANGED serverVars
        /\ UNCHANGED effectVars /\ Earned(case', performed)
    BY <1>1 DEF vars, effectVars, HistoryInv
  <2> QED
    BY <2>1, HistoryIdle, UnseenStep
<1>2. ASSUME NEW w \in Thread, Arrive(w)
      PROVE  HistoryInv' /\ PromiseStep
  BY <1>2, StartWithoutOptionHistory, StartWithPlanHistory, ReceiveDeclineHistory,
     ReceiveDecisionHistory, ReceiveSameApprovalHistory DEF Arrive
<1>3. ASSUME NEW w \in Thread, Serve(w)
      PROVE  HistoryInv' /\ PromiseStep
  BY <1>3, RecordNoOptionHistory, RecordFailedReplanHistory, AdoptReplacementHistory,
     PassGateHistory, AskParentHistory, DecideHistory, LookUpScenarioHistory,
     BeginExecutionHistory, CallAdapterHistory, RecordExecutionHistory,
     VerifyCompletionHistory, ResolveHistory, EndedHistory DEF Serve
<1>4. ASSUME NEW w \in Thread, Abort(w)
      PROVE  HistoryInv' /\ PromiseStep
  BY <1>4, EndedHistory
<1> QED
  BY <1>1, <1>2, <1>3, <1>4 DEF Next

\* The history holds throughout.
THEOREM HistoryHolds == Spec => []HistoryInv
<1>1. Init => HistoryInv
  BY InitHistory
<1>2. HistoryInv /\ [Next]_vars => HistoryInv'
  BY StepKeepsHistory
<1> QED
  BY <1>1, <1>2, PTL DEF Spec

\* Whatever requests race, fail or repeat, the household sees what the promise
\* allows: one verdict per plan and only on the plan on offer, no action
\* without authorization, no resolution ahead of the actions, and no way back
\* for a plan once withdrawn (recovery_service.py with approval_service.py,
\* execution_service.py and completion_verifier.py).
THEOREM ServiceKeepsPromise == Spec => PromiseKept
<1>1. Init => Promise!Init
  BY InitHistory
<1>2. HistoryInv /\ [Next]_vars => [Promise!Next]_(Promise!vars)
  BY StepKeepsHistory DEF PromiseStep
<1> QED
  BY <1>1, <1>2, HistoryHolds, PTL DEF Spec, PromiseKept, Promise!Spec

\* RESOLVED is only ever the state of a case whose active plan is valid and
\* authorized and whose every required action reached the adapter
\* (completion_verifier.py, verify_and_resolve).
THEOREM ResolutionsAreEarned == Spec => []ResolvedIsEarned
<1>1. HistoryInv => ResolvedIsEarned
  BY DEF HistoryInv, Earned, ResolvedIsEarned
<1> QED
  BY <1>1, HistoryHolds, PTL

\* A plan the parent rejected is not authorized: it needed the approval, there
\* is no second request about it, and no other plan has its id.
LEMMA RejectedUnauthorized ==
  ASSUME NEW c, WellFormed(c), NEW acts, Earned(c, acts),
         NEW i \in DOMAIN c.approvals, c.approvals[i].status = "REJECTED"
  PROVE  c.approvals[i].plan \notin Authorized(c)
<1> SUFFICES ASSUME c.approvals[i].plan \in Authorized(c)
             PROVE  FALSE
  OBVIOUS
<1>1. PICK p \in EverPlans(c) : p.id = c.approvals[i].plan /\ p.needs
  BY DEF Earned, AskedOnce
<1>2. PICK q \in EverPlans(c) : q.id = c.approvals[i].plan /\ (q.needs => q.id \in Approved(c))
  BY DEF Authorized
<1>3. p = q
  BY <1>1, <1>2, PlansNumbered
<1>4. c.approvals[i].plan \in Approved(c)
  BY <1>1, <1>2, <1>3
<1>5. PICK j \in DOMAIN c.approvals :
        c.approvals[j].status = "APPROVED" /\ c.approvals[j].plan = c.approvals[i].plan
  BY <1>4 DEF Approved
<1>6. j = i
  BY <1>5 DEF Earned, AskedOnce
<1> QED
  BY <1>5, <1>6

\* A rejected plan stays inert for good: none of its actions is ever sent, and
\* the case is never resolved by it (approval_service.py, _decide).
THEOREM RejectionsAreFinal == Spec => []RejectedPlansInert
<1>1. ASSUME HistoryInv
      PROVE  RejectedPlansInert
  <2>1. WellFormed(case) /\ EffectsAuthorized /\ Earned(case, performed)
    BY <1>1 DEF HistoryInv, IInv
  <2>2. ASSUME NEW i \in DOMAIN case.approvals, case.approvals[i].status = "REJECTED"
        PROVE  /\ \A a \in performed : a.plan # case.approvals[i].plan
               /\ ~ (case.status = "RESOLVED" /\ case.plan.id = case.approvals[i].plan)
    <3>1. case.approvals[i].plan \notin Authorized(case)
      BY <2>1, <2>2, RejectedUnauthorized
    <3> QED
      BY <2>1, <3>1 DEF EffectsAuthorized, Earned
  <2> QED
    BY <2>2 DEF RejectedPlansInert
<1> QED
  BY <1>1, HistoryHolds, PTL

-----------------------------------------------------------------------------
(* No race drops the execution of a plan.  The argument: whenever a case    *)
(* is EXECUTING and something of its plan is still to do, some request is   *)
(* responsible for it: one that will still read the stored case, or one     *)
(* that holds the version that is stored.  A request only loses a race to a *)
(* save, and every save that leaves the case EXECUTING is made by a request *)
(* that goes on with it.                                                    *)

\* The execution of c needs nobody, or nobody can help it.
Settled(c) ==
  \/ c.pending # 0
  \/ ScenarioLost(c)
  \/ RequiredActions(c.plan) \subseteq c.done

HoldsCurrent(w) == read[w].version = case.version

Responsible(w) ==
  \/ pc[w] \in {"lookup", "execute"}
  \/ pc[w] \in {"gate", "adapter", "record"} /\ HoldsCurrent(w)

\* Every EXECUTING case is settled or somebody's responsibility.
Attended == case.status = "EXECUTING" => Settled(case) \/ \E w \in Thread : Responsible(w)

\* An EXECUTING case whose plan nobody approved yet is on its way to the gate.
GateAwaits ==
  case.status = "EXECUTING" /\ case.plan.needs /\ case.plan.id \notin Approved(case) =>
    ScenarioLost(case) \/ \E w \in Thread : pc[w] = "gate" /\ HoldsCurrent(w)

AttendedInv == Attended /\ GateAwaits

\* A step that leaves the case alone: whoever attends to it still does, unless
\* the thread that moved was the one.
LEMMA OthersAttend ==
  ASSUME HistoryInv, AttendedInv, NEW w \in Thread,
         NEW at, NEW j, NEW c, NEW f, NEW left, Become(w, at, j, c, f, left),
         case' = case, ~ (pc[w] = "gate" /\ HoldsCurrent(w)),
         \/ ~ Responsible(w)
         \/ at \in {"lookup", "execute"}
         \/ at \in {"adapter", "record"} /\ c.version = case.version
         \/ Settled(case)
         \/ case.status = "EXECUTING" =>
              case.plan.needs /\ case.plan.id \notin Approved(case)
  PROVE  AttendedInv'
<1>1. /\ pc'[w] = at /\ read'[w] = c
      /\ \A v \in Thread : v # w => pc'[v] = pc[v] /\ read'[v] = read[v]
  BY DEF HistoryInv, IInv, TypeOK, Become
<1>2. \A v \in Thread : v # w /\ Responsible(v) => Responsible(v)'
  BY <1>1 DEF Responsible, HoldsCurrent
<1>3. GateAwaits'
  <2>1. ASSUME NEW v \in Thread, pc[v] = "gate", HoldsCurrent(v)
        PROVE  (pc[v] = "gate" /\ HoldsCurrent(v))'
    <3>1. v # w
      BY <2>1
    <3> QED
      BY <1>1, <2>1, <3>1 DEF HoldsCurrent
  <2> QED
    BY <2>1 DEF AttendedInv, GateAwaits
<1>4. ASSUME case.status = "EXECUTING", ~ Settled(case)
      PROVE  \E v \in Thread : Responsible(v)'
  <2>1. CASE ~ Responsible(w)
    BY <1>2, <1>4, <2>1 DEF AttendedInv, Attended
  <2>2. CASE at \in {"lookup", "execute"} \/ (at \in {"adapter", "record"} /\ c.version = case.version)
    BY <1>1, <2>2 DEF Responsible, HoldsCurrent
  <2>3. CASE case.plan.needs /\ case.plan.id \notin Approved(case)
    <3>1. ~ ScenarioLost(case)
      BY <1>4 DEF Settled
    <3>2. PICK v \in Thread : (pc[v] = "gate" /\ HoldsCurrent(v))'
      BY <1>3, <1>4, <2>3, <3>1 DEF GateAwaits
    <3> QED
      BY <3>2 DEF Responsible
  <2> QED
    BY <1>4, <2>1, <2>2, <2>3
<1> QED
  BY <1>3, <1>4 DEF AttendedInv, Attended

\* A save after which nothing is EXECUTING.
LEMMA NotExecuting ==
  ASSUME case'.status # "EXECUTING"
  PROVE  AttendedInv'
BY DEF AttendedInv, Attended, GateAwaits

\* Requests that only read, so far.
LEMMA ArriveAttended ==
  ASSUME HistoryInv, AttendedInv, NEW w \in Thread, Arrive(w)
  PROVE  AttendedInv'
<1>1. pc[w] = "idle"
  BY DEF Arrive, StartWithoutOption, StartWithPlan, ReceiveDecline, ReceiveDecision,
         ReceiveSameApproval
<1>2. ~ Responsible(w) /\ pc[w] # "gate"
  BY <1>1 DEF Responsible
<1>3. CASE StartWithoutOption(w)
  BY <1>3, NotExecuting DEF StartWithoutOption, NoCase
<1>4. CASE StartWithPlan(w)
  <2>1. case'.status = "WAITING_FOR_RESPONSE"
    BY <1>4 DEF StartWithPlan, NewCase, NoCase
  <2> QED
    BY <2>1, NotExecuting
<1>5. CASE ReceiveDecline(w)
  <2>1. PICK j : Become(w, "replan", j, case, NoFacts, {}) /\ case' = case
    BY <1>5 DEF ReceiveDecline
  <2> QED
    BY <1>2, <2>1, OthersAttend
<1>6. CASE ReceiveDecision(w)
  <2>1. PICK j : Become(w, "decide", j, case, NoFacts, {}) /\ case' = case
    BY <1>6 DEF ReceiveDecision
  <2> QED
    BY <1>2, <2>1, OthersAttend
<1>7. CASE ReceiveSameApproval(w)
  BY <1>2, <1>7, OthersAttend DEF ReceiveSameApproval, GoExecute
<1> QED
  BY <1>3, <1>4, <1>5, <1>6, <1>7 DEF Arrive

\* A lost race is lost by somebody who no longer held the stored version.
LEMMA LoseRaceAttended ==
  ASSUME HistoryInv, AttendedInv, NEW w \in Thread, LoseRace(w)
  PROVE  AttendedInv'
<1>1. ~ Responsible(w) /\ ~ HoldsCurrent(w) /\ case' = case
  BY DEF LoseRace, Responsible, HoldsCurrent, Saving
<1> QED
  BY <1>1, OthersAttend DEF LoseRace, Answer

\* The declines of a case and the candidate it remembers decide whether its
\* scenario can be looked up.
LEMMA SameScenarioLost ==
  ASSUME NEW c, NEW d, c.declines = d.declines, c.researched = d.researched
  PROVE  ScenarioLost(c) = ScenarioLost(d)
BY DEF ScenarioLost, People

\* The replacement goes to the gate with the version that is stored.
LEMMA AdoptReplacementAttended ==
  ASSUME HistoryInv, HistoryInv', NEW w \in Thread, AdoptReplacement(w)
  PROVE  AttendedInv'
<1>1. pc[w] \in Saving /\ pc[w] \in Holding
  BY DEF AdoptReplacement, Saving, Holding
<1>2. WellFormed(read[w]) /\ job[w] \in Decline /\ Applicable(read[w], job[w])
  BY <1>1, HeldIsWellFormed DEF AdoptReplacement, IInv, Checked, HistoryInv
<1>3. PICK proposal \in Replacements(read[w], job[w]) :
        LET new == AfterReplan(read[w], job[w], proposal)
        IN  /\ Save(new, read[w])
            /\ IF ScenarioLost(new)
               THEN Answer(w)
               ELSE Become(w, "gate", NoJob, Stored(new, read[w]), NoFacts, {})
  BY DEF AdoptReplacement
<1> DEFINE n == AfterReplan(read[w], job[w], proposal)
<1>4. WellFormed(n)
  BY <1>2, AfterReplanKeeps
<1>5. /\ case' = Stored(n, read[w])
      /\ IF ScenarioLost(n) THEN Answer(w)
         ELSE Become(w, "gate", NoJob, Stored(n, read[w]), NoFacts, {})
  BY <1>3 DEF Save
<1> HIDE DEF n
<1>6. case'.declines = n.declines /\ case'.researched = n.researched
  BY <1>4, <1>5 DEF Stored, WellFormed, Case
<1>7. CASE ScenarioLost(n)
  BY <1>6, <1>7, SameScenarioLost DEF AttendedInv, Attended, GateAwaits, Settled
<1>8. CASE Become(w, "gate", NoJob, Stored(n, read[w]), NoFacts, {})
  <2>1. pc'[w] = "gate" /\ read'[w] = case'
    BY <1>5, <1>8 DEF HistoryInv, IInv, TypeOK, Become
  <2>2. (pc[w] = "gate" /\ HoldsCurrent(w))'
    BY <2>1 DEF HoldsCurrent
  <2>3. Responsible(w)'
    BY <2>2 DEF Responsible
  <2> QED
    BY <2>2, <2>3 DEF AttendedInv, Attended, GateAwaits
<1> QED
  BY <1>5, <1>7, <1>8

\* A plan that passed the gate is executed by the same request.
LEMMA PassGateAttended ==
  ASSUME HistoryInv, NEW w \in Thread, PassGate(w)
  PROVE  AttendedInv'
<1>1. read[w] \in Case /\ case.version \in Nat
  BY DEF HistoryInv, IInv, TypeOK, Case
<1>2. case' = Stored([read[w] EXCEPT !.status = "EXECUTING"], read[w])
  BY DEF PassGate, Save
<1>3. case'.plan = read[w].plan
  BY <1>1, <1>2 DEF Stored, Case
<1>4. pc'[w] = "lookup"
  BY DEF PassGate, GoExecute, Become, HistoryInv, IInv, TypeOK
<1> QED
  BY <1>3, <1>4 DEF AttendedInv, Attended, GateAwaits, Responsible, PassGate

\* At the gate nobody was asked yet, so the case is saved as waiting.
LEMMA AskParentAttended ==
  ASSUME HistoryInv, NEW w \in Thread, AskParent(w)
  PROVE  AttendedInv'
<1>1. WellFormed(read[w]) /\ Unasked(read[w]) /\ read[w] \in Case
  BY HeldIsWellFormed DEF AskParent, Saving, Holding, HistoryInv, Worked, WellFormed
<1>2. ~ AskedAlready(read[w])
  <2>1. /\ read[w].pending \in 0 .. Len(read[w].approvals)
        /\ read[w].approvals \in Seq(Approval)
    BY <1>1 DEF WellFormed, Answerable, Case
  <2>2. read[w].pending # 0 => read[w].pending \in DOMAIN read[w].approvals
    BY <2>1
  <2> QED
    BY <1>1, <2>2 DEF AskedAlready, Unasked
<1>3. Asking(read[w]).status = "APPROVAL_REQUIRED"
  BY <1>1 DEF Asking, Case
<1>4. WellFormed(Asking(read[w]))
  BY <1>1, AskingKeeps DEF AskParent, HistoryInv, IInv, Checked
<1>5. case'.status = "APPROVAL_REQUIRED"
  BY <1>2, <1>3, <1>4 DEF AskParent, Save, Stored, WellFormed, Case
<1> QED
  BY <1>5, NotExecuting

\* An approved plan is executed by the request that approved it.
LEMMA DecideAttended ==
  ASSUME HistoryInv, NEW w \in Thread, Decide(w)
  PROVE  AttendedInv'
<1>1. WellFormed(read[w]) /\ read[w] \in Case
  BY HeldIsWellFormed DEF Decide, Saving, Holding, HistoryInv, WellFormed
<1>2. PICK i \in DOMAIN read[w].approvals, v \in {"APPROVED", "REJECTED"} :
        /\ i = job[w].approval /\ v = job[w].verdict /\ Decidable(read[w], i)
  BY DEF Decide, HistoryInv, IInv, Checked
<1>3. PICK n : n = Decided(read[w], i, v)
  OBVIOUS
<1>4. WellFormed(n)
  BY <1>1, <1>2, <1>3, DecidedKeeps
<1>5. case' = Stored(n, read[w])
  BY <1>2, <1>3 DEF Decide, Save
<1>6. case'.status = n.status /\ case'.plan = n.plan /\ case'.approvals = n.approvals
  BY <1>4, <1>5 DEF Stored, WellFormed, Case
<1>7. CASE v = "REJECTED"
  <2>1. n.status # "EXECUTING"
    BY <1>1, <1>3, <1>7 DEF Decided, Case
  <2> QED
    BY <1>6, <2>1, NotExecuting
<1>8. CASE v = "APPROVED"
  <2>1. GoExecute(w)
    BY <1>2, <1>8 DEF Decide
  <2>2. pc'[w] = "lookup"
    BY <2>1 DEF GoExecute, Become, HistoryInv, IInv, TypeOK
  <2>3. /\ i \in DOMAIN n.approvals /\ n.approvals[i].plan = n.plan.id
        /\ n.approvals[i].status = v
    <3>1. /\ n.plan = read[w].plan /\ DOMAIN n.approvals = DOMAIN read[w].approvals
          /\ n.approvals[i].plan = read[w].plan.id /\ n.approvals[i].status = v
      BY <1>1, <1>2, <1>3, DecidedFields
    <3> QED
      BY <1>2, <3>1
  <2>4. case'.plan.id \in Approved(case')
    BY <1>6, <1>8, <2>3 DEF Approved
  <2> QED
    BY <2>2, <2>4 DEF AttendedInv, Attended, GateAwaits, Responsible
<1> QED
  BY <1>7, <1>8

\* A scenario that is looked up is executed; one that is lost cannot be.
LEMMA LookUpScenarioAttended ==
  ASSUME HistoryInv, AttendedInv, NEW w \in Thread, LookUpScenario(w)
  PROVE  AttendedInv'
<1>1. pc[w] = "lookup" /\ case' = case
  BY DEF LookUpScenario
<1>2. CASE ScenarioLost(case) /\ Answer(w)
  BY <1>1, <1>2, OthersAttend DEF Answer, Settled
<1>3. CASE Become(w, "execute", NoJob, NoCase, ScenarioFor(case), {})
  BY <1>1, <1>3, OthersAttend
<1> QED
  BY <1>2, <1>3 DEF LookUpScenario

\* A request that finds nothing it may execute leaves a case that is settled,
\* or that another request takes to the gate.
LEMMA BeginExecutionAttended ==
  ASSUME HistoryInv, AttendedInv, NEW w \in Thread, BeginExecution(w)
  PROVE  AttendedInv'
<1> DEFINE missing == RequiredActions(case.plan) \ case.done
           at == IF missing = {} THEN "record" ELSE "adapter"
<1>1. /\ pc[w] = "execute" /\ case' = case /\ WellFormed(case)
      /\ Earned(case, performed) /\ case.version \in Nat
  BY DEF BeginExecution, HistoryInv, IInv, TypeOK, Case
<1>2. CASE ~ Executable(case) /\ Answer(w)
  <2>1. case.status = "EXECUTING" => case.valid /\ case.plan # NoPlan
    BY <1>1 DEF Earned, WellFormed, Numbered
  <2>2. case.status = "EXECUTING" =>
          Settled(case) \/ (case.plan.needs /\ case.plan.id \notin Approved(case))
    BY <1>2, <2>1 DEF Executable, Settled
  <2> QED
    BY <1>1, <1>2, <2>2, OthersAttend DEF Answer
<1>3. CASE AllDone(case) /\ Become(w, "verify", NoJob, NoCase, facts[w], {})
  <2>1. Settled(case)
    BY <1>3 DEF AllDone, Settled
  <2> QED
    BY <1>1, <1>3, <2>1, OthersAttend
<1>4. CASE Become(w, at, NoJob, case, facts[w], missing)
  <2>1. at \in {"adapter", "record"}
    OBVIOUS
  <2> HIDE DEF at, missing
  <2> QED
    BY <1>1, <1>4, <2>1, OthersAttend
<1> QED
  BY <1>2, <1>3, <1>4 DEF BeginExecution

\* A request in the middle of its calls goes on with the version it holds.
LEMMA CallAdapterAttended ==
  ASSUME HistoryInv, AttendedInv, NEW w \in Thread, CallAdapter(w)
  PROVE  AttendedInv'
<1>1. PICK a \in todo[w] :
        /\ todo' = [todo EXCEPT ![w] = @ \ {a}]
        /\ pc' = [pc EXCEPT ![w] = IF todo[w] = {a} THEN "record" ELSE @]
  BY DEF CallAdapter
<1> DEFINE at == IF todo[w] = {a} THEN "record" ELSE "adapter"
<1>2. pc[w] = "adapter" /\ UNCHANGED <<case, job, read, facts>>
  BY DEF CallAdapter
<1>3. Become(w, at, job[w], read[w], facts[w], todo[w] \ {a})
  BY <1>1, <1>2 DEF Become, HistoryInv, IInv, TypeOK
<1>4. at \in {"adapter", "record"}
  OBVIOUS
<1> HIDE DEF at
<1>5. ~ Responsible(w) \/ read[w].version = case.version
  BY <1>2 DEF Responsible, HoldsCurrent
<1> QED
  BY <1>2, <1>3, <1>4, <1>5, OthersAttend

\* What was recorded without a failure is everything the plan requires.
LEMMA RecordExecutionAttended ==
  ASSUME HistoryInv, NEW w \in Thread, RecordExecution(w)
  PROVE  AttendedInv'
<1> DEFINE c == read[w]
           tried == RequiredActions(c.plan) \ c.done
           bad == {a \in tried : a.who \in FailTargets}
           n == Executed(c)
<1>1. WellFormed(c) /\ c \in Case /\ Executable(c)
  BY HeldIsWellFormed DEF RecordExecution, Saving, Holding, HistoryInv, IInv, Checked, WellFormed
<1>2. WellFormed(n)
  BY <1>1, ExecutedKeeps
<1>3. /\ n.status = (IF bad = {} THEN "EXECUTING" ELSE "FAILED")
      /\ n.done = c.done \cup (tried \ bad) /\ n.plan = c.plan
      /\ n.approvals = c.approvals
  BY <1>1 DEF Executed, Case
<1>4. case' = Stored(n, c)
  BY DEF RecordExecution, Save
<1> HIDE DEF n
<1>5. /\ case'.status = n.status /\ case'.done = n.done /\ case'.plan = n.plan
      /\ case'.approvals = n.approvals
  BY <1>2, <1>4 DEF Stored, WellFormed, Case
<1>6. CASE bad = {}
  <2>1. RequiredActions(case'.plan) \subseteq case'.done
    BY <1>3, <1>5, <1>6
  <2>2. case'.plan.needs => case'.plan.id \in Approved(case')
    BY <1>1, <1>3, <1>5 DEF Executable, Approved
  <2> QED
    BY <2>1, <2>2 DEF AttendedInv, Attended, GateAwaits, Settled
<1>7. CASE bad # {}
  BY <1>3, <1>5, <1>7, NotExecuting
<1> QED
  BY <1>6, <1>7

\* Verification, resolution and the saves that end a plan.
LEMMA EndingAttended ==
  ASSUME HistoryInv, AttendedInv, NEW w \in Thread,
         \/ RecordNoOption(w) \/ RecordFailedReplan(w)
         \/ VerifyCompletion(w) \/ Resolve(w)
  PROVE  AttendedInv'
<1>1. CASE RecordNoOption(w) \/ RecordFailedReplan(w)
  <2>1. WellFormed(read[w]) /\ job[w] \in Decline /\ Applicable(read[w], job[w])
    BY <1>1, HeldIsWellFormed DEF RecordNoOption, RecordFailedReplan, IInv, Checked,
       HistoryInv, Saving, Holding
  <2>2. PICK h : h = AfterDecline(read[w], job[w]) /\ h \in Case /\ h.status = "REPLANNING"
    BY <2>1, DeclineFields
  <2>3. \/ case' = Stored([h EXCEPT !.status = "NO_RECOVERY_OPTION"], read[w])
        \/ case' = Stored(h, read[w])
    BY <1>1, <2>2 DEF RecordNoOption, RecordFailedReplan, Save
  <2>4. case'.status # "EXECUTING"
    BY <2>2, <2>3 DEF Stored, Case
  <2> QED
    BY <2>4, NotExecuting
<1>2. CASE VerifyCompletion(w)
  <2>1. pc[w] = "verify" /\ case' = case /\ ~ Responsible(w)
    BY <1>2 DEF VerifyCompletion, Responsible
  <2>2. Answer(w) \/ Become(w, "resolve", NoJob, case, NoFacts, {})
    BY <1>2 DEF VerifyCompletion
  <2> QED
    BY <2>1, <2>2, OthersAttend DEF Answer
<1>3. CASE Resolve(w)
  <2>1. case' = Stored([read[w] EXCEPT !.status = "RESOLVED", !.verified = TRUE], read[w])
    BY <1>3 DEF Resolve, Save
  <2>2. read[w] \in Case
    BY DEF HistoryInv, IInv, TypeOK
  <2>3. case'.status # "EXECUTING"
    BY <2>1, <2>2 DEF Stored, Case
  <2> QED
    BY <2>3, NotExecuting
<1> QED
  BY <1>1, <1>2, <1>3

\* Every step of a service whose requests run to their end.
LEMMA StepAttends ==
  ASSUME HistoryInv, AttendedInv, [ReliableNext]_vars
  PROVE  AttendedInv'
<1> HistoryInv'
  BY StepKeepsHistory DEF ReliableNext, Next
<1>1. CASE UNCHANGED vars
  BY <1>1 DEF vars, serverVars, AttendedInv, Attended, GateAwaits, Responsible, HoldsCurrent
<1>2. ASSUME NEW w \in Thread, Arrive(w)
      PROVE  AttendedInv'
  BY <1>2, ArriveAttended
<1>3. ASSUME NEW w \in Thread, Serve(w)
      PROVE  AttendedInv'
  BY <1>3, AdoptReplacementAttended, PassGateAttended, AskParentAttended,
     DecideAttended, LookUpScenarioAttended, BeginExecutionAttended,
     CallAdapterAttended, RecordExecutionAttended, EndingAttended,
     LoseRaceAttended DEF Serve
<1> QED
  BY <1>1, <1>2, <1>3 DEF ReliableNext

\* When no request is running and none has died, an EXECUTING case is one of
\* the known dead ends, or all its actions were performed and recorded: no
\* race drops the execution of a plan (recovery_service.py,
\* _execute_and_complete and the saves before it).
THEOREM ExecutionIsNeverDropped == ReliableSpec => []ExecutionNeverDropped
<1>1. Init => HistoryInv /\ AttendedInv
  <2>1. Init => case.status = "WAITING_FOR_RESPONSE"
    BY DEF Init, NoCase
  <2> QED
    BY <2>1, InitHistory DEF AttendedInv, Attended, GateAwaits
<1>2. HistoryInv /\ AttendedInv /\ [ReliableNext]_vars => (HistoryInv /\ AttendedInv)'
  BY StepAttends, StepKeepsHistory DEF ReliableNext, Next
<1>3. AttendedInv => ExecutionNeverDropped
  BY DEF AttendedInv, Attended, Settled, Responsible, ExecutionNeverDropped, Quiet, Blocked
<1> QED
  BY <1>1, <1>2, <1>3, PTL DEF ReliableSpec

-----------------------------------------------------------------------------
(* Resolved cases and declines.  StaleScenario.cfg shows that a decline     *)
(* recorded between the look-up of the scenario and the verification may go *)
(* unnoticed; that is the only way, whatever else the requests do meanwhile. *)

\* The points at which a request works with a scenario it has looked up.
Relying == {"execute", "adapter", "record", "verify"}

\* A step that tells no request working with a scenario anything new: it
\* records no decline and remembers no candidate.
TellsNothingNew ==
  (\E w \in Thread : pc[w] \in Relying) =>
    case'.declines = case.declines /\ case'.researched = case.researched

\* The scenario a thread at `at` works with is the one of the stored case.
Informed(at, c, f, stored) ==
  /\ at \in Relying => f = ScenarioFor(stored)
  /\ at = "resolve" => Fits(c.plan.cover, ScenarioFor(c))

ResolvedFits(c) == c.status = "RESOLVED" => Fits(c.plan.cover, ScenarioFor(c))

InformedInv ==
  /\ \A w \in Thread : Informed(pc[w], read[w], facts[w], case)
  /\ ResolvedFits(case)

\* Only declines and the remembered candidate make a difference to it.
LEMMA SameScenario ==
  ASSUME NEW c, NEW d, c.declines = d.declines, c.researched = d.researched
  PROVE  ScenarioFor(c) = ScenarioFor(d)
<1>1. People(c) = People(d)
  BY DEF People
<1> QED
  BY <1>1 DEF ScenarioFor

\* A thread that comes to `at`, while the others are told nothing new.
LEMMA InformedThread ==
  ASSUME HistoryInv, InformedInv, TellsNothingNew, NEW w \in Thread,
         NEW at, NEW j, NEW c, NEW f, NEW left, Become(w, at, j, c, f, left),
         Informed(at, c, f, case'), ResolvedFits(case')
  PROVE  InformedInv'
<1>1. ASSUME NEW v \in Thread
      PROVE  Informed(pc'[v], read'[v], facts'[v], case')
  <2>1. CASE v = w
    <3>1. pc'[v] = at /\ read'[v] = c /\ facts'[v] = f
      BY <2>1 DEF HistoryInv, IInv, TypeOK, Become
    <3> QED
      BY <3>1
  <2>2. CASE v # w
    <3>1. pc'[v] = pc[v] /\ read'[v] = read[v] /\ facts'[v] = facts[v]
      BY <2>2 DEF HistoryInv, IInv, TypeOK, Become
    <3>2. Informed(pc[v], read[v], facts[v], case)
      BY DEF InformedInv
    <3>3. pc[v] \in Relying => ScenarioFor(case') = ScenarioFor(case)
      BY SameScenario DEF TellsNothingNew
    <3> QED
      BY <3>1, <3>2, <3>3 DEF Informed
  <2> QED
    BY <2>1, <2>2
<1> QED
  BY <1>1 DEF InformedInv

\* Requests that arrive look nothing up yet.
LEMMA ArriveInformed ==
  ASSUME HistoryInv, InformedInv, TellsNothingNew, NEW w \in Thread, Arrive(w)
  PROVE  InformedInv'
<1>1. ResolvedFits(case)
  BY DEF InformedInv
<1>2. CASE StartWithoutOption(w) \/ StartWithPlan(w)
  <2>3. case'.status # "RESOLVED"
    <3>1. CASE StartWithoutOption(w)
      BY <3>1 DEF StartWithoutOption, NoCase
    <3>2. CASE StartWithPlan(w)
      <4>1. PICK p, r, external : case' = NewCase(p, r, external)
        BY <3>2 DEF StartWithPlan
      <4>2. \A of, level, outside :
               NewCase(of, level, outside).status # "RESOLVED"
        BY DEF NewCase, NoCase
      <4> QED
        BY <4>1, <4>2
    <3> QED
      BY <1>2, <3>1, <3>2
  <2>4. ResolvedFits(case')
    BY <2>3 DEF ResolvedFits
  <2>5. CASE UNCHANGED serverVars
    <3>1. ASSUME NEW v \in Thread
          PROVE  Informed(pc'[v], read'[v], facts'[v], case')
      <4>1. pc' = pc /\ read' = read /\ facts' = facts
        BY <2>5 DEF serverVars
      <4>2. Informed(pc[v], read[v], facts[v], case)
        BY DEF InformedInv
      <4>3. pc[v] \in Relying => ScenarioFor(case') = ScenarioFor(case)
        BY SameScenario DEF TellsNothingNew
      <4> QED
        BY <4>1, <4>2, <4>3 DEF Informed
    <3> QED
      BY <2>4, <3>1 DEF InformedInv
  <2>6. CASE \E c : Become(w, "gate", NoJob, c, NoFacts, {})
    <3>1. PICK c : Become(w, "gate", NoJob, c, NoFacts, {})
      BY <2>6
    <3>2. Informed("gate", c, NoFacts, case')
      BY DEF Informed, Relying
    <3> QED
      BY <2>4, <3>1, <3>2, InformedThread
  <2>7. UNCHANGED serverVars \/ \E c : Become(w, "gate", NoJob, c, NoFacts, {})
    BY <1>2 DEF StartWithoutOption, StartWithPlan
  <2> QED
    BY <2>5, <2>6, <2>7
<1>3. CASE ReceiveDecline(w)
  <2>1. PICK j : Become(w, "replan", j, case, NoFacts, {}) /\ case' = case
    BY <1>3 DEF ReceiveDecline
  <2>2. Informed("replan", case, NoFacts, case')
    BY DEF Informed, Relying
  <2> QED
    BY <1>1, <2>1, <2>2, InformedThread
<1>4. CASE ReceiveDecision(w)
  <2>1. PICK j : Become(w, "decide", j, case, NoFacts, {}) /\ case' = case
    BY <1>4 DEF ReceiveDecision
  <2>2. Informed("decide", case, NoFacts, case')
    BY DEF Informed, Relying
  <2> QED
    BY <1>1, <2>1, <2>2, InformedThread
<1>5. CASE ReceiveSameApproval(w)
  <2>1. /\ Become(w, "lookup", NoJob, NoCase, NoFacts, {}) /\ case' = case
    BY <1>5 DEF ReceiveSameApproval, GoExecute
  <2>2. Informed("lookup", NoCase, NoFacts, case')
    BY DEF Informed, Relying
  <2> QED
    BY <1>1, <2>1, <2>2, InformedThread
<1> QED
  BY <1>2, <1>3, <1>4, <1>5 DEF Arrive

\* Steps of a request up to its execution.
LEMMA DecidingInformed ==
  ASSUME HistoryInv, InformedInv, TellsNothingNew, NEW w \in Thread,
         \/ RecordNoOption(w) \/ RecordFailedReplan(w) \/ AdoptReplacement(w)
         \/ PassGate(w) \/ AskParent(w) \/ Decide(w) \/ LoseRace(w) \/ Abort(w)
  PROVE  InformedInv'
<1>3. ResolvedFits(case')
  <2>1. CASE case' = case
    BY <2>1 DEF InformedInv
  <2>2. CASE case'.status # "RESOLVED"
    BY <2>2 DEF ResolvedFits
  <2>3. ASSUME NEW x \in Case, NEW y, case' = Stored(x, y), x.status # "RESOLVED"
        PROVE  ResolvedFits(case')
    BY <2>2, <2>3 DEF Stored, Case
  <2>4. CASE RecordNoOption(w) \/ RecordFailedReplan(w)
    <3>1. WellFormed(read[w]) /\ job[w] \in Decline /\ Applicable(read[w], job[w])
      BY <2>4, HeldIsWellFormed DEF RecordNoOption, RecordFailedReplan, IInv, Checked,
         HistoryInv, Saving, Holding
    <3>2. PICK h : h = AfterDecline(read[w], job[w]) /\ h \in Case /\ h.status = "REPLANNING"
      BY <3>1, DeclineFields
    <3>3. \/ case' = Stored([h EXCEPT !.status = "NO_RECOVERY_OPTION"], read[w])
          \/ case' = Stored(h, read[w])
      BY <2>4, <3>2 DEF RecordNoOption, RecordFailedReplan, Save
    <3>4. case'.status # "RESOLVED"
      BY <3>2, <3>3 DEF Stored, Case
    <3> QED
      BY <2>2, <3>4
  <2>5. CASE AdoptReplacement(w)
    <3>1. WellFormed(read[w]) /\ job[w] \in Decline /\ Applicable(read[w], job[w])
      BY <2>5, HeldIsWellFormed DEF AdoptReplacement, IInv, Checked, HistoryInv, Saving, Holding
    <3>2. PICK proposal \in Replacements(read[w], job[w]) :
            case' = Stored(AfterReplan(read[w], job[w], proposal), read[w])
      BY <2>5 DEF AdoptReplacement, Save
    <3>3. PICK n : n = AfterReplan(read[w], job[w], proposal)
      OBVIOUS
    <3>4. n \in Case /\ n.status = "EXECUTING"
      BY <3>1, <3>3, AfterReplanKeeps DEF WellFormed
    <3> QED
      BY <2>3, <3>2, <3>3, <3>4
  <2>6. CASE PassGate(w)
    <3>1. case' = Stored([read[w] EXCEPT !.status = "EXECUTING"], read[w]) /\ read[w] \in Case
      BY <2>6 DEF PassGate, Save, HistoryInv, IInv, TypeOK
    <3>2. case'.status = "EXECUTING"
      BY <3>1 DEF Stored, Case
    <3> QED
      BY <2>2, <3>2
  <2>7. CASE AskParent(w)
    <3>1. case' = case \/ case' = Stored(Asking(read[w]), read[w])
      BY <2>7 DEF AskParent, Save
    <3>2. /\ Asking(read[w]) \in Case /\ Asking(read[w]).status = "APPROVAL_REQUIRED"
      <4>1. WellFormed(read[w]) /\ read[w].valid /\ read[w].plan # NoPlan
        BY <2>7, HeldIsWellFormed DEF AskParent, HistoryInv, IInv, Checked, Saving, Holding
      <4> QED
        BY <4>1, AskingKeeps DEF Asking, WellFormed, Case
    <3> QED
      BY <2>1, <2>3, <3>1, <3>2
  <2>8. CASE Decide(w)
    <3>1. WellFormed(read[w])
      BY <2>8, HeldIsWellFormed DEF Decide, Saving, Holding, HistoryInv
    <3>2. PICK i \in DOMAIN read[w].approvals, v \in {"APPROVED", "REJECTED"} :
            i = job[w].approval /\ v = job[w].verdict /\ Decidable(read[w], i)
      BY <2>8 DEF Decide, HistoryInv, IInv, Checked
    <3>3. PICK n : n = Decided(read[w], i, v)
      OBVIOUS
    <3>4. n \in Case
      BY <3>1, <3>2, <3>3, DecidedKeeps DEF WellFormed
    <3>5. n.status # "RESOLVED"
      BY <3>1, <3>2, <3>3, DecidedFields
    <3>6. case' = Stored(n, read[w])
      BY <2>8, <3>2, <3>3 DEF Decide, Save
    <3> QED
      BY <2>3, <3>4, <3>5, <3>6
  <2>9. CASE LoseRace(w) \/ Abort(w)
    BY <2>1, <2>9 DEF LoseRace, Abort
  <2> QED
    BY <2>4, <2>5, <2>6, <2>7, <2>8, <2>9
<1>4. \E at, c : /\ at \in {"idle", "lookup", "gate"}
                 /\ Become(w, at, NoJob, c, NoFacts, {})
  BY DEF RecordNoOption, RecordFailedReplan, AdoptReplacement, PassGate, AskParent,
         Decide, LoseRace, Abort, Answer, GoExecute
<1>5. PICK at, c : /\ at \in {"idle", "lookup", "gate"}
                   /\ Become(w, at, NoJob, c, NoFacts, {})
  BY <1>4
<1>6. Informed(at, c, NoFacts, case')
  BY <1>5 DEF Informed, Relying
<1> QED
  BY <1>3, <1>5, <1>6, InformedThread

\* Steps of a request from the look-up to the verdict.
LEMMA ExecutingInformed ==
  ASSUME HistoryInv, InformedInv, TellsNothingNew, NEW w \in Thread,
         \/ LookUpScenario(w) \/ BeginExecution(w) \/ CallAdapter(w)
         \/ RecordExecution(w) \/ VerifyCompletion(w) \/ Resolve(w)
  PROVE  InformedInv'
<1>3. Informed(pc[w], read[w], facts[w], case) /\ ResolvedFits(case)
  BY DEF InformedInv
<1>4. ASSUME Answer(w), ResolvedFits(case')
      PROVE  InformedInv'
  <2>1. Informed("idle", NoCase, NoFacts, case')
    BY DEF Informed, Relying
  <2> QED
    BY <1>4, <2>1, InformedThread DEF Answer
<1>5. CASE LookUpScenario(w)
  <2>1. case' = case
    BY <1>5 DEF LookUpScenario
  <2>2. Informed("execute", NoCase, ScenarioFor(case), case')
    BY <2>1 DEF Informed
  <2>3. Answer(w) \/ Become(w, "execute", NoJob, NoCase, ScenarioFor(case), {})
    BY <1>5 DEF LookUpScenario
  <2> QED
    BY <1>3, <1>4, <2>1, <2>2, <2>3, InformedThread
<1>6. CASE BeginExecution(w)
  <2> DEFINE missing == RequiredActions(case.plan) \ case.done
             at == IF missing = {} THEN "record" ELSE "adapter"
  <2>1. case' = case /\ facts[w] = ScenarioFor(case)
    BY <1>3, <1>6 DEF BeginExecution, Informed, Relying
  <2>2. /\ Informed("verify", NoCase, facts[w], case')
        /\ Informed(at, case, facts[w], case')
    BY <2>1 DEF Informed
  <2>3. \/ Answer(w)
        \/ Become(w, "verify", NoJob, NoCase, facts[w], {})
        \/ Become(w, at, NoJob, case, facts[w], missing)
    BY <1>6 DEF BeginExecution
  <2> HIDE DEF missing, at
  <2>4. ResolvedFits(case')
    BY <1>3, <2>1
  <2>5. CASE Answer(w)
    BY <1>4, <2>4, <2>5
  <2>6. CASE Become(w, "verify", NoJob, NoCase, facts[w], {})
    BY <2>2, <2>1, <2>4, <2>6, InformedThread
  <2>7. CASE Become(w, at, NoJob, case, facts[w], missing)
    BY <2>2, <2>1, <2>4, <2>7, InformedThread
  <2> QED
    BY <2>3, <2>5, <2>6, <2>7
<1>7. CASE CallAdapter(w)
  <2>1. PICK a \in todo[w] :
          /\ todo' = [todo EXCEPT ![w] = @ \ {a}]
          /\ pc' = [pc EXCEPT ![w] = IF todo[w] = {a} THEN "record" ELSE @]
    BY <1>7 DEF CallAdapter
  <2> DEFINE at == IF todo[w] = {a} THEN "record" ELSE "adapter"
  <2>2. pc[w] = "adapter" /\ UNCHANGED <<case, job, read, facts>>
    BY <1>7 DEF CallAdapter
  <2>3. Become(w, at, job[w], read[w], facts[w], todo[w] \ {a})
    BY <2>1, <2>2 DEF Become, HistoryInv, IInv, TypeOK
  <2>4. Informed(at, read[w], facts[w], case')
    BY <1>3, <2>2 DEF Informed, Relying
  <2> HIDE DEF at
  <2> QED
    BY <1>3, <2>2, <2>3, <2>4, InformedThread
<1>8. CASE RecordExecution(w)
  <2>1. /\ pc[w] \in Saving /\ WellFormed(read[w]) /\ read[w] \in Case
        /\ facts[w] = ScenarioFor(case)
    BY <1>3, <1>8, HeldIsWellFormed DEF RecordExecution, Saving, Holding, HistoryInv,
       WellFormed, Informed, Relying
  <2>2. WellFormed(Executed(read[w])) /\ Keeps(read[w], Executed(read[w]))
    BY <2>1, ExecutedKeeps
  <2>3. case = read[w] /\ case' = Stored(Executed(read[w]), read[w])
    BY <1>8, <2>1, <2>2, SavedIsLater DEF RecordExecution, HistoryInv
  <2>4. /\ Executed(read[w]).status # "RESOLVED"
        /\ Executed(read[w]).declines = read[w].declines
        /\ Executed(read[w]).researched = read[w].researched
    BY <2>1 DEF Executed, Case
  <2>5. PICK n : n = Executed(read[w])
    OBVIOUS
  <2>6. /\ case'.status # "RESOLVED" /\ case'.declines = case.declines
        /\ case'.researched = case.researched
    BY <2>2, <2>3, <2>4, <2>5 DEF Stored, WellFormed, Case
  <2>7. ScenarioFor(case') = facts[w] /\ ResolvedFits(case')
    BY <2>1, <2>6, SameScenario DEF ResolvedFits
  <2>8. Informed("verify", NoCase, facts[w], case')
    BY <2>7 DEF Informed
  <2>9. Answer(w) \/ Become(w, "verify", NoJob, NoCase, facts[w], {})
    BY <1>8 DEF RecordExecution
  <2> QED
    BY <1>4, <2>7, <2>8, <2>9, InformedThread
<1>9. CASE VerifyCompletion(w)
  <2>1. case' = case /\ facts[w] = ScenarioFor(case)
    BY <1>3, <1>9 DEF VerifyCompletion, Informed, Relying
  <2>2. CASE Answer(w)
    BY <1>3, <1>4, <2>1, <2>2
  <2>3. CASE Verifiable(case, facts[w]) /\ Become(w, "resolve", NoJob, case, NoFacts, {})
    <3>1. Informed("resolve", case, NoFacts, case')
      BY <2>1, <2>3 DEF Informed, Relying, Verifiable
    <3> QED
      BY <1>3, <2>1, <2>3, <3>1, InformedThread
  <2> QED
    BY <1>9, <2>2, <2>3 DEF VerifyCompletion
<1>10. CASE Resolve(w)
  <2>1. /\ case' = Stored([read[w] EXCEPT !.status = "RESOLVED", !.verified = TRUE], read[w])
        /\ read[w] \in Case /\ Fits(read[w].plan.cover, ScenarioFor(read[w]))
    BY <1>3, <1>10 DEF Resolve, Save, HistoryInv, IInv, TypeOK, Informed
  <2>2. /\ case'.plan = read[w].plan /\ case'.declines = read[w].declines
        /\ case'.researched = read[w].researched
    BY <2>1 DEF Stored, Case
  <2>3. ResolvedFits(case')
    BY <2>1, <2>2, SameScenario DEF ResolvedFits
  <2> QED
    BY <1>4, <1>10, <2>3 DEF Resolve
<1> QED
  BY <1>5, <1>6, <1>7, <1>8, <1>9, <1>10

\* Every step that tells the requests working with a scenario nothing new.
LEMMA StepInforms ==
  ASSUME HistoryInv, InformedInv, [TellsNothingNew]_vars, [Next]_vars
  PROVE  InformedInv'
<1>1. CASE UNCHANGED vars
  BY <1>1 DEF vars, serverVars, InformedInv
<1>2. CASE TellsNothingNew /\ Next
  <2>1. ASSUME NEW w \in Thread, Arrive(w)
        PROVE  InformedInv'
    BY <1>2, <2>1, ArriveInformed
  <2>2. ASSUME NEW w \in Thread, Serve(w) \/ Abort(w)
        PROVE  InformedInv'
    BY <1>2, <2>2, DecidingInformed, ExecutingInformed DEF Serve
  <2> QED
    BY <1>2, <2>1, <2>2 DEF Next
<1> QED
  BY <1>1, <1>2

\* A resolved case puts nobody in charge of a time they declined, provided no
\* decline or candidate is recorded between the look-up of a scenario and the
\* verification of completion with it (recovery_service.py,
\* _execute_and_complete: the scenario is looked up once, before the
\* execution).  Requests may race in every other way.
THEOREM DeclinesAreRespected ==
  Spec /\ [][TellsNothingNew]_vars => []ResolvedRespectsDeclines
<1>1. Init => InformedInv
  BY DEF Init, InformedInv, Informed, Relying, ResolvedFits, NoCase
<1>2. HistoryInv /\ InformedInv /\ [TellsNothingNew]_vars /\ [Next]_vars => InformedInv'
  BY StepInforms
<1>3. ASSUME HistoryInv, InformedInv
      PROVE  ResolvedRespectsDeclines
  <2>1. SUFFICES ASSUME case.status = "RESOLVED", NEW d \in case.declines,
                        NEW t \in d.window, case.plan.cover[t] = d.who
                 PROVE  FALSE
    BY DEF ResolvedRespectsDeclines
  <2>2. d.who \in Caregiver /\ t \in Tick
    BY <1>3 DEF HistoryInv, IInv, TypeOK, Case, Decline
  <2>3. Fits(case.plan.cover, ScenarioFor(case))
    BY <1>3, <2>1 DEF InformedInv, ResolvedFits
  <2>4. d.who \in People(case) /\ t \in ScenarioFor(case)[d.who]
    BY <2>1, <2>2, <2>3, PeopleAssumption DEF Fits, ScenarioFor
  <2>5. t \in DeclinedTicks(case.declines, d.who)
    BY <2>1 DEF DeclinedTicks
  <2> QED
    BY <2>4, <2>5 DEF ScenarioFor
<1> QED
  BY <1>1, <1>2, <1>3, HistoryHolds, PTL DEF Spec

=============================================================================
