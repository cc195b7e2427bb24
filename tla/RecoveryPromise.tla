--------------------------- MODULE RecoveryPromise ---------------------------
(***************************************************************************)
(* RecoveryService implements AutonomyPromise: the plan on offer is the    *)
(* active plan while it is VALID, the verdicts are the decided approvals,  *)
(* and the actions carried out are the calls of the execution adapter.     *)
(***************************************************************************)
EXTENDS RecoveryService

Offered == {[id |-> p.id, needs |-> p.needs, duties |-> RequiredActions(p)] :
              p \in EverPlans(case)}

Verdicts ==
  {<<case.approvals[i].plan, case.approvals[i].status>> :
     i \in {j \in DOMAIN case.approvals : case.approvals[j].status # "PENDING"}}

Promise ==
  INSTANCE AutonomyPromise
  WITH offered   <- Offered,
       current   <- IF case.valid THEN case.plan.id ELSE 0,
       verdicts  <- Verdicts,
       resolved  <- case.status = "RESOLVED"

\* Whatever requests race, fail or repeat, the household sees a behaviour the
\* promise allows: one verdict per plan and only on the plan on offer, no
\* action without authorization, no resolution ahead of the actions, and no
\* way back for a plan once withdrawn.
PromiseKept == Promise!Spec

=============================================================================
