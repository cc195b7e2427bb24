# DayMend in TLA+

DayMend recovers a family's day when childcare falls through. A disruption opens one
`RecoveryCase`; planning agents propose a plan, deterministic code validates it, a parent approves
what the family's policy does not allow the service to do alone, simulated actions carry the plan
out, and a verifier declares the case resolved. Caregivers may decline at any time, which breaks
part of the plan and starts a replacement.

This directory models the deterministic core of that system and the parts around it that are
concurrent: the recovery service, its planning runs, the family settings, and the live progress
from the backend to the page. TLC checks the models on small instances; TLAPS proves the most
important safety properties for every number of threads, pages, events and IDs, and every scenario
and policy. Paths below are relative to `src/`.

## Inventory

| Component | Source | State it keeps | Operations | Hard behaviour | What makes it correct |
|---|---|---|---|---|---|
| Recovery case aggregate | `backend/app/models/domain.py`, `services/plan_invalidation.py`, `services/backup_care.py`, `agent/research_planability.py` | plan, previous plans, assumptions, declines, approvals, execution history, version | apply a decline, accept a plan, derive the scenario | long legal sequences of declines and plans | nothing recorded is lost; one id, one plan |
| Recovery application service | `application/recovery_service.py` | none of its own: everything is in the stored case | start, process event, decide approval, execute and complete | concurrent requests, crashes between saves, stale reads | no effect without authorization; RESOLVED is earned; requests are answered |
| Approval service | `services/approval_service.py` | in the case: pending request, history | gate, approve, reject | late or repeated decisions, plans replaced while waiting | a decision is final and about the current plan |
| Execution service, simulated adapter | `services/execution_service.py` | in the case: execution history | execute | effects before the save that records them | actions run once; only for authorized plans |
| Completion verifier | `services/completion_verifier.py` | in the case: status, completion time | verify and resolve | a scenario older than the case | RESOLVED respects coverage and declines |
| Case repositories | `repositories/*recovery_case_repository.py` | the stored item and its version | get, save | conditional put, lost answers, unlocked in-memory save | no acknowledged save is overwritten |
| Plan validator | `services/plan_validator.py` | none | validate, validate a repair | boundaries, handoffs, transport, locations | who is in charge can be there, who drives is able and free to, and the child is never alone or elsewhere |
| Feasible matrix and planner | `agent/constraint_planner.py` | none | build primitives, prune to connected paths, materialize a selection | boundaries, preserved segments | the matrix is empty exactly when no path exists; a complete selection validates |
| Runtime gateway, bounded attempts | `agent/runtime_gateway.py`, `agent/recovery_agent.py`, `agent/replanning.py` | attempts of one run | plan, replan, repair, invoke with retries | lost and repeated transmissions, attempt bound | every run ends within three verdicts; only a validated plan gets out |
| Agents, prompts, orchestrators, tools | `agent/*` | none | the stages of each architecture | model output is arbitrary; service and workflow ask the same question twice | nothing depends on what a model says; a run that was let start finds a candidate |
| Family settings | `application/family_service.py`, `repositories/family_repository.py`, `frontend/src/app/pages/{family,settings}.ts` | profile and its version; the profile a page shows | get (seeds), update, reset | seeding race, conflicting updates, late answers | no acknowledged edit lost; the sections a page shows are one version |
| Progress channel | `progress.py`, `api/routes.py` | bounded event buffers under two kinds of ID | start, append, snapshot, stream | bounded buffer, one case under several IDs, resuming by number | one channel per case; no kept event is skipped |
| HTTP API | `api/*`, `main.py` | none | request mapping, error mapping | thread pool | - |
| Frontend store | `frontend/src/app/core/recovery.store.ts` | current case, progress ID, progress events | start, decline, decide, refresh, reset, reload, merge events | answers, snapshots and events out of order, broken connections | never shows another case's events; takes none back |
| Frontend views | `frontend/src/app/components`, `pages` | view state | presentation | - | - |
| Observability, fixtures, demos, infrastructure | various | - | - | - | - |

How they interact: the HTTP endpoints are synchronous functions, which FastAPI runs on a thread
pool, and several processes may serve one DynamoDB table. A request handler calls the application
service, which calls the planning gateway, the approval, execution and verification services in
turn; these share nothing but the stored case. Every one of them reads the case (`get`) and saves a
successor conditionally on the version it read (`save`). There are no locks around a case and no
background jobs. The family profile is another item with a version of its own; what a planning run
knows of it is the snapshot the case was started with. Progress events are made from log records
and kept in memory under one lock; each page reads them over an event stream and, to close gaps,
as snapshots.
The hazards this leaves are listed in `PROJECT.json`, each at the line where it bites.

## Modules

| Module | Contents |
|---|---|
| `RecoveryCase` | The aggregate and the pure functions on it: segments, assumptions, required actions, the scenario a case implies, what a decline breaks, which outcomes planning can have, plan ids, the guards of execution and of completion. |
| `RecoveryService` | The state machine: one stored case, server threads serving requests on it. |
| `AutonomyPromise` | Abstract specification: what the household is promised, without requests, threads or versions. |
| `RecoveryPromise` | The refinement mapping from `RecoveryService` to `AutonomyPromise`. |
| `CaseStore` | The two repositories under concurrent writers: justifies the atomic conditional save `RecoveryService` assumes, for DynamoDB. |
| `DayPlan` | A day in detail: windows, places, trips, handoff buffers, calendars, and the plan validator. |
| `FeasibleMatrix` | The care and transport primitives, their pruning to connected paths, what a selection may be. |
| `BackupCare` | When research is needed, whom it compares, who completes the day. |
| `DeclineImpact` | What a decline breaks in a plan with trips, and what a repair must keep. |
| `PlanningRun` | Planning runs of one case over these four: the service's gate, three architectures in the process or on AgentCore, research, proposals and verdicts, adoption or exhaustion. |
| `PlanningPromise` | Abstract specification of a run: it ends within its budget and changes the day only to an acceptable one. |
| `FamilySettings` | The profile item, concurrent requests on it read by read and put by put, the pages that send them. |
| `FamilyPromise` | Abstract specification: one profile whose versions follow one another by one-section edits. |
| `ProgressChannel` | The progress buffer: channels, IDs, numbering, the bound. Functions only. |
| `LiveProgress` | The buffer composed with the request handlers, the event stream and the page's store. |
| `MCRecoveryService`, `MCPlanning`, `MCFamily` | Values of the constants for TLC. |
| `RecoveryServiceProofs`, `RecoveryPromiseProofs`, `CaseStoreProofs` | Invariants, lemmas and theorems about the aggregate, the service and its repositories. |
| `PlanningRunProofs` | The same about days and planning runs. |
| `JourneyProofs` | The same about the matrix: paths of primitives, complete journeys, the provider that is hired. |
| `FamilySettingsProofs`, `ProgressChannelProofs`, `LiveProgressProofs` | The same about the profile and the progress. |

`RecoveryService` and `PlanningRun` look at a case from two sides. The first has threads, saves,
approval and execution, and a planning run is one choice among the outcomes the deterministic code
allows. The second has what happens inside that choice, one run after another, with days in full
detail, and knows nothing of approval. A plan `PlanningRun` adopts is one `RecoveryService` may be
handed: it covers the day with people who are available, and leaves what a decline did not touch.

### `RecoveryService`: the state and the code

`case` is the item in the repository (version 0: absent). Each thread has a program counter `pc`
and what its request holds in local variables: `job` (the decline or the decision it serves),
`read` (the case it read, which it will save a successor of), `facts` (the scenario
`_execute_and_complete` looked up), `todo` (the actions the execution loop has left). `performed`
and `repeated` record the calls of the execution adapter, the outside world.

A step ends exactly where another thread can come between: each `repository.get`, each
`repository.save`, each adapter call.

| `pc` | The request is about to | Code |
|---|---|---|
| `replan` | save the decline with the outcome of planning (`RecordNoOption`, `RecordFailedReplan`, `AdoptReplacement`) | `recovery_service.py` 542-656 |
| `gate` | save what the autonomy gate made of the new plan (`PassGate`, `AskParent`) | `approval_service.py` 55-160 |
| `decide` | save a decision (`Decide`) | `approval_service.py` 187-260 |
| `lookup` | read the case and derive the scenario (`LookUpScenario`) | `recovery_service.py` 799-801 |
| `execute` | read the case again and check the guards (`BeginExecution`) | `execution_service.py` 69-116 |
| `adapter` | call the adapter for the next action (`CallAdapter`) | `execution_service.py` 117-141 |
| `record` | save the results (`RecordExecution`) | `execution_service.py` 142-156 |
| `verify` | read the case a third time and verify (`VerifyCompletion`) | `completion_verifier.py` 44-104 |
| `resolve` | save RESOLVED (`Resolve`) | `completion_verifier.py` 106-138 |

`LoseRace` is the version conflict of any of the saves, `Abort` the death of the server process or
an exception of the planner.

Abstractions:

- Time: the required coverage is cut into `Horizon` ticks; a plan's coverage maps each tick to a
  person, and its segments are the maximal runs of one person. Handoff overlaps, locations and
  trips are in `DayPlan`, not here. A price is a price per tick; the flat rates some providers
  charge once are priced like that too.
- Planning: a run of the planner ends with any coverage the validator accepts, with one researched
  provider if the known people leave a gap and research is possible, or fails. Whether there is a
  gap is asked tick by tick; the matrix of `FeasibleMatrix` is stricter, since its primitives must
  also connect.
- Calendar changes: every movable tick covered by a parent requires moving that meeting; the
  segments of both parents are taken as one person's.
- The client's `expected_version` only turns requests away and may be omitted; the requests
  modelled are those it lets through. Requests the guards refuse change nothing and are not steps.
- Ids: an approval's id is its position in the history, a plan's its number.
- One case: cases share no state.

### `PlanningRun`: the state and the code

`snapshot`, `status`, `plan`, `researched` and `declines` are what the stored case says of planning;
`host` is the deployment (`single`, `multi` or `multi_research` agents, in the process or on
AgentCore). `run` is the run in progress: its `phase`, the `facts` and the `scope` (what is affected,
what is kept) it was started with, the candidate it `hired`, the proposals `judged`, the
transmissions (`sends`) of the current request, and how often agents were made to reason.

| Phase | What happens next | Code |
|---|---|---|
| `idle` | `StartRecovery`, `ReportDecline`, unless no option is left | `recovery_service.py`, the gate in `agent/research_planability.py` |
| `brief` | the single agent looks the facts up, or an orchestrator writes a brief | `agent/recovery_agent.py`, `agent/recovery_orchestrator.py` |
| `research` | a researcher ranks candidates and code picks the first that completes the day, or nobody is asked | `agent/research_multi_agent.py`, `agent/multi_agent.py` |
| `propose` | a proposal is judged; the third rejection exhausts the run | `agent/replanning.py`, `agent/constraint_planner.py` |
| `send` | a request is transmitted | `agent/runtime_gateway.py` |
| `runtime` | it fails, is lost before or after the runtime took it, or is answered and judged | `agent/runtime_gateway.py`, `agent/runtime_execution.py` |

What a language model says is arbitrary within what the code accepts of it: any ranking of all
eligible candidates; any selection of primitives that has the immutable ones; any free plan that
fits the facts, any that fits the facts before the declines, or nonsense. Free plans in which a
person hands over to themselves are left out of the choice; the validator has no opinion on them
that other plans do not show.

A segment names who is assigned (`who`) and, of a trip, who drives (`by`), as in the code. A care
segment of a free proposal may carry a driver or a destination too; they mean nothing to the
validator and the model leaves them out, except that it thereby misses that a preserved segment with
them can never be selected again (`_preserved_primitive` drops them, `_preserved_work_survives`
compares them).

Times are small numbers. The calendar changes of a plan move all movable meetings or none, two
segments with one window are taken to be invalid, and duplicate ids of primitives, which raise in
the code, do not occur.

### `FamilySettings`: the state and the code

`stored` is the profile item (version 0: none), `form` what each page shows, `request` where the
handling of each call stands. Every read of the profile and every put is a step. `update` reads the
profile after the page sent its version, replaces one section and puts on condition of the page's
version (`Expected`); `get` seeds a missing profile and reads again on a conflict; `reset_demo`
expects the version it read itself. A put whose answer is lost is repeated by the SDK and then
conflicts with itself, so a page may be told of a conflict although its edit is stored. An answer is
the profile together with the known locations, which `_response` takes from one more read of the
profile (`AddLocations`), with other requests' puts in between; the page keeps both (`profile`,
`places`). The locations are told from the caregivers, so they are what the section `facts` says.

### `ProgressChannel`, `LiveProgress`: the state and the code

A channel is named by the ID it was made for. `buffer.at` leads from a progress ID or a case ID to
the channel, `buffer.events` holds what it keeps, `buffer.next` its next number. `handler` has the
request of this page and one of others (another client, or a request the page gave up). `page` is
the store's progress ID, case, remembered case and action in progress; `shown` the merged events;
`stream` the `EventSource` with the generator that serves it; `snapshots` the requests for
snapshots. `unused` has the IDs not given out: uuids differ in nothing, so the next one is a
`CHOOSE`. An event carries the case whose operation logged it, a time stamp and the life of the
process; no step reads them, the properties do.

A handler enters its scope, logs events with or without the case's ID, and answers. Reading a case
logs nothing and is one step with its answer; a change that fails shows what one that succeeds
shows. A change is possible whenever a case is shown, which is more than the page's buttons allow.
The page's actions follow `recovery.store.ts`: `StartRecovery`, `ChangeRecovery` (decline, decide),
`Refresh`, `Answer`, `Reset`, `ResetAnswered`, and `Reload`, after which the page follows the
channel of the case it remembers.

## Runs

| Run | Instance | Result |
|---|---|---|
| `Race` | 2 threads, 2 declines, 2 ticks, a free and a paid known caregiver (any use of the latter needs the parent), crashes | pass, 343,565 states |
| `Research` | 1 thread, 2 declines of any window, 2 ticks, two paid providers to research, external help on or off, a calendar adapter that fails, crashes | pass, 633,997 states |
| `Progress` | 2 threads, 2 declines, 1 tick, providers to research, external help on or off, weak fairness, no crashes | pass, 102,675 states |
| `Store` | 3 writers, 4 records, both repositories | pass, 17,145 states |
| `Planning` | 10 family situations, 5 deployments, 12 declines of which 2 are reported, a clock of 5 times | pass, 33,383 states |
| `Family` | 2 pages, 2 sections of 2 contents, versions up to 3, 2 calls at once | pass, 819,811 states |
| `Stream` | 2 cases, 2 progress IDs, channels of 2 events, 3 events, 1 fault | pass, 880,956 states |
| `StaleScenario` | 2 threads, 3 ticks, the co-op and then grandma decline | `ResolvedRespectsDeclines` violated |
| `RunTwice` | 2 threads, no crashes | `ActionsRunOnce` violated |
| `Forgotten` | 1 thread, researched providers | `HiredHelpIsKnown` violated |
| `InMemory` | 2 writers, in-memory repository | `InMemoryKeepsAcknowledged` violated |
| `Rehired` | as `Planning` | `DeclinersAreReleased` violated |

What they show.

- `Race`: whatever two requests do to each other, and wherever they die, no adapter call is made
  for an unauthorized plan, a rejected plan stays inert, RESOLVED means that every action of the
  active, authorized plan really was sent, plan ids are unique, a waiting case can be answered,
  nothing recorded is lost, decisions are final and about the current plan; and all of this is a
  behaviour of `AutonomyPromise`.
- `Research`: long sequences of requests, one at a time, through researched providers and failed
  actions. Here `ResolvedRespectsDeclines` holds: a resolved case puts nobody in charge of a time
  they declined. With several requests it needs that no decline comes between a look-up and the
  verification that uses it, as `StaleScenario` shows.
- `Progress`: every accepted request is answered, and an EXECUTING case does not stay so unless it
  is in one of the dead ends named by `Blocked` or its actions are all done.
- `Store`: the conditional put is what `RecoveryService` takes it for.
- `Planning`: every adopted day, judged tick by tick without the validator's definitions, is
  complete and possible: in charge are people who are trusted as demanded and can be there, and who
  drives is able and free to (`AdoptedDaysAreSafe`; no more is true of a driver, see below). A
  replacement leaves alone what the decline did not touch (`OnlyTouchedWorkChanges`), and no
  preserved trip is left without somebody at its far end (`PreservedTripsMeetCare`). The matrix has
  exactly the primitives of complete journeys (`MatrixIsExact`), so "insufficient" is a fact; a
  complete journey has all preserved work in it and validates (`JourneysValidate`). A run the
  service lets start finds a candidate, however the model ranks (`GateAgreesWithResearch`), and the
  candidate it picks completes the day with some care of theirs (`HiringSuffices`). Runs implement
  `PlanningPromise`, including that each one ends.
- `Family`: an acknowledged edit changed the version its page showed and nothing else
  (`AcknowledgedEditsKept`), the sections of a page are one stored version, with the
  locations of that version or a later one (`FormsAreWhole`), a refusal means that the profile did
  move on, and racing first reads are never refused (`RefusedMeansChanged`); the whole
  implements `FamilyPromise`.
- `Stream`: channels keep the last events without a gap (`ChannelsAreWindows`), the events of a
  case are in one channel whatever IDs its requests came with (`OneChannelPerCase`), the page shows
  its case's events only (`ShownIsOfTheCase`), shows them without a hole, and takes none back
  (`ShownHasNoHole`, `ShownStays`), and everything kept arrives in the end (`EventsArrive`).

### Disagreements with the documentation

- `StaleScenario`: the verifier is handed the scenario looked up before the execution
  (`recovery_service.py` 801, 828). Two declines recorded meanwhile, with their replacement plan,
  are judged by the old facts: the case is resolved with the co-op in charge of the time it
  declined. `docs/architecture.md` says completion is revalidated "against current state".
- `RunTwice`: an approval and its retry, on two threads, both call the adapter for one action; the
  history is written once, after the loop. The service's docstring says "once". The action ids are
  stable, so an adapter that honours them could make this harmless; the simulated one does not.
- `Forgotten`: the case remembers one researched provider. When that provider cancels part of the
  day, a second one is hired for it and replaces the first in the context, while the preserved
  segments still rely on the first. `docs/architecture.md` calls the recommendation authoritative
  context; the verifier then refuses the plan, and a further decline of the first provider cannot
  be replayed at all.
- `InMemory`: the in-memory repository checks the version and assigns in two steps without a lock.
  It is the repository of tests and local demos.
- `Rehired`: research compares providers by what they offered once, and a provider found again is
  listed again with that offer. One who was hired and declined part of the day is hired for the
  declined time again, and the validator, given the same facts, agrees. The instructions of the
  agents (`agent/instructions.py` 100) say "Never reuse a declined caregiver for the unavailable
  window". `AdoptedDaysAreSafe` and `JourneysValidate` count such a provider as offered.

### What the code does besides

Met while modelling; no document says otherwise in so many words, so no run contradicts one.

- A race can leave a case EXECUTING with all its actions done and no verdict (an execution that
  verified with old facts, and a gate that lost its race): only repeating an approval resumes it,
  when there is one. A decline of part of a segment invalidates the whole segment's assumption, so
  a replacement that keeps the caregiver for the remaining time is valid, executed, and never
  verified. `ExecutionSettles` and `ExecutionNeverDropped` state exactly what remains true.
- The driver of a trip (`transporter_id`) is a field of its own, which a free proposal sets as it
  likes. `_validate_transporter` asks whether that person can drive, has a window around the trip
  and no fixed event in it; `unavailable_caregiver_ids`, trust and movable meetings are asked of the
  person assigned only, although `docs/architecture.md` lists "caregiver trust and availability"
  among the checks of the validator without saying whose. So a plan is adopted in which a mother
  without a car is assigned to a trip that the sitter drives who is out today: the situation is one
  of `Planning`'s, and `AdoptedDaysAreSafe` says of drivers just what the code asks. A selection of
  primitives has such a trip only if it is preserved, since the matrix offers only trips that the
  person assigned drives.
- The cost of a plan, its approval reasons and what a decline breaks follow the person assigned. A
  decline by somebody who only drives others' trips is refused, since it breaks no care; and a
  preserved trip that the decliner of some care drives makes the replan impossible, since it must be
  kept and is no longer valid. `AdoptedDaysAreSafe` shows that no such trip is adopted.
- The locations of an answer are read after the profile, so a page may show version N with the
  locations of N+1 (`Places`). The version is that of the sections, so the next save from such a page
  conflicts.
- A replan that fails leaves the case with an INVALID plan, which refuses every later event
  (`status = "broken"`).
- The validator asks neither that the first segment starts at home nor that the last trip of the
  day leads to somebody.
- `single` and `multi` agents cannot research, but the service's gate does not look at the
  architecture: with external help allowed and the known options insufficient, their runs start and
  then exhaust or raise.
- With a positive handoff buffer, the policy's or a caregiver's own, two people must overlap, and
  primitives only touch: no selection with such a handover is ever valid. `JourneysValidate`,
  `HiringSuffices` and `PreservedTripsMeetCare` are about the days without buffers (`Unbuffered`),
  which is what the default policy and its caregivers have.
- Primitives run from edge to edge of availability, so two caregivers whose windows overlap in the
  middle meet at no boundary: the matrix calls a day insufficient that the validator would accept
  with a handover in between.
- A parent's trip across a movable meeting is offered as a primitive, and a selected plan has no
  calendar changes (`AsksForMoves`).
- A location is known as long as a listed caregiver is there; when the last one is removed, an
  update that names it is refused.
- A reset whose put conflicts ends in an internal error (500), where an update gets a 409.
- After a reload or a refused reset the page follows the channel of its case under the case's ID,
  but the events carry the ID of the start, and `acceptsProgress` drops them all. Progress is back
  with the next start.
- Numbers start again with a new process, and a stream that resumes after a larger number skips
  events. `ShownHasNoHole` and `EventsArrive` are about one life of the process, `ShownStays`
  exempts the reuse of an id.
- The in-memory profile starts again at version 1 after a restart, like the one a page may still
  show.

### Bounds

- `Horizon`: 2 ticks is the least at which a decline can hit a part of a segment or one of two
  segments and a replacement has something to preserve; `StaleScenario` needs 3, for two declines
  that each leave something. `Progress` takes 1: its questions are about requests, not coverage.
- `EventId`: 2 declines give up to three plans, enough for a plan that is neither first nor last.
- `Thread`: 2 gives every pairwise race; the proofs cover any number.
- Approvals, versions and plans are bounded by the declines, since each plan is asked about once.
- `Planning`: a clock of 0..4 holds a trip to a caregiver, care there and the trip back with
  another window on either side. The ten situations are chosen so that between them every kind of
  primitive, gap, handover, meeting, policy and research outcome occurs, with a mother, two known
  caregivers of whom one is a trip away, and two providers of whom one is; two is what research
  needs to compare. The sitter drives, is not trusted, and in one situation is out, so that driver
  and person assigned differ in ways that matter. `MaxDeclines = 2` gives a decline of a
  replacement, and of a hired provider.
- `Family`: versions up to 3 are the seed and two edits, or an edit and a reset between the read
  and the put of another. Two sections are enough to tell a put of one from a put of all:
  preferences are handled as policy is, so the run has `facts`, which reads the locations, and
  `policy`. `MaxCalls = 2` gives each pair of calls; the proof covers any number.
- `Stream`: a channel of 2 events overflows with the third. `MaxFaults = 1` is shared by broken
  connections, lost snapshots, requests given up, reloads and restarts, so each happens, though not
  two in one run; `MaxSnapshots = 1` still lets a snapshot be overtaken by the stream and by
  changes of the page. The proofs have no bound but the types.
- `SYMMETRY` permutes threads, event ids, the two providers, and the pages of `Family`, which no
  definition tells apart in the runs that use it; `Progress`, `Planning` and `Stream`, which have
  liveness properties, use none.
- `CHECK_DEADLOCK FALSE`: a case or a page with no request left to make is a normal end.

### Fairness

`ReliableSpec` assumes weak fairness of `Serve(w)` for each thread: a thread of the pool that has a
step to take is eventually scheduled. That is all the code's runtime gives, and it is not assumed
of clients: nobody need ever send a request, approve, or retry. `Abort` is not a step of
`ReliableSpec`, since a request that dies is never answered. A planner run ends, because its
attempts and its invocations are bounded and time out.

`PlanningRun!FairSpec` is weak fairness of the steps of a run, written out: model and network calls
have timeouts, so a run that is not over takes another step. Nothing says that the step succeeds,
or that an answer ever comes; that the run ends anyway is the bound on verdicts and transmissions.

`LiveProgress!FairSpec` is one weak fairness condition on `Connect \/ Poll \/ Deliver`: the browser's
`EventSource` reconnects, the generator polls each 0.75 s, and what was sent arrives unless the
connection breaks. Snapshots, answers and requests may be delayed for ever.

## Proofs

`RecoveryServiceProofs` proves, from the assumptions on the constants alone:

| Theorem | Statement |
|---|---|
| `Invariance` | `Spec => []IInv` |
| `TypeCorrect` | `Spec => []TypeOK` |
| `EffectsAreAuthorized` | `Spec => []EffectsAuthorized` |
| `PlanIdsAreUnique` | `Spec => []PlanIdsNameOnePlan` |
| `WaitingCasesAreAnswerable` | `Spec => []WaitingIsAnswerable` |
| `NothingIsLost` | `Spec => NothingRecordedIsLost` |
| `DecisionsStand` | `Spec => DecisionsFinalAndCurrent` |

`EffectsAuthorized` is not inductive: a thread calls the adapter by what it read long ago. The
invariant `IInv` adds three things. The stored case is `WellFormed`: plans are numbered in order, a
broken plan is the last of the previous ones, and a pending request is open and about the active
plan if the case waits for it. Each thread holds a `Snapshot`: what it read was well formed, is not
newer than the stored case, *is* the stored case if the versions agree, and had no plan and no
approval the stored case lacks. And each thread has `Checked` what its program counter implies. The
first part of the module shows that each operation of the aggregate keeps a case well formed and
loses nothing (`Keeps`), whatever was proposed. A save that succeeds met the version that was read,
so it applies one such operation to the stored case itself (`SavedIsLater`); snapshots survive
because versions and records only grow (`SnapshotStays`); and a plan once authorized is authorized
for good (`AuthorizedForGood`), which covers the adapter calls. The two action properties are
`Keeps` read off between the stored cases before and after a step. TLC checked `IInv` on the
instances of `Race` and `Research` before it was proved.

`RecoveryPromiseProofs` goes on from there:

| Theorem | Statement |
|---|---|
| `HistoryHolds` | `Spec => []HistoryInv` |
| `ServiceKeepsPromise` | `Spec => PromiseKept` |
| `ResolutionsAreEarned` | `Spec => []ResolvedIsEarned` |
| `RejectionsAreFinal` | `Spec => []RejectedPlansInert` |
| `ExecutionIsNeverDropped` | `ReliableSpec => []ExecutionNeverDropped` |
| `DeclinesAreRespected` | `Spec /\ [][TellsNothingNew]_vars => []ResolvedRespectsDeclines` |

- `HistoryInv` adds to `IInv` what the history of a case says of its plans (`Earned`): every plan
  was priced when it was accepted, a parent is asked at most once per plan and only about plans that
  need it, recorded results were performed, a case that is executed or resolved has a valid plan,
  and a resolved one an authorized plan with all actions performed. And it adds what a thread knows
  of the calls it has made (`Worked`): an action it no longer has to send was sent or recorded, and
  at the gate it holds a plan nobody was asked about, since the id of that plan was never used
  before. From the first two, a rejected plan was never approved and does without no approval, so it
  was never authorized: it is inert by `EffectsAuthorized`.
- The refinement is proved step by step: every save maps to an action of `AutonomyPromise`, every
  other step to a stutter, except the adapter call, which is one of its effects.
- `ExecutionIsNeverDropped` needs to know who goes on with a plan. `AttendedInv` says that whenever
  a case is EXECUTING, its execution is settled or some request is responsible for it: one that will
  still read the stored case, or one that holds the stored version. A request loses its
  responsibility only by losing a race to a save, and a save that leaves the case EXECUTING is made
  by a request that goes on with it.
- `DeclinesAreRespected` is about the behaviours in which no step records a decline, or remembers a
  researched candidate, while some request works with a scenario it has looked up
  (`TellsNothingNew`); requests may overlap, race and die in every other way. Without that it is
  false, which `StaleScenario` shows, so the window it names is the only one. `InformedInv` says
  that the scenario a request works with is the one of the stored case, and that a plan about to be
  resolved fits the case it was read with; the conditional save does the rest.

TLC checked the three invariants on the instances of `Race`, `Research` and `Progress` before they
were proved.

`PlanningRunProofs` proves, for every family (finitely many people, any windows, places, travel
times and buffers), every deployment, any declines, and whatever models and providers answer:

| Theorem | Statement |
|---|---|
| `TypeCorrect` | `Spec => []TypeOK` |
| `GateAndResearchAgree` | `Spec => []GateAgreesWithResearch` |
| `AdoptedPlansAreSafe` | `Spec => []AdoptedDaysAreSafe` |
| `UntouchedWorkStays` | `Spec => OnlyTouchedWorkChanges` |
| `KeptTripsMeetCare` | `Spec => []PreservedTripsMeetCare` |
| `RunsFollowPromise` | every step of a run is a step of `PlanningPromise` or a stutter |

- `Working` is the type invariant with the budget of each phase: how many reasonings the verdicts
  and transmissions so far can have cost. That is what bounds a run by six reasonings.
- `GroundedInv` says that a run in progress works on the facts of its case as they are, less the
  decline it repairs, on the scope of that decline in the plan in force, and that the gate let it
  pass. Research asks the same question of the same facts, so it finds a candidate whatever the
  ranking is. `UntouchedWorkStays` follows from the scope and the validator's repair check.
- `DayInv` says of the plan in force that its segments are a chain from one end of the required
  window to the other (`Relay`, `Punctual`), and that each has somebody in charge who is trusted as
  demanded and can be there, each trip a driver who is able and free (`AdoptedDaysAreSafe`). That
  the driver is trusted, or not out today, is not proved since it is false. The validator asks
  this of neighbours only. That no tick is left out (`RelayCovers`) takes the latest segment that
  starts by that tick: if it ended before, its successor would be a later one. Without buffers
  neighbours meet exactly, so that a kept trip to the decliner's place has a kept or a repaired
  neighbour there.

`JourneyProofs` goes on from there, with the same generality:

| Theorem | Statement |
|---|---|
| `PruningIsExact` | `Spec => []MatrixIsExact` |
| `JourneysAreValid` | `Spec => []JourneysValidate` |
| `HiringIsEnough` | `Spec => []HiringSuffices` |

- What is reached by a time (`Reached`), what leads to the end of the day (`Leading`) and the paths
  onward from a primitive (`Onward`) are functions defined by recursion, whose value at one place
  depends on places of a smaller rank only. `FixedPointExists` proves that such a function exists,
  and so that each is what its definition says (`ReachedIs`, `LeadingIs`, `OnwardIs`). All else is
  proved from these equations by the first, or the last, place at which it would fail.
- `PruningIsExact`: a primitive whose start is reached and whose end leads on is on a journey, and
  a path from the start stays among the primitives that were kept (`PruneIsExact`).
- `JourneysAreValid` has three parts. A journey is a chain from the start of the required window to
  its end (`OnwardIsChain`), so a `Relay` that leaves no tick out. The validator has nothing
  against a primitive by itself, whole or clipped to what a decline affects, if it crosses no
  movable meeting (`PrimitivesAreOk`, `ScopedAreOk`). And a journey of a replan cannot do without a
  preserved segment (`JourneyKeeps`): every other primitive lies within the affected windows, and
  those are what the plan in force leaves uncovered without the preserved segments, so that nothing
  else covers the first tick of one.
- `HiringIsEnough` needs to know that whoever is hired still is a candidate that joins the day
  (`HiredJoins`): proposals, rejections and lost requests change neither the facts nor the scope of
  a run. Research asked that a primitive of theirs survives the pruning, so it is on a journey, and
  hiring makes nothing impossible that was possible (`HiringHarmsNothing`).

The assumptions are those the modules state of their constants (`TimeAssumption`,
`PersonAssumption`, `PlaceAssumption`, `OfferAssumption`, `HostAssumption`, `InputAssumption`).

`CaseStoreProofs` proves `AcknowledgedIsKept` and `VersionsIdentifyContent` of the DynamoDB
repository for any number of writers, from the invariant that a writer's copy is never newer than
the item and is the item when the versions agree.

`FamilySettingsProofs` proves `TypeOK`, `AcknowledgedEditsKept`, `FormsAreWhole`,
`RefusedMeansChanged` and the refinement `SettingsPromise` for any number of pages, calls, contents
and versions. The argument: a version never changes what it holds (`Kept`), so a profile in the
hands of a page or a request is one whole stored version (`Whole`) and stays one; the locations next
to it are those of some version from that one to the stored one (`Since`), since a request reads
them after the profile and versions only grow. An update reads
the profile after the page sent its version, so it has that version or a later one; if the put
finds the page's version stored, the profile read was this one, and the put is an edit of just the
stored profile. `Flight` says of each call what follows from where its handling stands.

`LiveProgressProofs` proves `TypeOK`, `ChannelsAreWindows`, `OneChannelPerCase`, `ShownIsOfTheCase`
and `ShownStays` for any number of cases, IDs, events and faults. None is inductive: whose progress
is followed under an ID is known to nobody in the beginning, since the page makes the ID up, the
backend learns the case from a log record or the end of the handler, and the page from the answer.
The invariant `IInv` therefore says that there is some assignment of IDs to cases (`owner`) such
that requests are sent under an ID of their case (`HandlersOK`), nobody else knows the case of a
start that was not answered (`StartsOK`), the ID and the case of a running request lead to one
channel (`RunningOK`), the page follows its case or the one it waits for (`PageOK`), an ID leads to
a channel of its case and an event is filed where its case leads (`LeadsOK`, `FiledOK`), and what is
on its way or shown is of the case of its channel (`OnTheWayOK`, `ShownOK`). A start extends the
assignment by two fresh IDs; all other steps keep it. For `ShownStays` a second invariant
(`CopiesOK`) says that within one life of the process an id names one event, wherever copies of it
are, and that the next number of a channel is not taken. `ProgressChannelProofs` has the lemmas on
the buffer: what `start` and `append` do to IDs and events, and that a channel stays a window.

`ProgressHasNoHole` of the same module proves `ShownHasNoHole`, with the invariant `HoleInv`. The
page and the requests know saved cases only, the page's request is sent under the progress it
follows, and none is followed while a reset is answered (`PersistOK`); what is on the wire is in
order and ends where the generator is (`WireOK`); the numbers of a channel follow the order in which
its events happened (`StampsOK`). Until the backend restarts, further: every channel is named by a
progress ID, a saved case has one, and the ID the page follows leads to it (`AtOK`); a snapshot has
all that is still kept up to its last event (`SnapshotsOK`); and what the page is shown is closed
downwards among what it wants of the channel: everything up to the last event of the stream is
shown, everything up to the generator's cursor is shown or on the wire (`FollowOK`). The stream is
opened after the last number merged, a snapshot closes the holes before its own last event, and what
a channel drops is older than all it keeps, so no step opens a hole.

TLC checked both invariants on the instance of `Stream` before they were proved.

Every invariant and action property of a passing run is the subject of a theorem; where a theorem
has a hypothesis (`DeclinesAreRespected`, `ExecutionIsNeverDropped`), it is stated above. Only
model-checked:

- The liveness properties `RequestsAnswered`, `ExecutionSettles`, `EventsArrive` and the end of a
  run in `PlanningPromise`: no fairness, no `ENABLED`.
- The findings, each of which TLC shows by a counterexample.

What the folds in `Cost` and the `CHOOSE` over candidates compute is not needed for the theorems.

## Plan

Done: the core (`RecoveryCase`, `RecoveryService`, `AutonomyPromise`, `RecoveryPromise`,
`CaseStore`) with its theorems, the refinement among them; planning in detail (`DayPlan`,
`FeasibleMatrix`, `BackupCare`, `DeclineImpact`, `PlanningRun`, `PlanningPromise`) with the safety
of adopted days, the matrix and its journeys, and the steps of `PlanningPromise`; the family
settings and the live progress with their theorems, `ShownHasNoHole` included.

What would come next:

1. `PlanningRun` as the planner of `RecoveryService`: a mapping from days to coverage, under which
   every day a run adopts is a replacement the service may be handed.
2. `JourneysValidate` with handoff buffers, once the primitives of a path overlap by them.

## Not modelled

The language models and their prompts (any proposal may come out), the tools they are given and the
plumbing of structured output; the wording of feedback, presentations of progress and the mapping to
response models; flat rates and warnings of the validator; the content of a family section; logging,
the frontend's other views, fixtures, demo scripts and deployment. They keep no state that the
properties depend on.
