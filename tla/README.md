# A verification development of AgentPact

AgentPact wraps an upstream browser agent (Skyvern) in a governance layer: an
action of the agent is classified, may have to wait for a human approval, is
authorized by a single-use permit, and crosses into the business system at most
once, under a durable *execution attempt* that a crash may leave ambiguous and a
*result probe* settles. The TLA+ here models that layer (`src/enterprise/`) and
the part of the engine that runs its browser work (`src/skyvern/`): the steps of
a task, the blocks of a workflow run, persistent browser sessions and the table
by which runs share browsers.

Every module is written from the code. Comments name the function an action
stands for; `PROJECT.json` maps every definition to its lines.

## 1. Inventory

| Component | State | Operations | Correct when |
|---|---|---|---|
| **Execution permits** `governance/permit_service.py`, `execution_guard.py` | `execution_permits` rows: status, binding, expiry | issue, validate, consume under a row lock | one permit authorizes one attempt, for its own action, before it expires |
| **Execution attempts** `governance/execution_attempt_service.py` | `execution_attempts` rows: AUTHORIZED, EXECUTING, UNKNOWN, CONFIRMED, FAILED; two unique constraints | authorize, mark executing / unknown, abandon, resolve | a key is never executed twice; statuses move forward; a verdict is true and final |
| **Persisted executor and recovery scan** `browser_loop/persisted_executor.py`, `applications/agent_run_recovery.py` | none of its own: three transactions around one browser call | `execute`, `recover_abandoned_persisted_executions` | a crash anywhere leaves nothing lost and nothing repeated |
| **Result probe** `domains/stripe_payment/live_browser.py`, `result_probe.py`, `m10_runtime.py` | `result_probe` column of the attempt | bind the Checkout Session, read the PaymentIntent, persist evidence, resolve | only a final PaymentIntent decides; a correlation is not lost; every ambiguous attempt can be settled |
| **Approvals and pending actions** `approval/`, `governance/pending_action_service.py`, `approval_orchestrator.py` | `approval_requests` and `pending_actions` rows, linked one to one | create, decide, expire, invalidate | both rows agree, one decision, nobody decides their own request |
| **Pause and re-observation** `governance/approval_pause_service.py` | native task and step status | pause, begin re-observation | a step waits for one approval; it resumes by spending it |
| **Approval recovery** `governance/approval_recovery_service.py`, `approval_recovery_scheduler.py`, `resume_execution_service.py` | the same rows; a cycle per worker | prepare, discover, claim, hand to the agent | an approval is taken up; one agent per resumption; a dead worker loses nothing |
| **Governed browser loop** `browser_loop/loop.py` and its contracts and ports | `_RunState` of one run | observe, decide, authorize, execute, verify, retry, report | an uncertain write is not repeated and is reported as UNKNOWN |
| **Agent Run service** `agent_runs/service.py`, `coordinator.py`, `routes.py` | the run as projected from admission, native pair, journal, approval and attempt | create, approve, reject, cancel, probe, submit input, resume | every command is idempotent and legal; the journal and the native pair agree |
| **Plan journal** `agent_runs/journal.py` | append-only events with sequence and digest chain | append, replay | replay accepts exactly what append produces |
| **Agent Run store and pause signal** `agent_runs/persistence.py`, `pause_signal.py`, `integrations/skyvern_agent_run_store.py` | the audit rows of pauses, native rows under lock | pause, lock, project | a pause is recorded once |
| **Task admission** `governance/admission.py`, `admission_persistence.py` | `governed_task_admissions` under a unique request id | admit | same request, same task; other body, conflict |
| **Classification, governor, capabilities, profiles** `governance/` | none | pure decisions | nothing unknown is allowed |
| **Failure classification** `governance/recovery.py` | none | a table | (no caller) |
| **Domain packs, planner, audit, auth, evaluation** | registry and write-only records | validation, rendering | outside the execution core |
| **Task execution** `skyvern/forge/agent.py`, `sdk/executor/background_task_executor.py`, `services/run_service.py` | status of the task row and of each step row; the nested calls of `execute_step` | launch, execute a step, retry, next step, speculate, conclude, clean up, report; cancel | steps run in order and within their budgets; a cancel stops the chain; a task nobody works on is final and reported once |
| **Workflow runs** `skyvern/forge/sdk/workflow/service.py`, `workflow/models/block.py` | status of the run; position in the blocks, in a loop, in a human interaction | set up, execute blocks, branches and loops, finally block, final status, clean up, report; cancel, continue | the results of the blocks decide the status; a stop is heeded; a run ends |
| **Persistent browser sessions** `skyvern/webeye/default_persistent_sessions_manager.py`, `cdp_ports.py` | the session table, the browsers in memory, the allocated ports | create, launch, close, clean up at startup | a port serves one browser; a row that says running has one |
| **Browser sharing** `skyvern/webeye/real_browser_manager.py` | `pages`, from runs and tasks to browsers | fetch, inherit, enter a task, clean up | a browser is open exactly while somebody has it |
| **Page automation, scripts, task v2, persistence, clients, front end** `skyvern/` | rows, artifacts | I/O, text generation, CRUD | outcomes of the above |

How they interact. An *Agent Run* command opens a transaction that locks the
native task, reads the journal and calls the approval and pause services in that
same transaction; then, outside of it, it calls the pack's adapter, which runs a
browser loop; the loop's executor port is the persisted executor, with
transactions of its own; a probe reads the business system between two
transactions. Next to the commands runs the approval recovery scheduler, and, where
the application deploys it, the scan for abandoned executions. All of them share only
the database; every coordination is a row lock, a unique constraint or a status
that a later transaction checks.

A task of the engine is run by one chain of calls, on its own or as a try of a block
of a workflow run, which is run by one chain of calls as well; cancel and continue
requests come from other handlers and write the same status columns. The chains get
their browsers from the table of shared browsers, which asks the session manager for
one when the run was given a session. The Stripe adapter and the governed loop do not
use these chains; a paused step of the engine enters `ApprovalRecovery` and comes back
through it.

What is hard, then, is what lies between two transactions: crashes, another
process, a submission under way that nobody can recall, and reads made without a
lock and acted on later. A recurring detail matters in four places: a session
that already holds an object does not refresh it on a later `SELECT ... FOR
UPDATE`, so the status the locked check sees is the one the earlier unlocked read
saw. In the engine nothing is locked at all: every handler validates what it read, if
it validates, and writes after further awaits. The hazard list in `PROJECT.json` names each such place at its line.

## 2. Modules

| Module | Models | Reads as |
|---|---|---|
| `GovernedWrite` | the promise, per idempotency key | submitted at most once, one true verdict, but for objects somebody was told do not exist |
| `ExecutionBoundary` | permits, attempts, executor, scan, probe | the core |
| `ExecutionBoundaryProofs` | its theorems | |
| `ResultProbe` | the `result_probe` column of one attempt | refines the read in `ExecutionBoundary`'s probe |
| `ResultProbeProofs` | its theorems | |
| `ApprovalRecovery` | pauses, decisions, recovery workers, entry of the agent | |
| `ApprovalRecoveryProofs` | its theorems | |
| `BrowserLoop` | one run of the loop | |
| `BrowserLoopProofs` | its theorems | |
| `RunLifecycle` | the promise of a run to whoever follows it | phases in their order, one effect |
| `AgentRun` | one run from its admission to its end: commands, journal, native pair, approval, attempt, pause signal | composes what the other modules detail; implements `RunLifecycle` |
| `AgentRunProofs` | its theorems | |
| `TaskSteps` | one task of the engine, its steps and its cancel requests | |
| `TaskStepsProofs` | its theorems | |
| `WorkflowRun` | one workflow run, with cancel and continue requests | |
| `WorkflowRunProofs` | its theorems | |
| `BrowserSessions` | the sessions of one process, their ports and browsers | |
| `SharedBrowsers` | the table of browsers that runs and tasks share | uses a session's browser as `BrowserSessions` leaves it |
| `BrowserProofs` | the theorems of both | extends both, which is why the second has names of its own (`SharedSpec`, `registered`, `live`) |
| `MC...` | what TLC needs of each: symmetry and the values of constants | |

**ExecutionBoundary.** `Calls` are invocations of `execute` (a retry or a
restarted worker is another one), so an attempt is named by the call that inserted
it. One action per commit point: `LockPermit` (the select of the key and the lock
of the permit), `CommitAuthorized` (the insert, which the unique constraints may
refuse), `CommitExecuting`, `InvokeBrowser`, `BrowserReturns`, `CommitUnknown`;
`Crash` at any of them; `RecoverAbandoned` on any set of stale rows, since
`skip_locked` may hide some, dead or alive. The business system is external: a
submission in flight lands or is lost whenever it likes, and an open object may be
canceled. A probe has three steps, because it loads the row without a lock and
`_transition_attempt` then checks the loaded copy. It reads the final state of the
object (`ProbeRead`), or gets a 404 (`ProbeReadAbsent`), which `result_probe.py:205-212`
makes a verdict, NOT_CONFIRMED, at any time: nothing ties the answer to what becomes of
the submission. `denied` is history, the keys whose object a probe was told does not
exist. The guards are those of
`_transition_attempt`, `consume_permit_model` and `authorize_execution_attempt`;
`issue_permit`'s decision is abstracted to the binding it is issued for.

**GovernedWrite.** For each key: `submitted`, the business object, the outcome.
`ExecutionBoundary` implements it with `submitted` read off the submissions and
`outcome` off the attempts of the key's calls. A denied key (`Deny`) is exempt from its
promise: it may count as failed while its write is under way, and be confirmed later.

**ResultProbe.** `ExecutionBoundary` lets a probe find its business object; the
code finds it through a column that the executing request and every probe write
in separate unlocked read-modify-write transactions. Here one attempt is followed
from the browser call on, with the column as "null", the Checkout Session alone,
or evidence about the exact PaymentIntent. A probe begins only when `Correlated`, the
column leads to a PaymentIntent, and when it is `Offered`: `service.probe` asks for
projection UNKNOWN, which a run has after its own call has reported (`Report`, the native
rows and then the journal) and while no pause signal hides it (`RecordSignal`). A call
that crashed reports nothing, and nobody reports in its place.

**ApprovalRecovery.** A task with its governed step; a pause is a pending action
and the approval request linked to it, inserted together. `Requester` is the user
recorded with the approvals of a task, who may not decide them. Users load an approval
and decide it in two steps (`approval/routes.py` authorizes on the unlocked
object). A worker's cycle is prepare, discover, then for each task claim, load,
validate, start, and the agent's end or next pause, each a step of its own because
each is a separate transaction or read.

**BrowserLoop.** Ports answer or raise freely; each event emit may cut the run
short when `failing`. `unsettled` and `spent` are history the code does not keep:
whether a write may have had its effect and was not verified, and whether the
observation in hand was already acted on.

**AgentRun.** The plan has one step (the Stripe adapter's), and its native task is
the root row, so the row that every command locks is also the row the adapter sets
status on; task and step are one status, `pair`. `cancel` and `record_pause_signal`
are one transaction and one action each. `reject` and `approve` are two steps,
because they load the pending action and the approval without a lock and decide on
the loaded objects, which the generic route (`RouteDecides`) does not wait for; the
root lock they hold in between is `lock`. `approve` then goes on outside its
transaction: `Advance`, `Execute`, `Submit`, `Settle` are the commits of the
executor and `Suspend`, `Reflect` those after it. `create` is `Create`, `Admit`,
`Initialise`, `AskApproval`; `probe` is `Probe`, `Resolve`, `Complete`, `Conclude`.
The projection (`_project_locked`) is one predicate per state, and `Conflict` is
what none of them covers. The browser's side is `ExecutionBoundary`'s, seen through
the status of one attempt. Abstracted: roles and the check of the requester, the
permit before its consumption, and the TTL of the contract, which is one of the
failures in the second disjunct of `Advance`.

**RunLifecycle.** A phase (the latest transition of the journal), the one effect of
the run, and whether it was submitted. `AgentRun` implements it with `phase` read off
the journal and `effect` off the attempt, on which AUTHORIZED and EXECUTING are the
same. What a pause signal may do to a run is part of the promise and named there: a
signalled run may be canceled in any phase before its effect, and an effect that was
approved may then still take place and be reported in the canceled run (finding 2).
Without a signal an effect takes place in an approved run only, and no phase
follows a stop. A verdict may be revised (`Revise`), because a second probe may have
loaded the UNKNOWN row before the first resolved it, and a 404 contradicts what the other
read: a completed plan can keep an attempt that ends FAILED.

**TaskSteps.** `execute_step` calls itself for a retry and for the next step inside
its own `try`, so `frames` is the stack of those calls and an exception unwinds it:
`Handle` is one `except` clause, taken again by every call around with the step of
that call. `Launch` is the executor, `Enter` the checks of the task and its run,
`Begin` and `Act` the step, `HandleFailedStep` and `HandleCompletedStep` what
follows from its status. With parallel verification the next step is created
before the goal is judged (`Speculate`), and then run or handed to a
background cancellation (`GoalReached`, `GoalNotReached`, `CancelDiscarded`).
`update_task` is two actions, since it validates a status it read without a lock and
writes it later: `verdict` (for a request: `canceling`) is in between. `CleanUp`
reads the task again and `Send` reports it. `StopRun` is the workflow run
being canceled or marked as timed out, and `BlockFailsTask` what a block writes
when its task raised. `late` counts steps that started while the task or its run was
stopped.

**WorkflowRun.** `Start`, `SetUp`, `Prepare` set the run up (an exception in the middle of `SetUp` leaves it as it
is, without cleanup or report); `Enter` reads the
status before a block, `Begin` starts it; `Work`, `WaitForHuman`, `EmptyLoop` and
`LoopBlock` return its result; `Judge` decides what it means and which block follows;
`After` reads `pre_finally_status`, `Reopen` marks the run as running for the finally
block, `Finalize`, `CleanUp`, `Send` end it. A workflow is chosen in `Init`: the kind
of each block and its `continue_on_failure`; the branches of a conditional block are
any later block, and so is the successor of a block beside one. A loop keeps its
iteration and its position, with the two limits of `execute_loop_helper`; a human
interaction inside it pauses the run and waits as one outside does (`LoopHuman`).
`stopped`, `disturbed`, `results`, `late` are history; `late` is the set of blocks that
were started, or inside which a block was started, while the status said stopped.

**BrowserSessions.** A launch is `Allocate`, `Open`, `Register`, `SetAddress`,
`MarkRunning`, `EndLaunch` (the row is refreshed after the commit of its status, inside
the same `try`), and `FailLaunch`, `EndFailedLaunch` after an exception at any of
them; a close is `StartClose`, `Forget`, `StopBrowser`, `MarkClosed`, `Archive`, and
several may be in flight for one session. `UseSession`, `RegisterOwn` are a run that
is given the session and, finding no browser, registers its own. `Restart` loses the
memory of the process, and `CompleteStale`, `ArchiveStale` are the two transactions of
the cleanup at startup for each row. A port is
allocated when nobody has it in the set and it can be bound, so that the
browser still listening on it protects it.

**SharedBrowsers.** A run that has no entry fetches a browser. A fetch with its session
is `Look`, then `TakeFound` or `CreateForSession`; a fetch without one, which a run with
a session makes too (`service.py:1319`, `:1665`), is `Inherit` from the run above, or
`FindNone` and `CreateOwn`. Tasks enter under the key of their own (`EnterTask`), and the
cleanup of a run takes its entries out one after the other (`CleanUpEntry`, each with an
await) before it closes what nobody else holds (`EndRun`). A run starts another inside a
trigger block (`Trigger`) or a task-v2 block (`StartTaskV2`) and waits for it; the second
kind ends without a cleanup (`EndTaskV2`, `task_v2_service.py:500`). `own` is history: the
browsers created by a fetch without a session.

## 3. Runs

| Run | Instance | Shows |
|---|---|---|
| `boundary_safety` | 2 calls, 2 keys, 2 permits, 2 bindings, 2 probes | at most one submission per key, a permit spent once, verdicts that are true and, by the refinement `GovernedSpec`, final, but those on denied objects |
| `probe_row` | 2 probes, 2 faults | the row never says what is not so (but FAILED after a 404), keeps its PaymentIntent, and an attempt with an offered, correlated probe is settled |
| `probe_after_crash` | 2 probes, 1 fault | finding: the attempt of a crashed call is never settled |
| `approval_pauses` | 2 tasks (one requested by an approver), 2 pauses, 2 approvers, 1 worker, batch of 1, 1 crash | decisions agree with the pair and are final, a resumption spends one approval of somebody else, every approval is taken up and every resuming step gets an agent, unless it is canceled or starved by canceled ones |
| `loop_budgets` | 4 iterations, 3 retries | no replay, uncertain writes reported as far as the code keeps it, every run reports |
| `agent_run` | 3 calls, 2 crashes, pause signals | `LifecycleSpec`, the refinement; what is submitted was approved; a stopped run stays stopped and the journal stays replayable while no pause is signalled (`UnsignalledStopHolds`); conflicts have a cause; an uncertain attempt is reported before it is probed |
| `agent_run_cancel` | 2 calls, pause signals, no crash | finding: a canceled run submits |
| `task_steps` | 3 steps, 1 retry, 2 cancel requests, with and without a run | steps run in order; a cancel lets one more step start at most; what nobody works on is settled and reported once; the chain returns |
| `workflow_run` | every workflow of 2 blocks and a finally block, loops of up to 3 values over 2 blocks with limits of 2, 1 stop, 2 continues | a stop that stands leaves one block in which anything still starts; the results decide the status; a run ends |
| `workflow_stopped` | the same | finding: a stopped run executes its finally block |
| `browser_sessions` | 2 sessions, 2 closes in flight, 2 ports, 1 browser of a run at a time, 1 restart | two sessions never use one port but in the named case; an uncompleted row that says running has a browser but in the named cases |
| `shared_browsers` | 1 session, 3 runs, 2 tasks of each | a browser created without a session is open under every entry that has it, and otherwise closed but in the two named cases; a run keeps its browser until its own cleanup |

Why the bounds are enough. Two calls choose their key, permit and binding freely,
so one run holds a shared key, a shared permit, a substituted binding and two
unrelated writes; every safety property of the boundary relates at most two calls,
and the proofs lift all of them to any number. Ages and lives stop where no
comparison can tell them apart (`MinimumAge`, `Ttl + 1`). Two probes are needed
for one to act on what the other outdated. Two pauses allow a second round of
approval on a task as well as one on each of two tasks; the batch holds one row, so that the other
has to wait for it, and starves when it is that of a canceled task. Three calls are a creator or
approver, one that contends with it and one that probes or dies; a run has one pause
row in the code too. `MaxCrashes` and `MaxFaults` bound only the
number of failures, which may come at any step. Four iterations with three retries
let either budget run out first. Three steps are a first, a middle and a last order,
the last being the one that is not followed by another; one retry is a first and a last
attempt, and the second cancel request meets what the first left behind. Two blocks
with a finally block hold every relation of two that `Judge` tells apart (a result
that ends the run, one that does not, a branch that skips a block), and a loop over
three values with a limit of two is cut short, while one over two is not. Two
continue requests release two human interactions, or one interaction and what follows
it. Two closes are the least that release a port twice, and a second session is
the one that gets it; one browser of a run at a time (`MaxRuns`) is what a launch, a close
or a restart of that session can meet. Three runs are one that triggers another that triggers a third,
or two under one parent; two tasks are entries that a cleanup meets before and after
its own. Every safety property that the passing runs check is proved for all bounds
(section 6). Symmetry is used in `boundary_safety` and `browser_sessions`, which check
no liveness.

`CHECK_DEADLOCK FALSE` is set throughout: a settled attempt, a decided pause, a
finished run or a closed session has nothing left to do.

## 4. Fairness

- `ExecutionBoundary` has none: all of its properties are safety. The scan for
  abandoned executions is an action that may or may not happen, since no process of
  this repository runs it ("The application worker or scheduler owns when this hook
  runs", `applications/agent_run_recovery.py:25`), unlike the approval scheduler,
  which `skyvern/forge/api_app.py:113` starts. That every attempt leaves AUTHORIZED
  and EXECUTING is thus a property of a deployment, not of this code.
- `AgentRun`: a call that has begun goes on until it ends or dies. No client is
  obliged to call anything, and the scan need not run.
- `ResultProbe`: a request that is not cut short goes on, and the operator repeats
  the probe for as long as it is legal, which is part of `BeginProbe`'s guard
  (`Offered`): fairness gives a crashed or signalled run no probe. A 404 and a failed
  read are not fair, and failures are bounded by `MaxFaults`. That the probe is offered
  and its PaymentIntent settled is a premise of `BoundSettles`, not an assumption.
- `ApprovalRecovery`: `approval_recovery_scheduler` cycles for ever and every
  await within a cycle returns, so an agent's step ends. Nothing is assumed of
  users, and cancellation may come at any time.
- `BrowserLoop`: every call of a port returns or raises. The loop sets no timeout
  of its own; the Stripe adapters do (`live_browser.py:244`, `:444`).
- `TaskSteps` and `WorkflowRun`: the one chain of calls goes on, because every await
  in it returns or raises; a human interaction has a timeout
  (`workflow/models/block.py`, `HumanInteractionBlock.execute`). Nothing is assumed
  of requests, nor of the background cancellation of a speculative step.
- `BrowserSessions` and `SharedBrowsers` have none: their properties are safety.

## 5. Findings

Each is a run that TLC must find violated; the quoted lines are in `PROJECT.json`.

1. `probe_after_crash`: the correlation a probe needs is written after the browser has
   returned, and the run offers a probe only after the call itself has reported; an
   attempt left by a crash before either is UNKNOWN for ever.
2. `agent_run_cancel`: `record_pause_signal` asks nothing of the state of the run. A
   signal that allows CANCEL, recorded while an approve is between its commit and its
   attempt, makes `cancel` legal; the advance then submits for a canceled run and
   appends to its ended journal, which no later read accepts.
3. `workflow_stopped`: whether the finally block is skipped is decided on the status
   read after the blocks. A cancel that comes while the last block fails is
   overwritten by `failed`, and the finally block runs for a run the user stopped.

Read in the code and not made a run of their own:

- A 404 of the payment provider is NOT_CONFIRMED, "submission did not land"
  (`result_probe.py:205-212`), and so FAILED. It says that the PaymentIntent does not
  exist when it is asked for, not that a submission under way, or another answer of the
  provider, cannot come. Two probes that loaded the UNKNOWN row can then disagree and the
  last has its way, also after the plan was completed on the first. The properties of
  verdicts (`TruthfulVerdict`, `VerdictFinal`, `RowTruthful`, `GovernedWrite`) except the
  objects a probe was told do not exist.
- The recovery scan takes the oldest approved pauses under a `LIMIT` and skips,
  unchanged, those whose task no longer waits (`approval_recovery_service.py:30-58`):
  pauses of canceled tasks fill the batch and later approvals starve; the same holds for
  resuming steps of canceled tasks. `ApprovalTakenUp` and `ResumingStarts` except just
  that (`ApprovalStarved`, `StepStarved`), and are violated without it.
- The claim of a resuming step leaves it `resuming` (`resume_execution_service.py:96`),
  so that a second worker, where two processes run the scheduler, claims it too and
  both start an agent. `approval_pauses` has one worker.
- `approve` decides on objects it loaded without a lock, over a decision of the
  generic route committed in between (`agent_runs/service.py:562`); `AgentRun`'s
  `RouteDecides` is that route, and `SubmittedWasApproved` still holds, since what
  `approve` writes last is an approval.
- A crash between the UNKNOWN commit and the suspension leaves a run that offers no
  command (`m10_runtime.py:717`), the second half of finding 1; `UncertainReported` holds
  unless a call dies.
- A late decision writes EXPIRED and is rolled back (`approval/routes.py:125-137`), so
  no row is ever EXPIRED, and a run whose approval has expired goes on offering approve
  and reject, which both fail.
- A probe's evidence is committed without looking at the status again
  (`live_browser.py:1226-1273`), over that of a resolved attempt.
- A write that raised and whose terminal event cannot be emitted is reported FAILED
  (`loop.py:487-489`).
- A pause signal on an UNKNOWN run hides its probe for ever, since no adapter has
  `resume_run`, and a signal with a cancel on a rejected run ends its reads as well.
- An exception that follows a completed step leaves the task `running` and reports
  it so: `fail_task` fails the step first, which a completed step refuses
  (`skyvern/forge/agent.py:934-1004`). `Settles` excepts it by name. Launching a
  task writes running over a cancel (`background_task_executor.py:46`), a cancel
  and the conclusion overwrite each other (`agent.py:3932-3971`), and a block writes
  failed over canceled (`workflow/models/block.py:724`).
- No `mark_workflow_run_as_...` asks for the status it replaces
  (`workflow/service.py:3167-3351`): the start and the pause of a human interaction
  write over a cancel, a continue that comes late leaves a finished run `running` for
  ever (`agent_protocol.py:1852`), and any status but paused counts as an approval of
  the human (`block.py:4051`). An exception in the set-up of the blocks leaves the run
  `running` and reports that. A loop checks its step limit before the result of
  the block (`block.py:1862`, `:1890`), so that a canceled block at the limit counts as
  failed, and reads no status between its blocks, so that any number of them start after a
  stop: `StopsHeeded` counts the loop as the one block. It says nothing once a stop was
  written over, since no later block can know of it. An exception between the two
  handlers of the set-up (the parameters, creating a session) leaves the run `running`
  and reports nothing. `BlocksDecide` excepts what
  somebody else wrote (`disturbed`) and an escaped exception.
- A close concurrent with a launch leaks the browser and the launch writes `running`
  over the closed row (`default_persistent_sessions_manager.py:242`), which stays
  completed and says running with or without a browser; a launch that fails in the refresh
  after the commit of its status (`agent_db.py:5126`) closes the browser of an uncompleted
  row that says running; a crash between completing a row and archiving its address
  leaves a unique address that makes every later launch on that port fail; two closes give
  the port back twice (`:466`), after which another session may have it while the first
  uses it (`lost` in `PortsApart`); a failed launch leaves its browser registered under
  a port that is free again (`:229`, `:250`); the browser that a run registers replaces
  the launch's, whose port is never given back. A closed session can be given to a run
  again. None of these is excluded from the model: the properties say what holds in
  their presence.
- The run of a task-v2 block is never cleaned up (`task_v2_service.py:500`): its entries
  stay in the table, the run above finds its browser shared
  (`real_browser_manager.py:397`), and nobody ever closes it. A run with a session that
  fetches without it (`service.py:1319`, `:1665`) creates a browser of its own or enters
  one for the run above, and the cleanup of a run with a session closes none: unless a run
  without a session above has it too, it stays open. `OwnBrowserLives` names both
  (`LeftOpen`).

## 6. Proofs

Checked by TLAPS, for every value of the constants that satisfies the named
assumptions of the modules (`BindingAssumption`, `TtlAssumption`,
`MinimumAgeAssumption`, `NoCallAssumption`, `MaxFaultsAssumption`,
`SizeAssumption`, `BudgetAssumption`, `CallAssumption`, `BoundsAssumption`,
`SessionsAssumption`, `RunsAssumption`): any sets of calls, permits, keys, probes,
tasks, users and sessions, any budgets, any workflow, any forest of runs. Every
invariant and every action property that a passing run checks is the conclusion of
a theorem, and so are the two refinements. One theorem has a hypothesis besides,
`OneWorkerAgrees`.

**ExecutionBoundary** (`TypeCorrect`, `OneSubmission`, `PermitsSpentOnce`,
`VerdictsTrue`, `VerdictsFinal`, `Refinement`). None of the properties is
inductive alone. `IInv` adds:
- `KeyHeldOnce`, the unique constraint: at most one attempt per key;
- `StageAgreement`: where a call is determines whether its attempt exists and its
  submission may have left, and an AUTHORIZED attempt never has left. This is what
  lets the scan fail an AUTHORIZED attempt of a call that is alive: the call still
  has to commit EXECUTING, and finds the row moved;
- `BusinessAgreement`: a FAILED attempt has a canceled object, or an open one and a
  call that cannot submit any more, or its object is denied; a succeeded object was
  written by a submission of the key;
- `VerdictAgreement`: a verdict on its way to the row is still true of the object,
  as final business states do not change, or FAILED on a denied object. Two verdicts for
  one attempt that were read off the object can only be the same, so that the probe's
  unchecked last write matters for denied objects alone; for these it may revise the
  verdict, and the theorems say so.

`OneSubmission` follows from `KeyHeldOnce` and `StageAgreement`; `VerdictsTrue`
from `BusinessAgreement`; `VerdictsFinal` from `VerdictAgreement`, action by
action; `Refinement` maps each step to one of `GovernedWrite` or to a stutter.

**ResultProbe** (`TypeCorrect`, `RowsTruthful`, `BindingLasts`). `RowTruthful` needs
`EvidenceTruthful`: what a probe carries stays true while it travels, only
conclusive evidence reaches the status, and a 404 among it is recorded as `denied`. `BindingKept` needs `BoundFirst`: a request that still
carries an unbound correlation finds the column null, and no probe starts on a null
column nor before the request has reported, so that nothing bound is ever overwritten by what was read before.

**ApprovalRecovery** (`Typing`, `RowsConsistent`, `DecisionsFinal`, `ResumptionSpends`,
`OnePauseAtMost`, `OneWorkerAgrees`). `HandsOff` says that a worker between two steps
of a hand-off has the task it hands off. `DecisionConsistent` and `RowsAgree` are
inductive for any number of workers, and give the two action properties step by step:
only `Decide` writes a decision, on a pause its lock shows as pending, and only
`PrepareApproved` begins a re-observation, with the approved pause of the step it
locked.

`PausesAgree` is the conjunction of two parts that hold for any number of workers and
two that do not. `DecisionConsistent` is one of the first. The other is
`OneActivePause`: a step has one active pause at most, and none while it is resuming.
It survives two workers on one step because nothing else makes a step resuming than
spending its only active pause, and because a pause is created on a running step
without another, whoever's Agent creates it. What two workers do break is
`ActivePauseWaits` and `NoAgentDuringPause`: one Agent pauses the step, the other
goes on and writes its own status over it. Both need `WorkerOwnsStep`: where a worker
is in its cycle tells the status of the step it works on. That holds for one worker
and not for two, since the claim leaves the step as it was (section 5):
`OneWorker` is the hypothesis the code needs, met by a deployment of one process.

**BrowserLoop** (`LoopTypeCorrect`, `LoopNeverReplays`, `LoopReturnedIsUnknown`,
`LoopCheckpointReported`). `UncertainPlaces` says that an uncertain write is on
its way to its verification or the last thing the run did, `FreshToAct` that an
observation is fresh wherever an action can follow, `PendingUnsettled` what a
pending result is; the four are inductive together with the properties.

**AgentRun** (`TypeCorrect`, `ApprovedBeforeSubmitting`, `StopHolds`,
`JournalReplays`, `VerdictAfterReport`, `ConflictsHaveCauses`, `Refinement`). `IInv` adds:
- `CallsExclude`: whoever decides holds the root row, and one call creates;
- `DecisionsRead`: what a deciding call has read still holds but for the generic
  route, so that the journal cannot move under it;
- `ActsApproved`: an advance under way, an attempt or a submission means an approval
  that is spent and a pair that no longer runs. With the lock this is why cancel,
  which needs a running pair, and reject, which needs an undecided action, never
  meet an advance;
- `JournalFollows`: a probe under way on an uncertain attempt has its report, and an
  ended plan a confirmed attempt;
- `Unsignalled`: without a pause signal the journal is replayable, and a stop in it
  means a canceled pair without attempt or advance.

The premise `signal = NoSignal` of `UnsignalledStopHolds`, and of
`UnsignalledJournalReplays`, which is one of its parts, is the one `agent_run_cancel`
shows to be needed.

`ConflictHasCause` is a statement about every projection, so its invariant says what each
latest transition implies of the native rows. `CauseInv` is inductive relative to
`IInv`:
- `OneAdvance`: one call at most advances the run, because an approve that commits
  spends the approval another one would need; the attempt is where that call, or the
  scan, has left it;
- `RowsFollow`: pair, action and attempt are those of the latest transition, and a
  reported uncertainty means that nobody advances any more;
- `EffectsInHand`: unless a call has died or a signal was recorded, an attempt that the
  journal does not show yet, and a confirmation that has not ended the plan yet, are
  in the hands of a call that will report them.

`Refinement` has no such premise: it says what is left of the order of phases when a
signal comes at any time. Each action is a move of `RunLifecycle`, a step of its
effect, or a stutter. `IInv` and `CauseInv` do not say enough for that, because they are
silent about the journal of a signalled run; `LifecycleInv` adds:
- `PairPhase`: a running pair is in the phase of its admission, a waiting one in that
  of its approval, so that `AskApproval` and `ApproveCommits`, which test the pair, move
  from the right phase;
- `AdvanceUnderway`: an advance follows the approval it rests on, or a cancellation
  that a signal allowed, and no third transition, until it reports;
- `SubmitsOnce`: a call that has not passed `Submit`, and an attempt that is not yet
  executing, mean that nothing was submitted, so that what is given up never left.

**TaskSteps** (`Typing`, `StepsInOrder`, `CancelIsHeeded`, `ChainSettles`). `TypeInv` adds that the
frames are within the budgets, which a retry and a next step check before they call;
the speculative step alone may lie one order beyond. `OrderInv` adds:
- a step that ran, and every frame, is `Entitled`: the attempt before failed, an
  attempt of the order before was completed. Entitlement lasts, because failed and
  completed steps never change (`Lasting`);
- `Latest`, `LatestCall`: while the chain works, no step that ran and no outer call
  is beyond the current one, so that the next is new; `StatusAt`: the current step has
  the status the place implies;
- a discarded step never ran and is no frame, so its late cancellation harms nothing.

`CancelInv` says that a late step is the last thing the chain works on: whatever place
follows, the task or the run is still stopped, and the entry of the next step sees it.

`Settles` is about the end of the chain and its invariant about every place before:
- `OpenInHand`: a step that is created or running, and not handed to a background
  cancellation, is the one the chain works on, the one it created ahead, or the one
  whose exception it handles;
- `EndsSettled`: inside the `try` block an exception comes to the call it is
  from, whose step is still the latest, so that `fail_task` is either told of
  the last completed step or fails the task; a write that is refused is refused by a
  final task; and what is settled stays so however many calls an exception of the
  cleanup or of the webhook unwinds;
- `ReportsEnd`: whoever has sent the webhook ends the chain, also when recording that it
  was sent raises.

**WorkflowRun** (`Typing`, `StopsAreHeeded`, `ResultsDecide`). `StopsInv` reserves one
stop for a block that is about to start, or to start another inside it, on a stopped
run, which the status was not at its `Enter`. `DecideInv` has `Shape`, where the loop, the finally block and the reports
may be at each place, and `AtPlace`, what the status is there as long as nobody else
wrote: running or paused with results that are all clear while blocks are
executed, in agreement with the results after `Judge`, and `pre` in agreement
with them from `After` to `Finalize`, whatever the finally block does to the status.

**BrowserSessions** (`SessionTypes`, `PortsStayApart`, `RunningBacked`). `LaunchOrder`
says that a launch happens once and in order, and what the memory, the process, a
closer and the row know of it; `PortHeld` that a port in use is still allocated, or
its browser listens on it, which is what `Allocate` tests, unless somebody else
released it. `RowsBacked` extends `RunningHasBrowser` to rows that are about to be
running: from `Register` on, the browser is in memory and open, or a close of the
session is under way, which completes the row, or the launch has failed.

**SharedBrowsers** (`SharedTypes`, `SharedInvariance`, `OwnBrowsersLive`,
`BrowserKept`, about its own specification `SharedSpec`). The invariant says who
may still hold a browser while a cleanup is under way: `RunTree`, that a run waits for
the one run it started, and a run inside one with a session has a session;
`FetchesFirst`, that nobody enters a browser for a run that still fetches one, nor, if
the fetch has no session, for the run above; `Fresh`, that a run without an entry has
created no browser yet; `OwnApart`, that a browser created without a session is never a
session's, nor in a hand but to be closed; `HeldAbove`, that what a run with a session
has of such browsers the run above has too, or nobody may close it; `Emptied`, that a
cleanup leaves no entry of its run.

**Only model-checked.** All liveness (`BoundSettles`, `ApprovalTakenUp`,
`ResumingStarts`, `Reports`, `UncertainReported`, `ChainReturns`, `RunEnds`), which is
out of the prover's reach, and the three violations of section 5.

## 7. Not modelled

- `confirm_execution_attempt`, `fail_execution_attempt`, `consume_permit` and
  `suspend_unknown_execution_for_probe` have no caller outside tests and fixtures.
- The contents of observations, digests, messages and audit records; Playwright
  and HTTP I/O, which appear as answers and failures of a port.
- Wall-clock time beyond the two comparisons that read it.
- Of the Agent Run service: `submit_input` and `resume`, which end in 503 for every
  adapter of the repository (none has `resume_run`), plans of several steps and
  their replanning, user roles, and the native cancel endpoint or the approval
  recovery scheduler acting on the task of a plan (both behind flags that are off by
  default). Events, traces, reports and lists only read.
- Domain packs, the planner, authentication, audit rendering and evaluation:
  validation of data or rendering, with little state of their own.
- Of task execution: what happens inside a step (scraping, prompts, actions), any
  outcome of which `Act` allows; `EXECUTE_ALL_STEPS=false`; the context provider of
  native actions; the exceptions that one chain cannot raise
  (`StepUnableToExecuteError`, `TaskAlreadyTimeout`). A finished download is a
  "completed" verdict.
- Of workflow runs: the definition of workflows and their parameters, cached scripts,
  and the inside of block types other than loops, conditionals and human interactions.
  The webhook of a cancel request is sent by the request itself. `timed_out` is written
  for a run by `task_v2_service.py:1742` and by the infrastructure, which is `Stop`.
- Of browsers: occupation and renewal by timeout, profiles, videos and traces, tasks
  and scripts without a workflow run, a run of another browser's address
  (`close_browser_on_completion` is true, its default), a close that times out
  (`real_browser_state.py:438-451`), a cleanup cut short by `tracing.stop`, and an `ENV`
  other than local, which archives no address and closes nothing at startup.
- Page automation, script generation, task v2, the CRUD layer, the generated clients
  and the front end of Skyvern.

## 8. Plan

Done, in order: `GovernedWrite` and `ExecutionBoundary` with their proofs;
`ApprovalRecovery`; `ResultProbe` and `BrowserLoop` with their proofs; `AgentRun` with
its proofs, then `RunLifecycle` and that `AgentRun` implements it; `TaskSteps` and `WorkflowRun` with their proofs; `BrowserSessions` and
`SharedBrowsers`; the proofs of `ApprovalRecovery` and of the two browser modules. To
come:

1. **TaskV2**: the planner loop of `task_v2_service.py` over a `WorkflowRun`, with its
   own time-out and cancel.
2. **PlanJournal**: `replay_plan_journal` for plans of several steps, with probe
   resolution and suffix supersession, as a fold over bounded event sequences
   against what `append_agent_run_transition` appends.
3. **AgentRun** with the approval recovery scheduler and the native cancel endpoint
   switched on, as two more actions.
4. **Admission**: idempotent creation under the advisory lock and the unique
   request id.
5. **Governance decisions**: classification, governor and capabilities as
   operators against a reference definition over all bounded inputs.

Theorems to come: that `TaskSteps` implements what `WorkflowRun` assumes of a block
that runs a task, which needs an abstract block that both are stated over.
