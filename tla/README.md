# Wise_Guardian_Star: a TLA+ model of the closed-loop security platform

The repository is a situational-awareness platform: a FastAPI backend with
SQLAlchemy and PostgreSQL, Celery workers on Redis, a host runner installed on
managed machines, a web client and a mobile client. Its core is the loop
"discover, identify, verify, remediate, observe". This directory holds the
TLA+ modules of that core, the TLC configurations that check them and the
TLAPS proofs about them. Paths below are relative to
`src/situational-awareness/backend/app/`.

| module | what it is | checked by | proofs |
|---|---|---|---|
| `TaskRun` | a `task_run` row, its Celery task, cancel, clear, stale sweep | `MCTaskRun` | `TaskRunProofs` |
| `TaskLifecycle` | what readers of task rows may rely on; `TaskRun` implements it | `MCTaskRun` | `TaskRunProofs!Refinement` |
| `Remediation` | remediation sessions of a host, approval, dispatch, re-verification | `MCRemediation`, `MCLive` | `RemediationProofs` |
| `HostRunner` | installation, registration and tokens of a host runner | `MCHostRunner`, `MCLive` | `HostRunnerProofs` |
| `CampusDiscovery` | a discovery job over the runners of its zones | `MCCampusDiscovery` | `CampusDiscoveryProofs` |
| `AgentSession` | chat sessions of the agent: turns, plans, approval, orchestration | `MCAgentSession` | `AgentSessionProofs` |
| `AgentTurn` | what one conversation may start, and who follows it up | `MCAgentTurn` | `AgentTurnProofs` |
| `TokenRotation` | the refresh tokens of one login and their rotation lock | `MCServices` | `TokenRotationProofs` |
| `RiskFindings` | overlapping verifications of one asset and its findings | `MCServices` | `ServicesProofs` |
| `GatewayConfig` | the model channels and every process's copy of them | `MCServices` | `ServicesProofs` |
| `LocalScan` | discovery of a network by the platform's own workers | `MCServices` | `ServicesProofs` |
| `RpmVersion` | the comparison of rpm versions, as the loop the code runs | `MCServices` | `ServicesProofs` (types) |
| `HostAccess` | the SSH credential of a host and the work done with it | `MCServices` | `ServicesProofs` |
| `ModelCall` | one call of the language model over channels, URLs and wire APIs | `MCServices` | `ServicesProofs` |
| `FindingRun` | the remediation of one finding over SSH and its verdict | `MCServices` | `ServicesProofs` |
| `SettingsApply` | applying platform settings through the settings helper | `MCServices` | `ServicesProofs` |
| `HostScript` | the script a runner executes for one stage: steps, backups, report | `MCServices`, `MCHostScript` | `ServicesProofs` |
| `MCLive` | what `Remediation` and `HostRunner` must eventually do | `MCLive` | - |

## Inventory

What nearly all components share, and what makes them hard: a handler opens one
READ COMMITTED session, reads rows, decides, and commits later. Nothing is
locked and no table has a version column; SQLAlchemy writes the columns whose
value differs from the value read, so two handlers that overlap mix their
columns. Work is handed over by committing a row that something else polls, or
by a Celery message published before or after that commit.

| component | state | operations | partners | correct when |
|---|---|---|---|---|
| task runs (`tasks/task_runtime.py`, `repositories/task_repo.py`) | `task_runs`, Celery messages, the workers' revoked list | enqueue, report, retry, cancel, clear, sweep | every other component | a canceled task stops, every task settles, a dead row stays closed |
| remediation sessions (`services/remediation_*`, `runner_service.py`) | `remediation_sessions`, plan cache, task results | create, read (which repairs and writes), approve, dispatch, report, re-verify | task runs, host runner, web client | only approved steps run, once; progress is earned; no session runs for ever |
| stage script (`_build_assignment_execution_script`) | a file of the host, its backups | back up, run a step, report | remediation sessions | a reported backup restores; a reported success is whole |
| host runner (`services/runner_service.py`, `runner_bundle/`) | `host_runners`, files and processes of the host | queue, install, register, heartbeat, poll, repair by GET | task runs, page of the asset | the accepted token is held by somebody; the page is told the truth |
| campus discovery (`services/campus_discovery_service.py`) | `discovery_jobs`, `discovery_job_executions` | schedule, poll, report per zone, aggregate, follow-up | host runner, task runs | a completed job is complete; a job ends |
| local discovery (`tasks/discovery_tasks.py`, `scan_tasks.py`) | job summary, assets, ports | pipeline of stages, deep follow-up | task runs, verification | a finished job is complete; only a scan closes a port |
| agent sessions (`services/haor_agent_service.py`, `tasks/agent_tasks.py`) | session row, checkpoint in Redis, child tasks | turn, plan, approve, orchestrate, interrupt, restore | task runs, model calls | a plan is run once and only if approved; a session does not hang |
| agent turns (`services/haor_agent_service.py`, `services/agent/`) | pending question, dialog, page actions, plan | decide, act, ask, resume, follow up | agent sessions, remediation, host runner | page actions end; what was started is reported |
| refresh tokens (`services/refresh_token_service.py`) | refresh families, Redis lock | rotate, revoke, log out | API | one live token; only a used token is a replay |
| model channels and calls (`services/ai/`) | channel rows, copies, cooldowns, failure counts | load, edit, publish, choose, try again, fall back | agent, reports | a told process is current; one whole answer |
| risk verification (`services/risk_verification_service.py`) | findings, alerts | verify, converge, alert | remediation | what is left open is what was seen |
| one finding (`tasks/remediation_tasks.py`, `services/remediation_executor.py`) | task result and its verdict | run, report, retry, re-verify | risk verification, credentials | a success is backed |
| credentials and collection (`tasks/collection_tasks.py`, `services/data_exchange_service.py`) | credential row | save, import, verify, confirm, work | finding runs, terminal | work is done with a proved and confirmed secret |
| settings (`services/platform_settings_service.py`, `infra/settings-helper`) | runtime file, containers | apply, recreate, check, call back | every process | what is said to be applied was loaded |
| version comparison (`utils/versioning.py`) | - | compare | rule engine | the comparison is a total order |

Not modelled at all, with the reason in `PROJECT.json` and in
[Not modelled](#not-modelled): the scanners, the rules and their matching,
reports and recommendations, the vulnerability library, rate limits and device
alerts, logs and monitoring, the agent's text handling, and both clients.

The hazards are listed in `PROJECT.json` at the line where each bites, with the
properties that cover it. Smaller ones that are left out of that list: the
comparison of the retry counter (`scan_tasks.py:100`, `runner_tasks.py:83`; the
type invariants bound it), a failed session that keeps reading failed after a
new approval (`remediation_session_service.py:1650`, although
`tests/unit/test_remediation_endpoint.py:1021` expects otherwise of one path), a
verdict that reopens a session which has ended
(`remediation_business_service.py:587`), the duplicate test and the publishing
of an agent turn (`haor_agent_service.py:7711`, `agent.py:205`), the circuit of
a model node read and written back (`model_pool_service.py:644`), a second deep
follow-up after a retried baseline (`scan_tasks.py:100`).

## Plan

1. `TaskRun` with `TaskLifecycle`: modelled, checked, proved with its refinement.
2. `Remediation`: modelled, checked, its five safety properties proved.
3. `HostRunner`: modelled, checked, its safety properties proved.
4. `CampusDiscovery`: modelled, checked, its safety properties proved, and that a
   job that did not end always has a step to take.
5. `AgentSession` and `AgentTurn`: modelled, checked, their safety properties
   proved.
6. The ten services of `MCServices`: modelled, checked; types and all properties
   proved.
7. Open: the liveness properties, which the provers here cannot state (see the last
   section); what `TaskLifecycle` promises as the environment of `Remediation`, in place of
   the columns of the task that `Remediation` keeps itself.

Composition: `MCServices` puts ten modules beside each other that share nothing,
and `EachServiceRuns` proves that it implements each; `MCLive` does the same for
`Remediation` and `HostRunner` and their fairness. `Remediation`, `CampusDiscovery`
and `AgentSession` each keep the columns of the runner and of the tasks that they
decide on. The runs are kept few: an instance that tells nothing new is dropped.
No module declares a RECURSIVE operator.

## Conventions of the modules

- A handler that computes or calls something between its read and its commit is
  two actions (read, commit), with what it read kept in a record; reading,
  assigning and committing in a row is one action.
- A commit writes a column only where the new value differs from the value read.
- A row deleted before the commit makes the commit fail (StaleDataError).
- An exception that ends a request or a worker ends its record; a death is a
  process that takes no more steps, or an action where its effect differs.
- An operator commented "Mutation" is a plausible bug of the operator after it;
  it is used by nothing and shows that a property notices the difference.
- `CHECK_DEADLOCK FALSE` everywhere: the bounded tasks, requests and jobs really
  end, after which nothing happens.
- Bounds are constants named `Max...` and guards of the actions that count. Two
  bounds are a CONSTRAINT of their MC module: `AccidentsMeetOneInstall` and
  `OfflineBeforeApproval`, explained with their runs.

## Task runs: TaskRun, TaskLifecycle, TaskRunProofs

`TaskRun` models a `task_run` row and the Celery task that works for it. The row
is shared by the enqueuer, the worker, API requests and the stale sweep that
every GET of the task list performs, and none of them locks it. Every report of
`tasks/task_runtime.py` is a read step and a commit step (and a third step that
commits its event), because that is where other transactions fall in between.

| action | code |
|---|---|
| `CreateTaskRun`, `Delay`, `SaveCeleryId`, `EnqueuerDies` | `create_task_run`, `.delay`, `update_task_run(celery_task_id=...)` of every enqueuer |
| `Deliver`, `RevokeArrives`, `WorkerDies` | the broker: early acknowledgement, broadcast revoke with SIGTERM |
| `ReportRead`, `ReportCommit`, `ReportLog` | `tracked_task`, `set_task_progress`, `set_task_success`, `set_task_retry`, `set_task_failure` |
| `EnsureNotCanceled`, `BodyStep`, `Resend` | `ensure_task_not_canceled`, the body, `self.retry` |
| `CancelRead`/`CancelWrite`, `ClearRead`..`ClearDelete`, `SweepRead`/`SweepWrite` | `api/v1/endpoints/tasks.py`, `repositories/task_repo.py` |

`TaskLifecycle` is the contract seen by every reader of task rows: a row opens
once, closes, may reopen only while a message, a worker or the enqueuer can
still act for it, and never again once nothing can.

Run `task_run` (1 task, 2 stages, 1 retry, 2 requests at a time, 59 139 states):
types; `AtMostOneLateStep` (the body does at most one step after a cancel);
`CancelLostOnlyToEarlierRead` (only a transaction that read the row before it can
undo a cancel); `ImplementsLifecycle`; `EveryTaskSettles`. One task is enough
because rows do not influence each other except through a sweep or a clear that
handles several, and the refinement proof covers those for every set of tasks.
Two requests make a cancel race a clear or a sweep; two stages make a check that
lies between steps matter; one retry gives both outcomes of the comparison.

Fairness: the enqueuer, the broker and the worker go on, rows age, and the task
list is fetched again and again (the web client polls it), so its sweep runs.
A worker may die at any time; nothing assumes it does not.

What the model shows the code to allow, without a run of its own:
`set_task_success` tests for CANCELED on the row it read and commits SUCCESS over
a cancel that was answered in between (`task_runtime.py:195`), and a cancel is
committed over a success (`tasks.py:119`).

Proved (`TaskRunProofs`, from `TaskRunAssumption` only): `TypeCorrect`,
`LateStepBound`, `CancelHonoured`, `Refinement`. The properties are not inductive
on their own. The invariant adds `RowBeforeWork` (nothing works for a row that
does not exist yet), `WorkerInv` (what a report in progress has seen, which
reports occur at which step, a retry only below the bound) and `LateInv` (a
canceled row with a late step keeps its worker off the path to the body), and
each action is shown to keep it. The liveness property stays with TLC.

## Remediation sessions: Remediation, RemediationProofs

`Remediation` models the sessions of one host: the plan with its stages, the
cached plan and the snapshot that vouches for it, approvals, the tasks a runner
polls, executes and reports, and the worker that verifies again. Every read of a
session repairs and writes it (`Refresh`: `Reconcile`, status from task, plan
mode).

| action | code |
|---|---|
| `CreateBegin/Commit`, `GetBegin/Commit` | `create_or_resume_remediation_session`, `get_remediation_session` |
| `ApproveBegin/Task/Context/Submit`, `RequestDies` | `approve_remediation_session`: the plan, the task row, its context, the dry-run closing, each a commit |
| `RunnerStep` (`PollRead` .. `SessionCommit`), `JobDies` | poll, execution, report (`runner_service.py`, `runner_bundle/runner.sh`) |
| `ReverifyStep`, `ReverifyLost` | `complete_runner_task`, `tasks/remediation_tasks.py` |
| `CancelTask`, `SweepTask`, `ClearTasks`, `HeartbeatLost`, `Heartbeat`, `FindingsChange` | the task list, the host |

Findings are abstracted to what each phase holds: none, ready, or blocked (which
folds in authorisation, step and installation blockers). A heartbeat with status
"error" counts as offline. The AI worker's first transaction is a GET. A
`result_json` changed in place without a commit in between is not written.
Every new task row begins with a rollback on PostgreSQL
(`repositories/task_repo.py:44-56`, `:67`: the type of the column is looked up on
another connection), so an approval saves nothing of what its read repaired
(`ApproveTask`).

| run | instance | what it shows |
|---|---|---|
| `remediation` | 1 session, 1 task, all requests, cancel, sweep, clear, crash; 872 569 states | only approved work is dispatched, once; progress is earned by a success; only a verdict withdraws a completed stage |
| `remediation_stages` | 2 sessions, 2 stages, changing findings; 914 240 states | a second read agrees with the first |
| `live` (with `HostRunner`) | 1 session, 1 task, fair, automatic re-verification; cancel, sweep, crash | no session reads running for ever, unless it waits for a verdict nobody gives |
| `remediation_stale_approval` | violation | an approval stores an old plan with a new snapshot; the running stage is approved again |

In `remediation` the host goes offline only while nothing was approved
(`OfflineBeforeApproval`), and in `live` it does not (see `MCLive` for the instance in
which it does); the proofs have no such bound.

One session and one task already contain every race between a read, an approval,
a report, a verdict and the task list; two sessions add a predecessor, two stages
the order of stages. Instances with two stages and two tasks in one session, with
two sessions and two tasks on one stage with the host going offline, and with
two concurrent reads were also run.

`EveryRunEnds` is checked with automatic re-verification, the default of
`core/config.py:363`, with one approval and one page at a time. It holds with one
exception, which `NobodyVerifies` names: the last task of the session waits for a
verdict ("pending_reverify") and its re-verification is lost, canceled or over. A
worker that is killed leaves that for ever (`remediation_tasks.py:203`), and so does a
verdict that comes before the report which asked for it and is then written over. With
two tasks, or two reads at once, it does not hold: two GETs leave the plan of one
and the snapshot of the other, and a session whose last task failed reads running
for good (`remediation_session_service.py:446`).

Fairness: the runner goes on, a started request ends, the page is fetched again,
a re-verification that was started and did not die goes on, and the sweep of the task
list runs.

Deviations that have no run: a report marks the stage completed while its
re-verification is pending (`runner_service.py:1459`, against
`tests/unit/test_remediation_session_service.py:95`); a verdict can be overwritten
by the report that asked for it, after which nobody verifies any more.

Proved (`RemediationProofs`, from `RemediationAssumption`), for any number of
sessions, stages, tasks and clients: `TypeCorrect`, `DispatchIsApproved`,
`ProgressStaysEarned`, `OneReadRepairs`, and the action properties
`DispatchedAtMostOnce` and `CompletionLasts`. The argument: a stage that a row
counts as completed is justified by a task that succeeded, and tasks only gain
(they are never deleted from under a reader, a success is never taken back), so a
row that was justified stays so, and so does the copy a request holds while it
computes; a runner holds only a task that was submitted ready. `OneReadRepairs`
needs no invariant over time: it is shown of the operators that one read applies.

## Host runner: HostRunner, HostRunnerProofs

`HostRunner` models installs of a runner on one host: the row, the task and its
retries, the SSH worker, `install.sh` in both ways of keeping the service
(systemd unit, or a detached process restarted from crontab), the processes that
run `runner.sh`, registration, the token, and the GET that repairs the row.

| action | code |
|---|---|
| `EnqueueBegin/Commit`, `CreateTaskRun`, `Delay` | `queue_runner_install`, `install_asset_runner` |
| `WorkerStart`, `Unpack`, `Activate`, `WaitForRegistration`, `SaveBegin/Commit`, `WorkerFinish`, `WorkerExcept`, `RecordOutcome` | `tasks/runner_tasks.py`, `run_runner_install`, `install.sh` |
| `RegisterBegin/Commit`, `ReceiveToken`, `WriteState`, `HeartbeatAndPoll` | `register_runner`, `runner.sh` |
| `GetBegin/Commit` | `resolve_runner_by_asset_for_read` |
| `Cancel`, `Clear`, `AgeTask`, `Reboot` | the task list, time, the host |

Left out: the status and online columns (they decide nothing here), the versions,
deletion of the asset, uninstalling. A death is an actor that takes no more
steps. A task reports in one step (`TaskRun` takes the reports apart); the two
queries of a GET are one read.

`host_runner` (2 installs, no retry, both modes, cancel, clear, lost answers,
reboot; 885 459 states): `TokenIsHeld` - the token the platform accepts is held by
a live process, or on its way to one; `SuccessMeansRegistered`. Two installs are
what it takes for processes of different installs to overlap. An install that is
canceled, cleared or followed by a reboot is the only one
(`AccidentsMeetOneInstall`); the proofs have no such bound. `live` (1 install, 1
retry, cancel, clear, lost answer, reboot; 150 474 states together with its
session): the page brings the row out of installing, and shows a registered
runner as installed. Fairness is assumed only of the page's GET and of time; the
worker and the host may stop anywhere. `host_runner_reinstall` (violation): on a
systemd host a reinstall leaves the old unit alone, with the token the queueing
just revoked.

Proved (`HostRunnerProofs`, from `HostRunnerAssumption`), for any number of
installs and retries: `TypeCorrect`, `TokenHeld`, `SuccessRegistered`. The
inductive invariant adds `RequestInv` (what a registration in progress stands
for), `AttemptInv` (an attempt has processes only once it was activated),
`SuccessInv` (a worker that saw a registration still finds a token unless a later
install was queued) and `ProcessInv` (who registers has no token yet).

## Campus discovery: CampusDiscovery, CampusDiscoveryProofs

`CampusDiscovery` models one discovery job of a CIDR: the request that creates
and schedules it, the runner of each zone and the script it runs, the report of
each phase with the follow-up it queues, the aggregation into the job, and the
parent task. With scope "node" a chosen runner scans and there are no executions.

The scheduling is the part to read with care. It flushes the execution of a zone and
then creates the task of that zone, and `create_task_run` begins with a rollback on
PostgreSQL (`repositories/task_repo.py:44-56`, `:67`). The rollback discards every execution
that waits for a commit: the "failure" rows of earlier zones nobody serves
(`campus_discovery_service.py:53`), and the rows of earlier zones that are served, of
which only the one at hand is added again (`:114`). So a zone's task can be polled
(`ScheduleName`, `:93`) before its execution is stored (`ScheduleEnd`), and of several
zones at most one served one ever gets an execution. `sched.added` holds what the next
commit will store, `sched.lost` what was rolled back; the final `db.refresh` of a lost
one raises (`:176`), so the request ends in an error although the job runs. An
orphan (`Orphans`) is a zone with a task and without an execution: its runner scans
and reports, but no aggregation waits for it.

| action | code |
|---|---|
| `CreateJob`, `CreateParent`, `ScheduleUnserved/Zone/Name/End` | `create_discovery_job`, `schedule_campus_discovery_job` |
| `Fetch`, `Assign`, `Assigned` | `poll_runner_assignments` |
| `ScanSucceeds`, `ScanFails`, `ReportFailureInstead`, `BackToLoop` | the generated scan script and `runner.sh` |
| `ReportExecution`, `ReportFinal` | `_complete_runner_asset_scan_task` |
| `ReportRead`, `ReportAggregate`, `ReportAggregateFails` | `aggregate_campus_discovery_job`, `apply_runner_discovery_scan_result` |
| `FollowupCreate/Context/Swap` | `_queue_runner_asset_scan_followup_task` |
| `Cancel`, `Sweep`, `Clear`, `Lose`, `GiveUp`, `RivalStarts/Ends` | the task list, the network, other jobs of the CIDR |

Every report runs the whole handler whatever the state of its task; nobody checks
that a task is still active. A zone's hosts are abstracted to the zone. When two
final aggregations overlap, the second may be refused because the first has
inserted the same addresses; it answers 500, and the script then reports failure
of the scan that succeeded.

`campus` (two zones, or one of them chosen; 312 206 states):

- `CompletedCoversSuccesses`: a job that reads COMPLETED waits for no stored execution
  and holds every zone that succeeded, but for those whose execution was rolled back;
  unless there is an orphan, what it holds is of the deep phase.
- `CompletedIsNotReopened`: only a report whose runner gave up on it, or the baseline
  of an orphan, can make a completed job active again.
- `JobSettles`: without harm and without an orphan, the job ends for good.

Two zones give every outcome of the rollback (both served, and the first of them is an
orphan; one served, before or after one that is not; none), a stored zone whose
aggregation races that of an orphan, and a job that waits for no execution while a
runner works. Two stored zones that race do not occur, because at most one served zone
is stored.

The instance lets one thing go wrong per job (`harm`): one cancel, sweep, clear or lost
call ("lost"); one report its runner gave up on ("late"); or one report that came
before the scheduling request had ended ("early"), and so found no execution yet. A
second one adds no new kind of step. The properties except what the code has nothing
against:

- A canceled, swept or cleared task or a lost poll answer leaves its execution open for
  ever, so the job stays RUNNING and every later request of the CIDR is given that
  job. Excepted by `JobSettles`.
- A report that outlives a whole second scan of its zone overwrites a later
  aggregation. Excepted by all three, `CompletedIsNotReopened` naming the report.
- A report that comes early changes no execution; the scheduling then stores it as
  pending, and nobody reports it again. Excepted by `JobSettles`.
- Orphans and lost zones. `CompletedCoversSuccesses` says nothing of what a lost zone
  found, and `JobSettles` nothing of a job with an orphan.

Fairness: the scheduling request and the reports run to their end, and runners
poll, scan and report. A runner that stays away is the lost call.

What the model shows the code to allow, without a run of its own:

- With two served zones the request answers an error after the job was started
  (`campus_discovery_service.py:176`), where `docs/api-contract.md:117` promises 201; the success
  of the first zone counts nowhere, the job completes without it, and a baseline of it
  that comes late in the order makes the completed job active again or replaces the
  hosts of the deep phase.
- When the scans fail after the scheduling, the early `return {}` of the aggregation
  skips the finalisation and the parent task stays PENDING
  (`campus_discovery_service.py:259`).

Proved (`CampusDiscoveryProofs`, from `CampusDiscoveryAssumption`), for any set of
zones: `TypeCorrect`, `CompletedCovers`, `CompletedStaysCompleted`, `NoJobIsForgotten`. The invariant says
that each phase of a zone is fetched at most once, that its report comes
after that, and that a deep scan runs only when the baseline is over; `SchedInv` says
what the schedule has named, added and lost, and that of the stored zones at most one
is served; `ClosedInv` (what is closed when the job reads completed) and `CoverInv`
(what a report in progress has read of the zones) carry the rest. `CompletedCovers` adds
`StoredInv` (what an aggregation holds is every stored zone that succeeded) and `DeepInv`
(a completed job is of the deep phase, or has an orphan).

`NoJobIsForgotten` proves `NotForgotten`, the safe part of `JobSettles`: as long as no
task was taken from the job, no call was lost, early or late, and there is no orphan, a
job that did not end has a step of its schedule, a runner or a report to take, so no
order of polls, reports and aggregations leaves the zones waiting for each other.
`JobMayGoOn` states that
step by the guards of the actions, because ENABLED is out of the provers' reach. In
every state of the instance without harm, TLC found each of them to imply ENABLED of
its action (for the schedule and the reports, to equal it), and the theorem's
invariant to hold. `GoingInv` carries the proof, on top of the first
invariant. While the schedule runs no report is sent, and every served zone has a
`Promise`: a task to be fetched, a script at work, or a report not yet answered. After it
every open zone has one, the execution names the task whose report comes next
(`LinkOK`), a final aggregation that is refused, or that finds the job completed, finds
it ended (`ClashOK`), and a job that did not end has a zone with a promise
(`PromiseInv`).

Not modelled: the reused job, which gets a parent task no execution names; two
zones that share a node; a crash of the API during the scheduling; a broker that
refuses the risk tasks after the commit; local dispatch; clearing several tasks
at once; progress and events.

## Agent sessions: AgentSession, AgentSessionProofs

`AgentSession` models the chat sessions of one administrator. The session row is
written without a lock by message turns, page-action steps, approvals, the
orchestration worker, the follow-up of a child task and every read. A message
turn is accepted (first commit), a model is called, its decision is applied to
the row read again, the reply is streamed, and only then it is committed;
between the decision and that commit a checkpoint in Redis holds what will be
committed, and any other request may restore it.

| action | code |
|---|---|
| `Create`, `Poll` | `get_or_create_agent_session`, `get_agent_session_summary`, `recover_agent_session`: `Reconcile` is `_reconcile_session_runtime_state` with the restore of the checkpoint and the four repairs in their order |
| `PostMessage`, `PostStep`, `EmptyStep`, `SecureStep` | `post_agent_message` and `post_agent_step` until their first commit, also one with nothing to answer, `_handle_secure_input_step` |
| `Decide`, `Abandon`, `CommitTurn`, `TurnDies` | the rest of a turn: `_refresh_message_turn_if_active`, `_apply_agent_decision`, the last commit |
| `Followup` | `run_agent_auto_followup_task` after a task started without approval |
| `Approve`, `ApproveCommit`, `ApproveDies` | `approve_agent_session`: the task row is one commit, after a rollback of what the read repaired, the session another |
| `Interrupt`, `CancelTask`, `Reset` | `interrupt_agent_session`, `POST /tasks/{id}/cancel`, `reset_agent_session` |
| `Start`, `Check`, `Execute`, `Dispatched`, `Wait`, `Finalize`, `Succeed`, `Interrupted`, `Raised`, `Report`, `WorkerDies` | `run_agent_orchestrate_task`; each retry is a new execution |
| `ChildEnds`, `Sweep` | `wait_for_child_task`, the sweep of stale tasks |

Run `agent` (1 session, 2 turns, 1 orchestration of up to 2 actions, 1 retry, every
kind of decision, every other event once or more; 555 381 states):

- `ActionsRunOnce`: no action of an approved plan is executed twice for one
  approval. A retry happens only before the first action, and a worker that died
  is not replaced.
- `CancelStopsTheRest`: after a cancel, by whichever route and however the
  revocation fared, at most the action that had passed its check still runs.
- `NeverStuck`: while the page shows a running session or a message waiting for
  its reply, something goes on by itself. It is an invariant of the form "shown
  => MayGoOn". `MayGoOn` is written with the guards of the actions of `Progress`,
  because the provers here do not treat ENABLED; TLC compared both in every state of
  the run, and `MayGoOn <=> ENABLED Progress` held in all of them. `Progress` is what
  needs no user: requests, workers and child tasks that continue, the sweep of the task
  list, and the poll of the page, which counts only if it changes the row. Each
  actor has finitely many steps, and a poll changes the row only after somebody
  else wrote it or a deadline passed, so that with fairness of `Progress` the
  waiting ends. Stated as an invariant it needs no fairness in the specification.

Two turns give a decision that was made on a row another turn has changed; two
actions make the check between them matter; one retry gives both outcomes of the
comparison. Checked once, without error: two sessions with one task (2 million
states), and one session with two tasks of one action and no retry (more than 4
million states).

What the model shows the code to allow, without a run of its own: a turn that was
decided before a reset commits its row afterwards; the canceled branch of an
orchestrator that ends late opens a completed session again
(`agent_tasks.py:704`; `tests/unit/test_agent_endpoint.py:1790` covers the
sequential case only); a session can wait for an approval without a plan; one
plan can be approved twice (`haor_agent_service.py:10041`), and then its actions
run once for each approval; a running session can be given a plan, because only
the prompt says that it must not (`agent/model_context_service.py:591`).

Abstracted: whether a message is a duplicate of an earlier one, the delay of the
message to the worker (part of `ApproveCommit`), the task after secure input and
after a post-verification, goals, prompts, the rows of child tasks (a child is
active, ok or bad). `Current` is any open row when an old session was opened
again, since `load_recent_session` takes the one updated last.

Proved (`AgentSessionProofs`, from `AgentSessionAssumption`), for any number of
sessions, turns, tasks and retries: `TypeCorrect`, `ApprovedOnceRunsOnce`,
`CancelIsEffective`, `EndedTasksStayEnded`, `NobodyIsStuck`. The invariant of the first
three is `TypeOK /\ WorkerInv /\ ApprovalInv`:
`WorkerInv` says of every worker that no action is begun that it has still ahead,
none twice, and none at all while it may be tried again, and that a canceled task
with a late action cannot execute another; `ApprovalInv` says that an approval
which is not committed is alone with a task no worker has touched. `NobodyIsStuck`
adds `PlaceInv`: the status of every task fits the place of its worker and of the
requests that hold it, so a task that is not over has somebody who may go on with
it, and one that is over stays so (`EndedTasksStayEnded`) until a poll finds the
session still shown as running and repairs it. Its hypothesis is `"slow" \in Events`:
time passes, so that the deadline of a silent task is reached.

## Agent turns: AgentTurn, AgentTurnProofs

`AgentTurn` looks at one conversation from inside: which decision a turn may make,
which of its actions run at once, what it leaves to wait for, and who reports what
was started. Turns that overlap are the subject of `AgentSession`; here one turn
runs at a time, beside the follow-ups and the orchestration of an approved plan.

| action | code (`services/haor_agent_service.py`, `services/agent/`, `tasks/agent_tasks.py`) |
|---|---|
| `Say`, `Step` | `post_agent_message`, `post_agent_step` until their first commit |
| `Withdraw`, `Deny`, `Preflight`, `ConfirmScan`, `Conflict` | the words that decide without a model |
| `BeginLoop`, `Read`, `Think`, `LoopFails`, `Abandon` | `_run_agent_loop`, the validators of its decision, the claim that was lost |
| `Act`, `Finish` | `_apply_agent_decision` with `_execute_auto_actions` |
| `SecureStep`, `SecureDone` | `_handle_secure_input_step` and the action it resumes |
| `Approve`, `PlanNext`, `PlanWait` | the approval, the orchestration and its last words |
| `TaskEnds`, `Followup` | a child task, `run_agent_auto_followup_task`, `run_agent_secure_post_verify_resume_task` |
| `Reconcile` | the repairs of a read |

Run `turn` (an administrator, the actions "fix" and "install, then fix", 2 decisions,
2 rounds of page actions, 2 actions at once, 2 tasks, 3 messages; 1 904 946 states):

- `ChainsEnd`: fewer than `MAX_AGENT_LOOP_STEPS` results of page actions are
  answered with page actions before the user speaks again, although a dialog, a
  follow-up and a repair all write the count.
- `StartsAreAccountedFor`: every task started without an approved plan has had its
  follow-up sent, also if a later action raised; no reply starts an action of high
  risk by itself.

Two of everything: a batch whose second action raises, a limit that is reached by
counting, a follow-up that starts another task. Checked once with both roles and
the actions "fix" and "scan" (1 695 913 states).

Proved (`AgentTurnProofs`, from `AgentTurnAssumption`): `TypeCorrect`,
`ChainsAreBounded`, `StartsAccounted`. The invariant is `Shapes` (the parts of the
row and of the turn), `Intended` (what a reply is about to start is of low risk,
the words "yes" may act, an orchestration has something to do) and `RoundsAhead`
(while page actions are open, or their results are being answered, the count of
rounds is ahead of the chain). `Only`, the filter of the validators, is a recursive
function; that it returns members of both its arguments (`OnlyThem`) is shown with
the least number for which it would not.

What the model shows the code to allow, without a run of its own: a batch whose
later action raises leaves the earlier ones started and the turn waiting for its
repair; a message that is accepted while a dialog is open, and answered with page
actions, leaves the dialog in the row, and the results of the page actions are
ignored (`haor_agent_service.py:9560`); a follow-up between a question about a
scan and the "yes" to it leaves the question; credentials that were entered, and
an installed runner, go on to a repair of the host that nobody approved
(`agent_tasks.py:876`; `docs/haor-agent-design.md:52` asks for an approval).

Abstracted: texts, hosts (the number of verified logins stands for them), what a
decision reads, the dedupe tokens of a step, and the broker's refusal of a task
that is not a follow-up, which is an exception like any other.

## Ten services: MCServices

`MCServices` composes ten modules that share no state: it extends `TokenRotation`
and instantiates the nine others. The first state chooses the one that moves
(`service`), so that the behaviours are those of each module by itself and the
number of states is the sum. Each property reads "if this service moves, its
property holds". The run `services` has 887 088 states. Three of its properties
join two of the modules' (`ScansAreBelieved`, `WorkIsVouched`, `ReportsAreTrue`), and
so does `FindingsAreSeen`, of an invariant and an action property.

`SYMMETRY Exchange` swaps both elements of every pair of actors at once, or none:
the modules treat the elements of these sets alike, none of their definitions
chooses from them, and only one service moves, so nothing relates the pairs. None
of the properties is a liveness property, for which symmetry would be unsound.

The bounds, two of everything that can overlap: 3 tokens and 2 callers; 2
verifications and 2 rows of an identity; 2 processes and 2 writes; 2 jobs, 3
tasks and 1 retry; versions of 3 and of 2 characters; 2 writers, 1 collection and
2 secrets; 2 channels, 2 attempts and a threshold of 2; 2 steps and 1 retry of a
finding; 2 applies; a stage of 2 steps within 2 seconds.

### Refresh tokens: TokenRotation, TokenRotationProofs

| action | code (`services/refresh_token_service.py`) |
|---|---|
| `Begin`, `Acquire` | `rotate_refresh_session`: the lock, and the wait for it |
| `ReadActive`, `Store`, `Mark`, `Answer` | the exchange: the successor is stored, the old record is marked, the lock released, the answer sent |
| `ReadRotated`, `ReadRevoked`, `ReadReplay` | an exchanged token within and after its grace, a revoked one |
| `Logout`, `LogoutRecord`, `Dies`, `LockExpires`, `GraceEnds`, `Forget` | logout, a request that ends early, lifetimes |

`OneLiveToken`: the browser holds at most one active token, as long as no living
request lost its lock. `NoFalseAlarm`: only a token that was really exchanged is
taken for a replay, even when the lock expires under a request. The release of
the lock is a GET and a DEL; what lies between them is covered by `LockExpires`.
Lifetimes of days are left out. Three tokens and two callers: a chain with a
predecessor and a successor, and both sides of every race.

### Model channels: GatewayConfig

`Load`/`Loaded` (`read_gateway_channels` under its lock), `Commit`/`Publish` (an
edit of the administrator or a channel that was disabled, and its message),
`Handle`, `Disconnect`, `Subscribe`, `Restart` (`services/ai/model_router_service.py`).
A copy may also be the empty list: a load that fails answers with one and no error
(`:681-691`), and it is kept and served like any other copy (`:155-157`).
`CacheFollowsDatabase`: a process that was told of every commit has the current
channels, no copy, or the empty list of a failed load; it never serves channels that
were replaced. `Handle` is the invalidation and the beginning of the reload.

### Local scan: LocalScan

`Look`, `Create`, `LookTask`, `Publish` are the request; `Discover` .. `Queue` the scan
task; `Ports` .. `Finalize` the deep task; `Retry` and `End` what either of them may do
instead (`tasks/scan_tasks.py`, `tasks/discovery_tasks.py`). The summary of the job
is one JSON value that each stage reads, works on for minutes and replaces.
`AllDoneIsComplete`: a job all of whose tasks succeeded is completed, and its
hosts are probed. `ClosedOnlyByScan`: a port is closed only by a deep scan that
looked at it, never by a list that lacks it.

### Risk findings: RiskFindings

`Begin`, `Probe`, `Commit`, `Publish`, `Dies` of `evaluate_asset` for two overlapping
verifications (`services/risk_verification_service.py`). `OpenIsWhatWasSeen`: a
verification that no other one disturbed leaves open what it saw and nothing
else. `AlertsAreNews`: as long as none overlap, no alert is repeated while its
finding is open. An identity may have several rows.

### One finding: FindingRun

The request and its preview, the worker with its steps, `PostValidate`, `Conclude`,
`Report`, `Break`, and the re-verification with its write-back
(`tasks/remediation_tasks.py`, `services/remediation_executor.py`).
`SuccessIsBacked`: a run that reads SUCCESS and closed has steps that worked and a
verdict of its own. Both values of `REMEDIATION_STOP_ON_FAILURE` were checked. A
finding has one run; the code does not prevent two.

### Credentials: HostAccess

Saving, importing and verifying a credential (each a read and a commit that
mixes columns), single and batch collection, execution and the terminal
(`api/v1/endpoints/collection.py`, `tasks/collection_tasks.py`,
`services/data_exchange_service.py`, `services/ssh_terminal_service.py`).
`WorkIsProven`: work is done with a secret that a login proved; `WorkIsConfirmed`:
with one an administrator has confirmed. Both except the rows that two
overlapping writers have mixed, since their columns may belong to different
secrets.

### Model calls: ModelCall

One process, a call with its channels in order, for each the base URLs, the wire
API (learned, or pinned), JSON mode, attempts, the fall from a stream to a plain
request, cooldowns and failure counts (`services/ai/model_router_service.py`,
`services/ai/providers.py`). `OneWholeAnswer`: a caller is given the text of one
answer only, never pieces of two. Two kinds of request may end
well without any text, which is a success to the code: a stream of Ollama, and a
chat-completions request, also as the plain fall-back of a stream (`providers.py:536`,
`:1113`). Larger instances, checked once: the code's own
constants (3 attempts, 3 failures), and three channels. Redis answers, so that
`cool` is both its entry and the local one; a stream the reader leaves is not
modelled, nor is the pool of the single-node setting (`model_pool_service.py`).

### Settings: SettingsApply

The request, the helper's thread that writes the file, has compose read it once
(`Resolve`) and recreate the containers with what was read, and checks them, the callback (`services/platform_settings_service.py`,
`infra/settings-helper/app.py`). `AppliedIsLoaded`: settings that are said to be
applied were loaded by the backend and by the worker at some moment after their
file was written; two applies may overlap. That the check looks at the worker and not
at the backend alone matters only from three overlapping applies on (with two, TLC finds
the backend enough; with three, a violation); three or more are covered by the proof
`AppliedLoaded`, not by the run. The helper recreates the backend and the
worker, not the beat process, and keeps SECRET_KEY; neither matters to it.

### Versions: RpmVersion

The loop of `utils/versioning.py` over both versions, one segment per step, with
epoch, version and release. `ComparesKeys`: its result is that of two sort keys,
hence a total order on the texts. All pairs of up to 3 and 2 characters over two
digits, a letter, the tilde, the colon, the dash and a separator; texts of 4
characters were checked once, and the keys agreed with the Python code on 6000
random pairs.

`VersionsHaveKeys` proves it for texts of any length over any digits and letters, as
long as no character is both. The key of a text is that of its epoch followed by
`KeyFrom` at the first place of its version and of its release: `KeyFrom(s)[i]` is the
key of one round of the loop from place i (`RoundKey`: the tilde, the kind of the
segment, the segment) followed by the key from where that round ends. The invariant
`KeysAgree` says that the two whole keys are in the order of what is left of them,
from the two places on. A step keeps it because the keys of two rounds are either
equal or differ at a place both have (`Settled`), so that nothing behind them matters.
`KeysAreOrdered` adds that the order of the keys is total, antisymmetric and
transitive: with the first theorem, no list of versions can be sorted two ways.

### Stage script: HostScript

`_build_assignment_execution_script` (`services/runner_service.py`) writes a shell
script for each stage; the module models its execution on one file of the host:
`Prepare` (the backup before a step, a copy named after the second, or a snapshot),
`Works`, `Fails`, `TimesOut`, `Send`, and beside it `Tick`, `Lingers` (children of a killed
step that go on) and `Reboot`. `BackupsRestore`: a backup the report names holds what
its step found, unless two copies fell into one second. `SuccessIsWhole`: a stage
reported as a success did every step, and nothing of it goes on.

The run `host_script_stops` (`MCHostScript`) expects a violation of `StopsAtFailure`:
no step starts after one that failed, as the settings page offers it
(`GlobalSettingsModal.tsx:755`) and `config.py:364` sets it by default. The `|| break` the
script has for this stands outside of any loop, where it does nothing
(`runner_service.py:2070`).

### What these models show the code to allow

- Refresh tokens: a request that outlasts the lock can leave two active tokens.
- Channels: a failed load leaves a process without any channel for the lifetime of its
  copy (`model_router_service.py:681`); recovery in one process clears the cooldown in Redis but not the copy
  of another (`model_router_service.py:955`); a refusal of an old key disables
  the row whose key was just replaced (`:430`); an invalid channel ends the whole
  call (`:271`); a stream does not try another channel after 404 or 422 although
  a plain call does.
- Local scan: a canceled or failed scan leaves its job RUNNING until the next
  request of the network; every retry queues another deep task; a late store can
  overwrite a newer port state.
- Findings: a probe that finds nothing opens a fixed finding again when the rule
  asks for its service only; of two overlapping verifications the older reading
  marks fixed what the newer one found.
- One finding: a late report overwrites an early verdict; steps of a last attempt
  that lost its connection are not verified again.
- Credentials: a single collection logs in before it looks at the confirmation.
- Settings: an overlapping apply writes an old API key back; a lost answer of the
  success callback turns SUCCESS into FAILURE (`infra/settings-helper/app.py:530`).
- Stage script: the exit code of a failed step is read after an assignment and is
  always 0, so that the code 124 of a time limit is never recognised; children of a
  step that ran out of time survive it; two copies of one file in one second
  overwrite each other; it says "failure" where the counting of failed steps looks
  for "failed"; nobody notices when the last POST fails; REMEDIATION_PREPARE_BACKUPS_ENABLED
  is ignored.
- Versions: "1.~a" is newer than "1"; digits other than 0-9 never advance the loop.

## MCLive

`MCLive` puts `Remediation` and `HostRunner` beside each other with their fairness
(`FairSession`, `FairInstall` are their own) and states what must eventually happen:
`EveryRunEnds` (no session reads running for ever), `InstallSettles` (the task of an
install ends) and `RegisteredIsShown` (the page is told of a registration). The run
`live` has 150 474 states: one session with one task, automatic re-verification,
cancel, sweep and crash; or one install on a host with systemd with one retry, cancel,
clear, a lost answer and a reboot. Checked once, without error: the same with an absent host
and a stage that is ready (221 749 states), and the install with both ways of keeping
the service. The sections of the two modules justify the
fairness. No symmetry and no constraint is used.

## What is proved and what is only checked

Theorems hold for every value of the constants that satisfies the named assumption
of the module. TLC checked every inductive invariant on the small instances first,
together with the property.

| module | theorems | inductive invariant |
|---|---|---|
| `TaskRunProofs` | `TypeCorrect`, `LateStepBound`, `CancelHonoured`, `Refinement` | `RowBeforeWork` (nothing works for a row that does not exist), `WorkerInv` (what a report under way has seen), `LateInv` (a canceled row with a late step keeps its worker off the path to the body) |
| `RemediationProofs` | `TypeCorrect`, `DispatchIsApproved`, `ProgressStaysEarned`, `OneReadRepairs`, `DispatchedAtMostOnce`, `CompletionLasts` | what a row counts is justified by a task, so is every copy a request holds, and tasks only gain; a runner holds only what was submitted ready |
| `HostRunnerProofs` | `TypeCorrect`, `TokenHeld`, `SuccessRegistered` | `RequestInv` (what a registration under way stands for), `AttemptInv`, `SuccessInv`, `ProcessInv` |
| `CampusDiscoveryProofs` | `TypeCorrect`, `CompletedCovers`, `CompletedStaysCompleted`, `NoJobIsForgotten` | each phase is fetched once and reported after that; `ClosedInv` (what is closed in a completed job), `CoverInv` (what a report under way has read of the zones), `GoingInv` (every open zone has a task, a script or a report that takes it on) |
| `AgentSessionProofs` | `TypeCorrect`, `ApprovedOnceRunsOnce`, `CancelIsEffective`, `EndedTasksStayEnded`, `NobodyIsStuck` | `WorkerInv` (how far a worker is), `ApprovalInv` (an approval under way owns untouched tasks), `PlaceInv` (the status of a task fits the place of its worker) |
| `AgentTurnProofs` | `TypeCorrect`, `ChainsAreBounded`, `StartsAccounted` | `Shapes`, `Intended`, `RoundsAhead` |
| `TokenRotationProofs` | `TypeCorrect`, `NoReplayBeforeExchange`, `OneTokenLives` | `KnownHeld`, `KnownUnderWay`, `KnownRotated` (every token somebody holds or is about to get was stored and not forgotten); `LockIsMine`, `OneActiveOffer`, `RotationIsAlone` (while no lock was lost, one request at a time works on a token and at most one active token is on offer) |
| `ServicesProofs` | `EachServiceRuns`, `ServicesTypeCorrect`, one for each service, `KeysAreOrdered` | see below |

`ServicesProofs` first shows each property of its own module (for instance
`G!Spec => []G!CacheFollowsDatabase`), then that `ServicesSpec` implements each module (`EachServiceRuns`: a service that
moves takes a step of its module, the others stutter), and concludes it of the
composition. The properties are those of the run `services`, by the same names.

| service | theorem | what the invariant adds |
|---|---|---|
| refresh tokens | `TokensKept` | that of `TokenRotationProofs` |
| risk findings | `FindingsWereSeen` | the rows fit what an undisturbed verification has read; without an overlap only open findings are alerted |
| model channels | `CacheIsCurrent` | a copy that is neither current nor the list of a failed load has its message published but not handled, or unsaid, or missed |
| local scan | `ScansBelieved` | a port scope comes from a scan; what a job still lacks is ahead of one of its tasks |
| credentials | `WorkVouched` | every row, and every copy of it, has a secret that was confirmed, and proved if it reads so, or is mixed |
| model calls | `OneAnswerGiven` | nothing is given before a provider is built or a whole answer asked for, so what a stream gave is of the request under way |
| one finding | `SuccessBacked` | a worker past a step has run it if it was chosen, and its report says so; a stored success leaves it idle |
| settings | `AppliedLoaded` | whoever has the changed values is in the history, and a service that was found right had them |
| stage script | `ReportsTrue` | a copy holds what its step found unless another took its name; while nothing failed the file is that of the last step |
| versions | `VersionsHaveKeys` | the two places stay inside their texts, since a search always succeeds; the keys are in the order of what is left of them |

That a search succeeds is shown from the least element of a set of numbers
(`LeastNumber`, from the well-foundedness of < in the library), because an
induction theorem that takes an operator cannot be used by the provers here. It also
shows that the recursive function `KeyFrom` of a text is defined (`KeysExist`): of the
distances from the end of the text for which it is not there would be a least one.

Only checked on the instances above:

- The liveness properties `EveryTaskSettles`, `EveryRunEnds`, `InstallSettles`,
  `RegisteredIsShown`, `JobSettles`: they rest on fairness.
- That `MayGoOn` of `AgentSession` is ENABLED of `Progress`, and that the guards in
  `JobMayGoOn` of `CampusDiscovery` imply ENABLED of its schedule, runners and reports. With these,
  `NobodyIsStuck` and `NoJobIsForgotten` rule out the deadlocks behind a failure of
  liveness; that the steps go on to an end is left to `JobSettles`.

`OnlyEarliestStageApproved`, `InstallStartsTheBundle` and `StopsAtFailure` are what the
repository says and the code does not do: TLC shows each violated. No module
declares a RECURSIVE operator; `Only` (`AgentTurn`) and the sort key (`RpmVersion`) are
recursive functions.

## Not modelled

Left out as a whole:

- Scanners (`scanners/`): sockets, nmap and the parsing of answers, pure input and
  output. What is done with their results is in the discovery modules.
- Rules and their matching (`rules/`): a data-driven evaluation whose interest lies
  in the rules. Only the comparison of rpm versions is modelled.
- Reports and recommendations (`ai/report_renderer.py` and its callers): text from
  rows that are only read.
- The vulnerability library and intelligence: imports of external data, one
  transaction each; their task row is a `TaskRun`.
- Rate limits and device alerts: a window counter and a broadcast whose state meets
  that of no other component.
- Logs, audit, monitoring, the schema of the database, and the agent's text handling
  (context, redaction, evaluation): no state any modelled component decides on.
- The web and the mobile client: views. Their polling is a fairness assumption.

Parts of modelled components:

- Host runner: uninstalling, the deletion of the asset, version and capability columns.
- Campus discovery: the list in its section.
- Local discovery: what the stages do to hosts, services and labels.
- Agent: goals, prompts, streams, tools; in `AgentTurn`, turns that overlap.
- Tokens: the deny list of access tokens and the cache of user states, single writes
  with a lifetime.
- Model router: the pool of the single-node setting, weights and metrics.
- Settings: the re-encryption of secrets, row by row in one task.
- Terminal: the bridge between a web socket and an SSH channel.
- Assets, dashboard, exchange of data and mobile views: what is one transaction each.
