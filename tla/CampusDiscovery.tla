-------------------------- MODULE CampusDiscovery --------------------------
(***************************************************************************)
(* A discovery job of a CIDR that is scanned by the host runners of its    *)
(* zones, or by one chosen runner.                                         *)
(*                                                                         *)
(* The API request that creates the job commits one task per zone, one     *)
(* after the other, and the executions at its end; but every new task      *)
(* rolls back the executions that wait for that commit.  Each runner       *)
(* fetches its task, scans in two phases and reports each; the report      *)
(* updates its execution, if there is one, aggregates all executions into  *)
(* the job and closes the task, each in a transaction of its own.  Nobody  *)
(* locks the job: the aggregation reads it in one step and commits in      *)
(* another, and the commit overwrites the columns whose value it changed.  *)
(* A transaction that reads, assigns and commits in a row is one step.     *)
(***************************************************************************)
CONSTANTS
  Zones,    \* the scanner zones that match the CIDR, each with its own node
  Scopes,   \* how the job may be dispatched: subset of {"zones", "node"}
  Events    \* what else may happen: see the section on the environment

ASSUME CampusAssumption ==
  /\ Scopes \subseteq {"zones", "node"}
  /\ Events \subseteq {"cancel", "sweep", "clear", "lost", "slow", "rival"}

VARIABLES
  scope,    \* "zones": an execution per zone; "node": one runner, no executions
  job,      \* the discovery_jobs row
  rival,    \* a later job of the same CIDR is PENDING or RUNNING
  exec,     \* exec[z]: the discovery_job_executions row of zone z
  task,     \* task[t]: status of the task row t
  named,    \* tasks whose context is saved: a poll finds no others
  sched,    \* the request that creates and schedules the job
  runner,   \* runner[z]: the loop of the runner and the script it runs
  report,   \* report[z][k]: the request that reports success or failure
  harm      \* history: what went wrong so far, see the environment

rows == <<job, exec, task, named>>
vars == <<rows, scope, rival, sched, runner, report, harm>>

-----------------------------------------------------------------------------
(* Data *)

Phase == {"baseline", "deep"}
Parent == <<"job", "parent">>
Child == Zones \X Phase
Task == Child \cup {Parent}

Active == {"PENDING", "RUNNING"}
TaskStatus == Active \cup {"none", "SUCCESS", "FAILURE", "CANCELED", "deleted"}
Gone == {"none", "deleted"}

(***************************************************************************)
(* covered: the zones whose hosts the summary of the job holds; deep: its  *)
(* scan_phase is that of a final aggregation.                              *)
(***************************************************************************)
JobStatus == {"none", "PENDING", "RUNNING", "COMPLETED", "FAILED"}
Job == [status: JobStatus, covered: SUBSET Zones, deep: BOOLEAN]
Ended == {"COMPLETED", "FAILED"}

(***************************************************************************)
(* task is the phase of the task that task_run_id names.  base and deep    *)
(* tell whether summary_json holds baseline_scan_result and a scan_result. *)
(***************************************************************************)
Execution == [status: {"none", "pending", "running", "success", "failure"},
              task: Phase \cup {"none"}, base: BOOLEAN, deep: BOOLEAN]
NoExecution == [status |-> "none", task |-> "none", base |-> FALSE, deep |-> FALSE]

(***************************************************************************)
(* new: the zone whose task was just committed; added: the zones whose     *)
(* execution the next commit stores; lost: those whose execution was       *)
(* rolled back and is not added again.                                     *)
(***************************************************************************)
SchedStep == {"idle", "parent", "next", "name", "done", "error"}
Sched == [at: SchedStep, todo: SUBSET Zones, new: SUBSET Zones,
          added: SUBSET Zones, lost: SUBSET Zones]

RunnerStep == {"loop", "fetched", "assigned", "scan", "wait", "failing"}
Runner == [at: RunnerStep, phase: Phase]

(***************************************************************************)
(* A report keeps the status of the job it read (view), the zones it       *)
(* aggregates (found), whether the runner has given up on it (late) and    *)
(* whether another aggregation has saved assets since it read (clash).     *)
(***************************************************************************)
Kind == {"success", "failure"}
ReportStep == {"idle", "exec", "read", "commit", "create", "context", "swap",
               "final", "done", "error"}
Report == [at: ReportStep, phase: Phase, view: JobStatus,
           found: SUBSET Zones, late: BOOLEAN, clash: BOOLEAN]
NoReport == [at |-> "idle", phase |-> "baseline", view |-> "none",
             found |-> {}, late |-> FALSE, clash |-> FALSE]

TypeOK ==
  /\ scope \in Scopes
  /\ job \in Job
  /\ rival \in BOOLEAN
  /\ exec \in [Zones -> Execution]
  /\ task \in [Task -> TaskStatus]
  /\ named \subseteq Child
  /\ sched \in Sched
  /\ runner \in [Zones -> Runner]
  /\ report \in [Zones -> [Kind -> Report]]
  /\ harm \in {"none", "early", "late", "lost"}

Init ==
  /\ scope \in Scopes
  /\ job = [status |-> "none", covered |-> {}, deep |-> FALSE]
  /\ rival = FALSE
  /\ exec = [z \in Zones |-> NoExecution]
  /\ task = [t \in Task |-> "none"]
  /\ named = {}
  /\ sched = [at |-> "idle", todo |-> {}, new |-> {}, added |-> {}, lost |-> {}]
  /\ runner = [z \in Zones |-> [at |-> "loop", phase |-> "baseline"]]
  /\ report = [z \in Zones |-> [k \in Kind |-> NoReport]]
  /\ harm = "none"

Rows == {z \in Zones : exec[z].status # "none"}
Terminal == {"success", "failure"}
Open == {z \in Rows : exec[z].status \notin Terminal}

(* uq_discovery_jobs_active_cidr: only one job of a CIDR may be active. *)
Refused(new) ==
  new.status \in Active /\ job.status \notin Active /\ rival

-----------------------------------------------------------------------------
(* POST /discovery/jobs and schedule_campus_discovery_job *)

CreateJob ==
  /\ sched.at = "idle"
  /\ job' = [job EXCEPT !.status = "PENDING"]
  /\ sched' = [sched EXCEPT !.at = "parent"]
  /\ UNCHANGED <<scope, rival, exec, task, named, runner, report, harm>>

(***************************************************************************)
(* ensure_scan_task.  The parent of zones names no runner and is never     *)
(* fetched; with a chosen runner the task of the job is the scan itself.   *)
(***************************************************************************)
CreateParent ==
  /\ sched.at = "parent"
  /\ \/ /\ scope = "zones"
        /\ task' = [task EXCEPT ![Parent] = "PENDING"]
        /\ sched' = [sched EXCEPT !.at = "next", !.todo = Zones]
        /\ UNCHANGED named
     \/ /\ scope = "node"
        /\ \E z \in Zones :
             /\ task' = [task EXCEPT ![<<z, "baseline">>] = "PENDING"]
             /\ named' = {<<z, "baseline">>}
        /\ sched' = [sched EXCEPT !.at = "done"]
  /\ UNCHANGED <<scope, job, rival, exec, runner, report, harm>>

Unserved == [NoExecution EXCEPT !.status = "failure"]
Scheduled == [NoExecution EXCEPT !.status = "pending", !.task = "baseline"]

Served(z) == <<z, "baseline">> \in named

(***************************************************************************)
(* The foreign key refuses an execution that names a cleared task; once it *)
(* is flushed the key keeps its task from being cleared (Locked).          *)
(***************************************************************************)
Dangling == \E z \in sched.added : task[<<z, "baseline">>] = "deleted"
Locked(t) == \E z \in sched.added : t = <<z, "baseline">> /\ sched.added # {z}

RequestEnds(at) ==
  sched' = [sched EXCEPT !.at = at, !.todo = {}, !.new = {}, !.added = {}]

(* choose_scanner_node_for_zone finds nobody: flushed, not yet committed. *)
ScheduleUnserved(z) ==
  /\ sched.at = "next" /\ z \in sched.todo
  /\ IF Dangling THEN RequestEnds("error")
     ELSE sched' = [sched EXCEPT !.todo = @ \ {z}, !.added = @ \cup {z}]
  /\ UNCHANGED <<rows, scope, rival, runner, report, harm>>

(***************************************************************************)
(* create_task_run rolls the session back before it commits the task, and  *)
(* with it what was flushed: of these executions only that of z, which the *)
(* request still holds, is added again.                                    *)
(***************************************************************************)
ScheduleZone(z) ==
  /\ sched.at = "next" /\ z \in sched.todo
  /\ IF Dangling THEN RequestEnds("error") /\ UNCHANGED task
     ELSE /\ task' = [task EXCEPT ![<<z, "baseline">>] = "PENDING"]
          /\ sched' = [at |-> "name", todo |-> sched.todo \ {z}, new |-> {z},
                       added |-> {}, lost |-> sched.lost \cup sched.added]
  /\ UNCHANGED <<scope, job, rival, exec, named, runner, report, harm>>

(***************************************************************************)
(* The commit that lets a poll find the task; the execution waits for the  *)
(* next one.  A task that was cleared since makes the request fail.        *)
(***************************************************************************)
ScheduleName(z) ==
  /\ sched.at = "name" /\ z \in sched.new
  /\ IF task[<<z, "baseline">>] = "deleted"
       THEN RequestEnds("error") /\ UNCHANGED named
       ELSE /\ named' = named \cup {<<z, "baseline">>}
            /\ sched' = [sched EXCEPT !.at = "next", !.new = {}, !.added = {z}]
  /\ UNCHANGED <<scope, job, rival, exec, task, runner, report, harm>>

(***************************************************************************)
(* The last commit stores what is still added.  It decides on the          *)
(* executions the request holds, the lost ones included; their refresh     *)
(* then makes the request fail.                                            *)
(***************************************************************************)
ScheduleEnd ==
  /\ sched.at = "next" /\ sched.todo = {}
  /\ LET new == [job EXCEPT !.status =
                   IF \E z \in Zones : Served(z) THEN "RUNNING" ELSE "FAILED"]
     IN  IF Dangling \/ Refused(new)
           THEN RequestEnds("error") /\ UNCHANGED <<job, exec, task>>
           ELSE /\ job' = new
                /\ exec' = [z \in Zones |-> IF z \notin sched.added THEN exec[z]
                                            ELSE IF Served(z) THEN Scheduled ELSE Unserved]
                /\ task' = IF new.status = "FAILED" /\ task[Parent] # "deleted"
                             THEN [task EXCEPT ![Parent] = "FAILURE"] ELSE task
                /\ RequestEnds(IF sched.lost = {} THEN "done" ELSE "error")
  /\ UNCHANGED <<scope, rival, named, runner, report, harm>>

Schedule ==
  \/ CreateJob \/ CreateParent \/ ScheduleEnd
  \/ \E z \in Zones : ScheduleUnserved(z) \/ ScheduleZone(z) \/ ScheduleName(z)

-----------------------------------------------------------------------------
(* The runner of zone z: poll_runner_assignments and the scan script *)

RunnerGoes(z, at) == runner' = [runner EXCEPT ![z].at = at]

Fetch(z) ==
  /\ runner[z].at = "loop"
  /\ \E p \in Phase :
       /\ <<z, p>> \in named /\ task[<<z, p>>] = "PENDING"
       /\ runner' = [runner EXCEPT ![z] = [at |-> "fetched", phase |-> p]]
  /\ UNCHANGED <<rows, scope, rival, sched, report, harm>>

(* The status read is not compared again; only a cleared row stops the poll. *)
Assign(z) ==
  LET t == <<z, runner[z].phase>>
  IN  /\ runner[z].at = "fetched"
      /\ IF task[t] = "deleted"
           THEN RunnerGoes(z, "loop") /\ UNCHANGED task
           ELSE RunnerGoes(z, "assigned") /\ task' = [task EXCEPT ![t] = "RUNNING"]
      /\ UNCHANGED <<scope, job, rival, exec, named, sched, report, harm>>

(***************************************************************************)
(* The execution, or the job of a single runner, follows in the next       *)
(* commit.  If that is refused the runner gets no answer to its poll.      *)
(***************************************************************************)
Assigned(z) ==
  LET new == [job EXCEPT !.status = "RUNNING"]
      refused == scope = "node" /\ Refused(new)
  IN  /\ runner[z].at = "assigned"
      /\ exec' = IF exec[z].task = runner[z].phase
                   THEN [exec EXCEPT ![z].status = "running"] ELSE exec
      /\ job' = IF scope = "node" /\ ~refused THEN new ELSE job
      /\ RunnerGoes(z, IF refused THEN "loop" ELSE "scan")
      /\ UNCHANGED <<scope, rival, task, named, sched, report, harm>>

Send(z, k, phase) ==
  /\ report[z][k].at = "idle"
  /\ report' = [report EXCEPT ![z][k] = [NoReport EXCEPT !.at = "exec", !.phase = phase]]

(* A report that may find its execution not stored yet is early. *)
MayBeEarly ==
  harm' = IF harm = "none" /\ sched.at \notin {"done", "error"} THEN "early" ELSE harm

ScanSucceeds(z) ==
  /\ runner[z].at = "scan"
  /\ Send(z, "success", runner[z].phase)
  /\ RunnerGoes(z, "wait")
  /\ MayBeEarly
  /\ UNCHANGED <<rows, scope, rival, sched>>

(* A host without Python reports this at once. *)
ScanFails(z) ==
  /\ runner[z].at = "scan"
  /\ Send(z, "failure", runner[z].phase)
  /\ RunnerGoes(z, "failing")
  /\ MayBeEarly
  /\ UNCHANGED <<rows, scope, rival, sched>>

Answered(z, k) == report[z][k].at \in {"done", "error"}

(* The script is over: what its reports answered is read by nobody. *)
ScriptEnds(z) ==
  \/ runner[z].at = "wait" /\ report[z]["success"].at = "done"
  \/ runner[z].at = "failing" /\ Answered(z, "failure")

BackToLoop(z) ==
  /\ ScriptEnds(z)
  /\ RunnerGoes(z, "loop")
  /\ report' = [report EXCEPT ![z] =
       [k \in Kind |-> IF Answered(z, k) THEN NoReport ELSE @[k]]]
  /\ UNCHANGED <<rows, scope, rival, sched, harm>>

TooLate == "slow" \in Events /\ harm = "none" /\ harm' = "late"

(***************************************************************************)
(* Every exception of the report of success, a status 500 or no answer for *)
(* 30 seconds, makes the script report failure of the same task.           *)
(***************************************************************************)
ReportFailureInstead(z) ==
  /\ runner[z].at = "wait"
  /\ IF report[z]["success"].at = "error" THEN UNCHANGED harm ELSE TooLate
  /\ report[z]["failure"].at = "idle"
  /\ report' = [report EXCEPT ![z] =
       [success |-> IF Answered(z, "success") THEN NoReport ELSE [@.success EXCEPT !.late = TRUE],
        failure |-> [NoReport EXCEPT !.at = "exec", !.phase = runner[z].phase]]]
  /\ RunnerGoes(z, "failing")
  /\ UNCHANGED <<rows, scope, rival, sched>>

-----------------------------------------------------------------------------
(* complete_runner_task: the report k of the runner of zone z *)

Goto(z, k, at) == report' = [report EXCEPT ![z][k].at = at]

(* The end of the request: nobody waits for the answer of a late one. *)
Answer(z, k, at) ==
  report' = [report EXCEPT ![z][k] = IF @.late THEN NoReport ELSE [@ EXCEPT !.at = at]]

TaskOf(z, k) == <<z, report[z][k].phase>>

(* Mutation: the result of the deep phase is saved, its success is not. *)
NewExecutionNoStatus(e, k, phase) ==
  IF k = "failure" THEN [e EXCEPT !.status = "failure", !.deep = TRUE]
  ELSE IF phase = "baseline" THEN [e EXCEPT !.status = "running", !.base = TRUE]
  ELSE [e EXCEPT !.deep = TRUE]

(* Mutation: the execution takes over the status of the task. *)
NewExecutionCopied(e, k, phase) ==
  IF k = "failure" THEN [e EXCEPT !.status = "FAILURE", !.deep = TRUE]
  ELSE [e EXCEPT !.status = "SUCCESS", !.deep = TRUE]

(* update_discovery_execution_from_task: what a report makes of its execution. *)
NewExecution(e, k, phase) ==
  IF k = "failure" THEN [e EXCEPT !.status = "failure", !.deep = TRUE]
  ELSE IF phase = "baseline" THEN [e EXCEPT !.status = "running", !.base = TRUE]
  ELSE [e EXCEPT !.status = "success", !.deep = TRUE]

(***************************************************************************)
(* 404 for a cleared task.  No execution names the task of a single        *)
(* runner, or one whose execution is not stored.                           *)
(***************************************************************************)
ReportExecution(z, k) ==
  LET phase == report[z][k].phase
  IN  /\ report[z][k].at = "exec"
      /\ IF task[TaskOf(z, k)] = "deleted"
           THEN Answer(z, k, "error") /\ UNCHANGED exec
           ELSE /\ Goto(z, k, "read")
                /\ exec' = IF exec[z].task = phase
                             THEN [exec EXCEPT ![z] = NewExecution(@, k, phase)] ELSE exec
      /\ UNCHANGED <<scope, job, rival, task, named, sched, runner, harm>>

(***************************************************************************)
(* aggregate_campus_discovery_job: a baseline takes what there is, a final *)
(* aggregation waits until every execution ended.  A single runner's       *)
(* result is taken as it is (apply_runner_discovery_scan_result).          *)
(***************************************************************************)
Found(z, k) ==
  IF scope = "node" THEN (IF k = "success" THEN {z} ELSE {})
  ELSE IF k = "success" /\ report[z][k].phase = "baseline" THEN {y \in Rows : exec[y].base}
  ELSE IF Open # {} THEN {}
  ELSE {y \in Rows : exec[y].status = "success" /\ exec[y].deep}

IsFinal(z, k) == k = "failure" \/ report[z][k].phase = "deep"

(* Mutation: the deep phase is followed up like the baseline. *)
AfterAggregationAgain(z, k) == IF k = "failure" THEN "final" ELSE "create"

AfterAggregation(z, k) == IF IsFinal(z, k) THEN "final" ELSE "create"

ReportRead(z, k) ==
  /\ report[z][k].at = "read"
  /\ report' = [report EXCEPT ![z][k].view = job.status,
       ![z][k].found = Found(z, k),
       ![z][k].at = IF Found(z, k) = {} THEN AfterAggregation(z, k) ELSE "commit"]
  /\ UNCHANGED <<rows, scope, rival, sched, runner, harm>>

(* The job with status new, written only if the report read another status. *)
Written(view, new) == IF new = view THEN job.status ELSE new

(* Mutation: any aggregation completes the job. *)
AggregatedAtOnce(z, k) ==
  [status |-> Written(report[z][k].view, "COMPLETED"),
   covered |-> report[z][k].found, deep |-> IsFinal(z, k)]

Aggregated(z, k) ==
  [status |-> Written(report[z][k].view, IF IsFinal(z, k) THEN "COMPLETED" ELSE "RUNNING"),
   covered |-> report[z][k].found, deep |-> IsFinal(z, k)]

(***************************************************************************)
(* A final aggregation completes the job and its parent task and saves the *)
(* hosts as assets; an earlier one sets the job RUNNING.                   *)
(***************************************************************************)
ReportAggregate(z, k) ==
  LET final == IsFinal(z, k)
      new == Aggregated(z, k)
  IN  /\ report[z][k].at = "commit"
      /\ ~Refused(new)
      /\ job' = new
      /\ task' = IF final /\ task[Parent] \notin Gone
                   THEN [task EXCEPT ![Parent] = "SUCCESS"] ELSE task
      /\ report' = [y \in Zones |-> [l \in Kind |->
           LET r == report[y][l]
           IN  IF y = z /\ l = k
                 THEN [r EXCEPT !.at = AfterAggregation(z, k), !.clash = FALSE]
               ELSE IF r.at = "commit" /\ final /\ IsFinal(y, l)
                 THEN [r EXCEPT !.clash = TRUE]
               ELSE r]]
      /\ UNCHANGED <<scope, rival, exec, named, sched, runner, harm>>

(***************************************************************************)
(* The commit fails when the CIDR has another active job, or when the      *)
(* address of a new asset was saved by the other aggregation first.        *)
(***************************************************************************)
ReportAggregateFails(z, k) ==
  /\ report[z][k].at = "commit"
  /\ Refused(Aggregated(z, k)) \/ report[z][k].clash
  /\ Answer(z, k, "error")
  /\ UNCHANGED <<rows, scope, rival, sched, runner, harm>>

(***************************************************************************)
(* _queue_runner_asset_scan_followup_task, in three commits.  The task is  *)
(* read again after each commit of its session, which fails if it was      *)
(* cleared; without an aggregation of zones the follow-up's is the first.  *)
(***************************************************************************)
FollowupCreate(z) ==
  /\ report[z]["success"].at = "create"
  /\ IF scope = "zones" /\ report[z]["success"].found # {}
          /\ task[TaskOf(z, "success")] = "deleted"
       THEN Answer(z, "success", "error") /\ UNCHANGED task
       ELSE /\ task' = [task EXCEPT ![<<z, "deep">>] = "PENDING"]
            /\ Goto(z, "success", "context")
  /\ UNCHANGED <<scope, job, rival, exec, named, sched, runner, harm>>

FollowupContext(z) ==
  /\ report[z]["success"].at = "context"
  /\ IF task[<<z, "deep">>] = "deleted"
       THEN Answer(z, "success", "error") /\ UNCHANGED named
       ELSE named' = named \cup {<<z, "deep">>} /\ Goto(z, "success", "swap")
  /\ UNCHANGED <<scope, job, rival, exec, task, sched, runner, harm>>

FollowupSwap(z) ==
  /\ report[z]["success"].at = "swap"
  /\ IF task[TaskOf(z, "success")] = "deleted"
       THEN Answer(z, "success", "error") /\ UNCHANGED exec
       ELSE /\ exec' = IF exec[z].task = "baseline"
                         THEN [exec EXCEPT ![z].task = "deep", ![z].status = "pending"]
                         ELSE exec
            /\ Goto(z, "success", "final")
  /\ UNCHANGED <<scope, job, rival, task, named, sched, runner, harm>>

(***************************************************************************)
(* The task is closed whatever its status; a failure ends the job as well, *)
(* whatever the other zones do.                                            *)
(***************************************************************************)
ReportFinal(z, k) ==
  /\ report[z][k].at = "final"
  /\ IF task[TaskOf(z, k)] = "deleted"
       THEN Answer(z, k, "error") /\ UNCHANGED <<job, task>>
       ELSE /\ Answer(z, k, "done")
            /\ task' = [task EXCEPT ![TaskOf(z, k)] =
                          IF k = "success" THEN "SUCCESS" ELSE "FAILURE"]
            /\ job' = IF k = "failure" THEN [job EXCEPT !.status = "FAILED"] ELSE job
  /\ UNCHANGED <<scope, rival, exec, named, sched, runner, harm>>

-----------------------------------------------------------------------------
(* The environment: the task list, time, the network, other jobs *)

(***************************************************************************)
(* harm is "lost" when a task was canceled, swept or cleared, or a call    *)
(* was lost, "late" when a runner gave up on a report, and "early" when a  *)
(* report came before the executions were stored.  Bound: once.            *)
(***************************************************************************)

(* The task list knows nothing of executions and jobs. *)
CloseTask(t, new) ==
  /\ harm = "none" /\ task[t] \in Active
  /\ task' = [task EXCEPT ![t] = new]
  /\ harm' = "lost"
  /\ UNCHANGED <<scope, job, rival, exec, named, sched, runner, report>>

Cancel(t) == "cancel" \in Events /\ CloseTask(t, "CANCELED")
Sweep(t) == "sweep" \in Events /\ CloseTask(t, "FAILURE")

(* The foreign key of an execution is set to null. *)
Clear(t) ==
  /\ "clear" \in Events
  /\ harm = "none" /\ task[t] \notin Gone /\ ~Locked(t)
  /\ task' = [task EXCEPT ![t] = "deleted"]
  /\ exec' = [z \in Zones |-> IF t = <<z, exec[z].task>>
                                THEN [exec[z] EXCEPT !.task = "none"] ELSE exec[z]]
  /\ harm' = "lost"
  /\ UNCHANGED <<scope, job, rival, named, sched, runner, report>>

(* The answer to the poll, or the report, never arrives; the script ends. *)
Lose(z) ==
  /\ "lost" \in Events /\ harm = "none"
  /\ runner[z].at = "scan"
  /\ RunnerGoes(z, "loop")
  /\ harm' = "lost"
  /\ UNCHANGED <<rows, scope, rival, sched, report>>

(* The report of a failure is answered too late: the script ends. *)
GiveUp(z) ==
  /\ TooLate
  /\ runner[z].at = "failing" /\ ~Answered(z, "failure")
  /\ report' = [report EXCEPT ![z]["failure"].late = TRUE]
  /\ RunnerGoes(z, "loop")
  /\ UNCHANGED <<rows, scope, rival, sched>>

(* POST for a CIDR without an active job creates another one, which ends. *)
RivalStarts ==
  /\ "rival" \in Events /\ ~rival
  /\ job.status \in Ended
  /\ rival' = TRUE
  /\ UNCHANGED <<rows, scope, sched, runner, report, harm>>

RivalEnds ==
  /\ rival
  /\ rival' = FALSE
  /\ UNCHANGED <<rows, scope, sched, runner, report, harm>>

-----------------------------------------------------------------------------
RunnerActs(z) ==
  \/ Fetch(z) \/ Assign(z) \/ Assigned(z) \/ ScanSucceeds(z) \/ ScanFails(z)
  \/ BackToLoop(z) \/ ReportFailureInstead(z)

ReportActs(z, k) ==
  \/ ReportExecution(z, k) \/ ReportRead(z, k)
  \/ ReportAggregate(z, k) \/ ReportAggregateFails(z, k) \/ ReportFinal(z, k)
  \/ k = "success" /\ (FollowupCreate(z) \/ FollowupContext(z) \/ FollowupSwap(z))

Next ==
  \/ Schedule
  \/ \E z \in Zones : RunnerActs(z) \/ Lose(z) \/ GiveUp(z)
  \/ \E z \in Zones, k \in Kind : ReportActs(z, k)
  \/ \E t \in Task : Cancel(t) \/ Sweep(t) \/ Clear(t)
  \/ RivalStarts \/ RivalEnds

Spec == Init /\ [][Next]_vars

(***************************************************************************)
(* The request that schedules and the reports run to their end, and the    *)
(* runners poll, scan and report.                                          *)
(***************************************************************************)
Fairness ==
  /\ WF_vars(Schedule)
  /\ \A z \in Zones : WF_vars(RunnerActs(z))
  /\ \A z \in Zones, k \in Kind : WF_vars(ReportActs(z, k))

FairSpec == Spec /\ Fairness

-----------------------------------------------------------------------------
(* Properties *)

(* Lost zones with a task: their reports find no execution.                *)
Orphans == {z \in sched.lost : Served(z)}

(***************************************************************************)
(* A job that reads COMPLETED waits for no stored execution, and holds the *)
(* hosts of every zone whose execution or task of the deep phase reads     *)
(* success, but for the zones whose execution was rolled back.  What it    *)
(* holds is of the deep phase, unless an orphan's baseline wrote it over:  *)
(* no early or stale reading of the executions finishes the job.           *)
(* This is so while no runner gives up on a report: one that outlives a    *)
(* second scan of its zone can overwrite a later aggregation.              *)
(***************************************************************************)
CompletedCoversSuccesses ==
  job.status = "COMPLETED" /\ harm # "late" =>
    /\ Open = {}
    /\ \A z \in Zones \ sched.lost :
         exec[z].status = "success" \/ task[<<z, "deep">>] = "SUCCESS" => z \in job.covered
    /\ job.deep \/ Orphans # {}

(***************************************************************************)
(* A completed job is active again only through a report whose runner gave *)
(* up on it, or through the baseline of a zone without an execution: the   *)
(* client may stop polling a job that reads COMPLETED.                     *)
(***************************************************************************)
ReopenedByALateReport ==
  job.status = "COMPLETED" /\ job'.status \in Active =>
    \E z \in Zones :
      \/ report[z]["success"].late
      \/ z \in Orphans /\ report[z]["success"].phase = "baseline"
           /\ report[z]["success"].at = "commit"

CompletedIsNotReopened == [][ReopenedByALateReport]_vars

(***************************************************************************)
(* The job ends for good unless one of its tasks was canceled, swept or    *)
(* cleared, or a call was lost, early or too late: whatever the order of   *)
(* the steps, the last report finds every execution ended.  Not so with an *)
(* orphan: its baseline makes an ended job active again, after every       *)
(* report that could end it.                                               *)
(***************************************************************************)
JobSettles == <>[](job.status \in Ended \/ harm # "none" \/ Orphans # {})

(***************************************************************************)
(* What may go on: the guards of Schedule, RunnerActs and ReportActs, but  *)
(* for the steps that only a late answer allows.                           *)
(***************************************************************************)
ScheduleMayGoOn ==
  \/ sched.at \in {"idle", "parent", "next"}
  \/ sched.at = "name" /\ sched.new # {}

RunnerMayGoOn(z) ==
  \/ runner[z].at = "loop"
       /\ \E p \in Phase : <<z, p>> \in named /\ task[<<z, p>>] = "PENDING"
  \/ runner[z].at \in {"fetched", "assigned"}
  \/ runner[z].at = "scan" /\ report[z]["failure"].at = "idle"
  \/ ScriptEnds(z)
  \/ /\ runner[z].at = "wait"
     /\ report[z]["success"].at = "error" /\ report[z]["failure"].at = "idle"

ReportMayGoOn(z, k) ==
  \/ report[z][k].at \in {"exec", "read", "commit", "final"}
  \/ k = "success" /\ report[z][k].at \in {"create", "context", "swap"}

JobMayGoOn ==
  \/ ScheduleMayGoOn
  \/ \E z \in Zones : RunnerMayGoOn(z)
  \/ \E z \in Zones, k \in Kind : ReportMayGoOn(z, k)

(***************************************************************************)
(* A job that did not end has a step to take that needs no outside event:  *)
(* as long as no task was taken from it and no call was lost, early or too *)
(* late, its schedule, a runner or a report goes on, whatever the order of *)
(* the polls, the reports and the aggregations; but for an orphan's job.   *)
(***************************************************************************)
NotForgotten ==
  harm = "none" /\ Orphans = {} => job.status \in Ended \/ JobMayGoOn

=============================================================================
