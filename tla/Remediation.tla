---------------------------- MODULE Remediation ----------------------------
(***************************************************************************)
(* The remediation of one host: the sessions of its asset, the stages of   *)
(* the host plan, the tasks that the host runner fetches and reports, and  *)
(* the re-verification that judges whether a stage closed its risks.       *)
(*                                                                         *)
(* Five kinds of actors write the session row and none of them locks it:   *)
(* API reads (each GET repairs the row from its last task), approvals      *)
(* (three commits), the report of the runner (three commits), the          *)
(* re-verification worker and the worker that writes AI explanations.      *)
(* A transaction that computes a host plan or calls a model is two steps,  *)
(* its read and its commit, and the commit overwrites what was committed   *)
(* meanwhile in every column whose value it changed.  A transaction that   *)
(* reads, assigns and commits in a row is one step.                        *)
(***************************************************************************)
EXTENDS Naturals, Sequences

CONSTANTS
  MaxSessions,   \* bound: rows of remediation_sessions, in creation order
  MaxTasks,      \* bound: remediation_execute rows, in creation order
  NumStages,     \* phases of the host plan that may hold steps
  StepStates,    \* what a phase may hold: subset of {"none","ready","blocked"}
  Clients,       \* API requests and AI jobs in progress at the same time
  AutoReverify,  \* settings.REMEDIATION_AUTO_REVERIFY_ENABLED
  Requests,      \* what clients ask for: subset of {"get","ai","apply","dry_run"}
  Events         \* what else may happen: see the section on the environment

ASSUME RemediationAssumption ==
  /\ MaxSessions \in Nat /\ MaxTasks \in Nat /\ NumStages \in Nat
  /\ StepStates \subseteq {"none", "ready", "blocked"}
  /\ AutoReverify \in BOOLEAN
  /\ Requests \subseteq {"get", "ai", "apply", "dry_run"}
  /\ Events \subseteq {"cancel", "sweep", "clear", "crash", "findings", "offline"}

Session == 1..MaxSessions
Task == 1..MaxTasks
Stage == 1..NumStages
HostStatus == {"online", "busy", "offline"}
None == 0        \* no task, no stage

VARIABLES
  steps,     \* steps[k]: what the open findings put into phase k
  runner,    \* status of the host runner as a read shows it
  sess,      \* sess[s]: the session row
  task,      \* task[t]: the task row of the t-th approval
  reverify,  \* reverify[t]: the re-verification queued for task t
  job,       \* the runner and the request it has in progress
  req        \* req[c]: the API request or AI job c

vars == <<steps, runner, sess, task, reverify, job, req>>

-----------------------------------------------------------------------------
(* Data *)

SessionStatus == {"absent", "draft", "ready", "running",
                  "completed", "failed", "canceled"}
Ended == {"completed", "failed", "canceled"}
Gate == {"absent", "completed", "running", "locked", "blocked", "ready"}
PlanMode == {"failed", "completed", "running", "partial", "ready", "blocked"}

Plan == [gates: [Stage -> Gate], mode: PlanMode]
NoPlan == [gates |-> [k \in Stage |-> "absent"], mode |-> "blocked"]
Snapshot == [steps: [Stage -> StepStates], runner: HostStatus,
             completed: SUBSET Stage, running: 0..NumStages]

(***************************************************************************)
(* completed and running are completed_stage_codes and running_stage_code  *)
(* of the one column summary_json; plan is plan_json, and snap, a set of   *)
(* at most one element, is finding_snapshot_json.                          *)
(***************************************************************************)
SessionRow == [status: SessionStatus, completed: SUBSET Stage,
               running: 0..NumStages, last: 0..MaxTasks,
               plan: Plan, snap: SUBSET Snapshot]
NewSession == [status |-> "draft", completed |-> {}, running |-> None,
               last |-> None, plan |-> NoPlan, snap |-> {}]
NoSession == [NewSession EXCEPT !.status = "absent"]

Active == {"PENDING", "RUNNING"}
Terminal == {"SUCCESS", "FAILURE", "CANCELED"}
Verdict == {"closed", "partial", "failed"}

(***************************************************************************)
(* context: result_json names the session and the stage; before that only  *)
(* the approving request knows them.  ran is history: the runner got it.   *)
(***************************************************************************)
TaskRow == [status: Active \cup Terminal \cup {"DELETED"},
            session: Session, stage: Stage,
            mode: {"apply", "dry_run"}, context: BOOLEAN,
            business: Verdict \cup {"none", "pending"}, ran: BOOLEAN]

JobStep == {"idle", "polled", "execute", "report", "update", "commit"}
JobRow == [at: JobStep, task: 0..MaxTasks, ok: BOOLEAN, queued: BOOLEAN,
           view: SessionRow, out: SessionRow]
NoJob == [at |-> "idle", task |-> None, ok |-> FALSE, queued |-> FALSE,
          view |-> NoSession, out |-> NoSession]

(***************************************************************************)
(* A request keeps the session row it read (view), the row it computed     *)
(* from it (out), and the row it inserts, if it does (new).  out.plan of   *)
(* an approval is the plan it takes the stage from.                        *)
(***************************************************************************)
RequestOp == {"none", "get", "create", "ai", "apply", "dry_run", "context", "submit"}
RequestRow == [op: RequestOp, session: 0..MaxSessions, task: 0..MaxTasks,
               view: SessionRow, out: SessionRow, new: SessionRow]
NoRequest == [op |-> "none", session |-> 0, task |-> None,
              view |-> NoSession, out |-> NoSession, new |-> NoSession]

TypeOK ==
  /\ steps \in [Stage -> StepStates]
  /\ runner \in HostStatus
  /\ sess \in [Session -> SessionRow]
  /\ task \in Seq(TaskRow) /\ Len(task) <= MaxTasks
  /\ reverify \in [Task -> {"none", "queued", "running", "evaluated",
                            "judged", "done", "lost"}]
  /\ job \in JobRow
  /\ req \in [Clients -> RequestRow]

Init ==
  /\ steps \in [Stage -> StepStates]
  /\ runner = "online"
  /\ sess = [s \in Session |-> NoSession]
  /\ task = <<>>
  /\ reverify = [t \in Task |-> "none"]
  /\ job = NoJob
  /\ req = [c \in Clients |-> NoRequest]

-----------------------------------------------------------------------------
(* The host plan: a function of the session row and the status of the host. *)

MinOf(S) == CHOOSE k \in S : \A j \in S : k <= j

(* Phases with steps, and phases already done or running, become stages. *)
StagesOf(row) ==
  {k \in Stage : steps[k] # "none" \/ k \in row.completed \/ k = row.running}

(* The first stage that is not completed is the only one that may be ready. *)
GateOf(row, host, k) ==
  LET pending == StagesOf(row) \ row.completed
  IN  IF k \notin StagesOf(row) THEN "absent"
      ELSE IF k \in row.completed THEN "completed"
      ELSE IF row.running = k /\ row.status = "running" THEN "running"
      ELSE IF k # MinOf(pending) THEN "locked"
      ELSE IF host = "offline" THEN "blocked"
      ELSE IF steps[k] = "none" THEN "locked" ELSE steps[k]

ModeOf(row, gates) ==
  LET here == {k \in Stage : gates[k] # "absent"}
      ready == \E k \in Stage : gates[k] = "ready"
  IN  IF row.status \in {"failed", "completed"} THEN row.status
      ELSE IF \/ \E k \in here : gates[k] = "running"
              \/ row.status = "running" /\ row.running # None THEN "running"
      ELSE IF here # {} /\ \A k \in here : gates[k] = "completed" THEN "completed"
      ELSE IF ready /\ row.completed # {} THEN "partial"
      ELSE IF ready THEN "ready" ELSE "blocked"

BuildHostPlan(row, host) ==
  LET gates == [k \in Stage |-> GateOf(row, host, k)]
  IN  [gates |-> gates, mode |-> ModeOf(row, gates)]

ReadyStages(plan) == {k \in Stage : plan.gates[k] = "ready"}

(* What a cached plan must match: the status of the session is not in it. *)
SnapshotOf(row, host) == [steps |-> steps, runner |-> host,
                          completed |-> row.completed, running |-> row.running]

ResolveSessionPlan(row, host) ==
  IF SnapshotOf(row, host) \in row.snap THEN row.plan ELSE BuildHostPlan(row, host)

PersistSnapshot(row, plan, host) ==
  [row EXCEPT !.plan = plan, !.snap = {SnapshotOf(row, host)}]

HasLastTask(row) == row.last # None /\ task[row.last].status # "DELETED"

(* Mutation: a stage whose risks are not yet verified is not completed any more. *)
ReconcileWithdrawsPending(row) ==
  IF ~HasLastTask(row) THEN row
  ELSE IF task[row.last].business = "pending"
    THEN [row EXCEPT !.completed = @ \ {task[row.last].stage}]
    ELSE row

(* Mutation: only a success ends the stage in progress. *)
ReconcileKeepsFailedRunning(row) ==
  IF HasLastTask(row) /\ task[row.last].status # "SUCCESS"
    THEN [row EXCEPT !.running = task[row.last].stage] ELSE row

(***************************************************************************)
(* _reconcile_session_task_progress: the stage progress follows the last   *)
(* task of the session.                                                    *)
(***************************************************************************)
Reconcile(row) ==
  IF ~HasLastTask(row) THEN row ELSE
  LET t == task[row.last]
      cleared == IF row.running = t.stage THEN None ELSE row.running
  IN  CASE t.status \in Active -> [row EXCEPT !.running = t.stage]
        [] t.status = "SUCCESS" ->
             [row EXCEPT
                !.completed = IF t.mode = "apply" /\ t.business = "closed"
                                THEN @ \cup {t.stage} ELSE @,
                !.running = IF t.business = "pending" THEN t.stage ELSE cleared]
        [] OTHER -> [row EXCEPT !.running = cleared]

(* Mutation: the status of the task is copied without translation. *)
StatusFromTaskCopied(row, plan) ==
  IF HasLastTask(row) THEN task[row.last].status ELSE "draft"

(* The session status that the last task alone would give. *)
StatusFromTask(row, plan) ==
  LET idle == IF ReadyStages(plan) # {} THEN "ready" ELSE "draft"
      t == task[row.last]
  IN  IF ~HasLastTask(row) THEN idle
      ELSE CASE t.status \in Active  -> "running"
             [] t.status = "FAILURE"  -> "failed"
             [] t.status = "CANCELED" -> "canceled"
             [] t.status = "SUCCESS"  ->
                  IF t.mode = "dry_run" THEN idle
                  ELSE CASE t.business = "pending" -> "running"
                         [] t.business = "failed"  -> "failed"
                         [] t.business = "none"    -> "completed"
                         [] OTHER                  -> idle

(* _synchronize_session_runtime_state_with_plan. *)
Synchronize(row, plan) ==
  [row EXCEPT
     !.last = IF HasLastTask(row) THEN @ ELSE None,
     !.status = IF plan.mode \in {"completed", "failed", "running"}
                  THEN plan.mode ELSE StatusFromTask(row, plan)]

(* Mutation: the progress is reconciled last, after the plan is stored. *)
RefreshReconcilesLast(row, host) ==
  LET plan == ResolveSessionPlan(row, host)
  IN  Reconcile(Synchronize(PersistSnapshot(row, plan, host), plan))

(* What every read of a session does to its row. *)
Refresh(row, host) ==
  LET r == Reconcile(row)
      plan == ResolveSessionPlan(r, host)
  IN  Synchronize(PersistSnapshot(r, plan, host), plan)

-----------------------------------------------------------------------------
(* API requests and the AI worker. *)

Rows == {s \in Session : sess[s].status # "absent"}
FreeRows == Session \ Rows

Finish(c) == req' = [req EXCEPT ![c] = NoRequest]

Read(c, op, s, out) ==
  req' = [req EXCEPT ![c] = [NoRequest EXCEPT !.op = op, !.session = s,
                               !.view = sess[s], !.out = out]]

(* GET of a session, a message, or the asset page: read and compute. *)
GetBegin(c, s) ==
  /\ "get" \in Requests
  /\ req[c].op = "none"
  /\ UNCHANGED <<steps, runner, sess, task, reverify, job>>
  /\ Read(c, "get", s, Refresh(sess[s], runner))

(* The AI worker first refreshes the session, which is a GET, then starts   *)
(* again, and calls the model before it commits: of the columns here only   *)
(* the progress moves.                                                      *)
AiBegin(c, s) ==
  /\ "ai" \in Requests
  /\ req[c].op = "none"
  /\ Read(c, "ai", s, Reconcile(sess[s]))
  /\ UNCHANGED <<steps, runner, sess, task, reverify, job>>

(***************************************************************************)
(* _latest_session: the newest that has not ended; if there is none, or    *)
(* its refresh shows that it ended, a new one is inserted.                 *)
(***************************************************************************)
CreateBegin(c) ==
  LET open == {s \in Rows : sess[s].status \notin Ended}
      s == CHOOSE s \in open : \A r \in open : r <= s
      out == Refresh(sess[s], runner)
      new == Refresh(NewSession, runner)
  IN  /\ req[c].op = "none"
      /\ FreeRows # {}
      /\ req' = [req EXCEPT ![c] = IF open = {}
           THEN [NoRequest EXCEPT !.op = "create", !.new = new]
           ELSE [NoRequest EXCEPT !.op = "create", !.session = s, !.view = sess[s],
                   !.out = out, !.new = IF out.status \in Ended THEN new ELSE @]]
      /\ UNCHANGED <<steps, runner, sess, task, reverify, job>>

(***************************************************************************)
(* The columns a commit writes: those whose value the request changed.     *)
(* force: summary_json was changed by other keys of it than the progress.  *)
(***************************************************************************)
Merge(now, view, out, force) ==
  LET Changed(f) == out[f] # view[f]
      Column(f) == IF Changed(f) THEN out[f] ELSE now[f]
      summary == IF force \/ Changed("completed") \/ Changed("running")
                   THEN out ELSE now
  IN  [status |-> Column("status"), completed |-> summary.completed,
       running |-> summary.running, last |-> Column("last"),
       plan |-> Column("plan"), snap |-> Column("snap")]

Written(c, force) ==
  LET s == req[c].session
  IN  IF s = 0 THEN sess
      ELSE [sess EXCEPT ![s] = Merge(@, req[c].view, req[c].out, force)]

GetCommit(c) ==
  /\ req[c].op = "get"
  /\ \E force \in BOOLEAN : sess' = Written(c, force)
  /\ Finish(c)
  /\ UNCHANGED <<steps, runner, task, reverify, job>>

AiCommit(c) ==
  /\ req[c].op = "ai"
  /\ sess' = Written(c, TRUE)
  /\ Finish(c)
  /\ UNCHANGED <<steps, runner, task, reverify, job>>

(* MaxSessions is a bound: when it is used up the insert is left out. *)
CreateCommit(c) ==
  /\ req[c].op = "create"
  /\ \E force \in BOOLEAN :
       IF FreeRows # {} /\ req[c].new # NoSession
         THEN sess' = [Written(c, force) EXCEPT ![MinOf(FreeRows)] = req[c].new]
         ELSE sess' = Written(c, force)
  /\ Finish(c)
  /\ UNCHANGED <<steps, runner, task, reverify, job>>

(***************************************************************************)
(* approve_remediation_session reads the session and checks that a stage   *)
(* is ready.                                                               *)
(***************************************************************************)
ApproveBegin(c, s, mode) ==
  LET row == Reconcile(sess[s])
      plan == ResolveSessionPlan(row, runner)
  IN  /\ req[c].op = "none"
      /\ Len(task) < MaxTasks
      /\ ReadyStages(plan) # {}
      /\ Read(c, mode, s, [row EXCEPT !.plan = plan])
      /\ UNCHANGED <<steps, runner, sess, task, reverify, job>>

(* Mutation: the stage is marked as running before the task has its context. *)
ApproveTaskMarksEarly(c) ==
  LET s == req[c].session
      k == MinOf(ReadyStages(req[c].out.plan))
  IN  /\ req[c].op \in {"apply", "dry_run"} /\ Len(task) < MaxTasks
      /\ sess' = [sess EXCEPT ![s].running = k]
      /\ task' = Append(task, [status |-> "PENDING", session |-> s, stage |-> k,
            mode |-> req[c].op, context |-> FALSE, business |-> "none", ran |-> FALSE])
      /\ req' = [req EXCEPT ![c].op = "context", ![c].task = Len(task) + 1]
      /\ UNCHANGED <<steps, runner, reverify, job>>

(***************************************************************************)
(* First commit: the task row, which does not name its session yet.        *)
(* create_task_run rolls back first, so nothing of what the read found to  *)
(* repair is saved.                                                        *)
(***************************************************************************)
ApproveTask(c) ==
  LET s == req[c].session
      plan == req[c].out.plan
  IN  /\ req[c].op \in {"apply", "dry_run"}
      /\ Len(task) < MaxTasks
      /\ task' = Append(task,
           [status |-> "PENDING", session |-> s, stage |-> MinOf(ReadyStages(plan)),
            mode |-> req[c].op, context |-> FALSE, business |-> "none", ran |-> FALSE])
      /\ req' = [req EXCEPT ![c] = [NoRequest EXCEPT !.op = "context",
                   !.session = s, !.task = Len(task) + 1, !.out.plan = plan]]
      /\ UNCHANGED <<steps, runner, sess, reverify, job>>

(***************************************************************************)
(* Second commit: the result context.  For a dry run the same commit       *)
(* closes the task; otherwise it marks the stage as running.               *)
(***************************************************************************)
ApproveContext(c) ==
  LET t == req[c].task
      s == req[c].session
      apply == task[t].mode = "apply"
  IN  /\ req[c].op = "context"
      /\ IF task[t].status = "DELETED"
           THEN Finish(c) /\ UNCHANGED <<sess, task>>
           ELSE /\ task' = [task EXCEPT ![t].context = TRUE,
                     ![t].status = IF apply THEN @ ELSE "SUCCESS"]
                /\ sess' = IF apply THEN [sess EXCEPT ![s].running = task[t].stage]
                           ELSE sess
                /\ req' = [req EXCEPT ![c].op = "submit"]
      /\ UNCHANGED <<steps, runner, reverify, job>>

(***************************************************************************)
(* Third commit.  The plan of the first one is stored with the snapshot of *)
(* now, so it still counts as fresh although the stage was dispatched.     *)
(* The event and last_task_id refer to the task: without it nothing is     *)
(* saved.                                                                  *)
(***************************************************************************)
ApproveSubmit(c) ==
  LET t == req[c].task
      s == req[c].session
      row == [sess[s] EXCEPT !.last = t,
                !.status = IF task[t].mode = "apply" THEN "running" ELSE @]
  IN  /\ req[c].op = "submit"
      /\ sess' = IF task[t].status = "DELETED" THEN sess
                 ELSE [sess EXCEPT ![s] = PersistSnapshot(row, req[c].out.plan, runner)]
      /\ Finish(c)
      /\ UNCHANGED <<steps, runner, task, reverify, job>>

-----------------------------------------------------------------------------
(* The host runner: poll, execute, report. *)

(* Mutation: a task is dispatched before its session is known. *)
DispatchableWithoutContext(t) == task[t].status = "PENDING"

(* Mutation: a task whose report is missing is handed out again. *)
DispatchableAgain(t) == task[t].status \in Active /\ task[t].context

Dispatchable(t) == task[t].status = "PENDING" /\ task[t].context

PollRead ==
  LET mine == {t \in DOMAIN task : Dispatchable(t)}
  IN  /\ job.at = "idle"
      /\ IF mine = {}
           THEN runner' = "online" /\ UNCHANGED job
           ELSE /\ job' = [NoJob EXCEPT !.at = "polled", !.task = MinOf(mine)]
                /\ UNCHANGED runner
      /\ UNCHANGED <<steps, sess, task, reverify, req>>

(* The status read is not compared again: a cancel in between is lost. *)
PollCommit ==
  /\ job.at = "polled"
  /\ IF task[job.task].status = "DELETED"
       THEN job' = NoJob /\ UNCHANGED <<runner, task>>
       ELSE /\ task' = [task EXCEPT ![job.task].status = "RUNNING",
                                    ![job.task].ran = TRUE]
            /\ runner' = "busy"
            /\ job' = [job EXCEPT !.at = "execute"]
  /\ UNCHANGED <<steps, sess, reverify, req>>

(***************************************************************************)
(* The steps ran; some of them may have succeeded even when the stage did  *)
(* not.  The re-verification is published before the report is saved.      *)
(***************************************************************************)
Complete ==
  /\ job.at = "execute"
  /\ \E ok, some \in BOOLEAN :
       IF task[job.task].status = "DELETED"
         THEN job' = NoJob /\ UNCHANGED reverify
         ELSE /\ job' = [job EXCEPT !.at = "report", !.ok = ok,
                                    !.queued = AutoReverify /\ some]
              /\ reverify' = IF AutoReverify /\ some
                               THEN [reverify EXCEPT ![job.task] = "queued"]
                               ELSE reverify
  /\ UNCHANGED <<steps, runner, sess, task, req>>

(***************************************************************************)
(* Whatever the status is by now, it is overwritten.  Without a commit in  *)
(* between, result_json was changed in place and is not written.           *)
(***************************************************************************)
CompleteTask ==
  /\ job.at = "report"
  /\ IF task[job.task].status = "DELETED"
       THEN job' = NoJob /\ UNCHANGED task
       ELSE /\ task' = [task EXCEPT
                 ![job.task].status = IF job.ok THEN "SUCCESS" ELSE "FAILURE",
                 ![job.task].business = IF ~job.queued THEN @
                                        ELSE IF job.ok THEN "pending" ELSE "failed"]
            /\ job' = [job EXCEPT !.at = "update"]
  /\ UNCHANGED <<steps, runner, sess, reverify, req>>

(***************************************************************************)
(* Then the session: its progress, and all that a read of it does.         *)
(***************************************************************************)
SessionRead ==
  LET t == task[job.task]
      row == [sess[t.session] EXCEPT
                !.completed = IF job.ok THEN @ \cup {t.stage} ELSE @,
                !.running = None, !.last = job.task,
                !.status = IF job.ok THEN "draft" ELSE "failed"]
  IN  /\ job.at = "update"
      /\ UNCHANGED <<steps, runner, sess, task, reverify, req>>
      /\ job' = [job EXCEPT !.at = "commit", !.view = sess[t.session],
                            !.out = Refresh(row, "online")]

SessionCommit ==
  LET t == task[job.task]
  IN  /\ job.at = "commit"
      /\ IF t.status = "DELETED"
           THEN UNCHANGED <<runner, sess>>
           ELSE /\ runner' = "online"
                /\ \E force \in BOOLEAN :
                     sess' = [sess EXCEPT ![t.session] = Merge(@, job.view, job.out, force)]
      /\ job' = NoJob
      /\ UNCHANGED <<steps, task, reverify, req>>

-----------------------------------------------------------------------------
(* The re-verification worker. *)

Reverify(t, from, to) ==
  /\ reverify[t] \in from
  /\ reverify' = [reverify EXCEPT ![t] = to]
  /\ UNCHANGED <<runner, job, req>>

ReverifyStart(t) ==
  /\ Reverify(t, {"queued"}, "running")
  /\ UNCHANGED <<steps, sess, task>>

(* execute_risk_evaluation may close and open findings of every phase. *)
ReverifyEvaluate(t) ==
  /\ Reverify(t, {"running"}, "evaluated")
  /\ steps' \in [Stage -> StepStates]
  /\ UNCHANGED <<sess, task>>

(***************************************************************************)
(* finalize_remediation_business_outcome: task and session in one commit,  *)
(* whatever status the two have by now.                                    *)
(***************************************************************************)
Finalize(t, verdict) ==
  LET k == task[t].stage
      row == sess[task[t].session]
  IN  IF task[t].status = "DELETED" THEN UNCHANGED <<sess, task>>
      ELSE /\ task' = [task EXCEPT ![t].business = verdict]
           /\ sess' = [sess EXCEPT ![task[t].session] = [row EXCEPT
                !.completed = IF verdict = "closed" THEN @ \cup {k} ELSE @ \ {k},
                !.running = IF @ = k THEN None ELSE @,
                !.status = IF verdict = "failed" THEN "failed" ELSE "ready"]]

(* Closed only if no finding of the stage is open; blockers make it partial. *)
ReverifyJudge(t) ==
  /\ Reverify(t, {"evaluated"}, "judged")
  /\ \E verdict \in {"closed", "partial"} :
       /\ verdict = "closed" => steps[task[t].stage] = "none"
       /\ Finalize(t, verdict)
  /\ UNCHANGED steps

(* An exception, even one after the verdict was saved, saves "failed". *)
ReverifyRaises(t) ==
  /\ Reverify(t, {"running", "evaluated", "judged"}, "done")
  /\ Finalize(t, "failed")
  /\ UNCHANGED steps

ReverifyDone(t) ==
  /\ Reverify(t, {"judged"}, "done")
  /\ UNCHANGED <<steps, sess, task>>

-----------------------------------------------------------------------------
(* The environment: the task list, time, crashes, other scans. *)

CloseTask(t, new) ==
  /\ task[t].status \in Active
  /\ task' = [task EXCEPT ![t].status = new]
  /\ UNCHANGED <<steps, runner, sess, reverify, job, req>>

CancelTask(t) == "cancel" \in Events /\ CloseTask(t, "CANCELED")

SweepTask(t) == "sweep" \in Events /\ CloseTask(t, "FAILURE")

ClearTasks ==
  /\ "clear" \in Events
  /\ \E S \in SUBSET Terminal :
       /\ \E t \in DOMAIN task : task[t].status \in S
       /\ task' = [t \in DOMAIN task |->
            IF task[t].status \in S THEN [task[t] EXCEPT !.status = "DELETED"]
            ELSE task[t]]
  /\ UNCHANGED <<steps, runner, sess, reverify, job, req>>

(* The re-verification task is canceled, or its worker dies. *)
ReverifyLost(t) ==
  /\ Events \cap {"cancel", "crash"} # {}
  /\ Reverify(t, {"queued", "running", "evaluated", "judged"}, "lost")
  /\ UNCHANGED <<steps, sess, task>>

(* The host reboots, a response is lost, or the API process dies. *)
JobDies ==
  /\ "crash" \in Events
  /\ job.at # "idle"
  /\ job' = NoJob
  /\ UNCHANGED <<steps, runner, sess, task, reverify, req>>

(* A request that dies before its only commit leaves nothing behind.        *)
RequestDies(c) ==
  /\ "crash" \in Events
  /\ req[c].op \in {"context", "submit"}
  /\ Finish(c)
  /\ UNCHANGED <<steps, runner, sess, task, reverify, job>>

(* Other scans and evaluations change the open findings. *)
FindingsChange ==
  /\ "findings" \in Events
  /\ steps' \in [Stage -> StepStates]
  /\ UNCHANGED <<runner, sess, task, reverify, job, req>>

(* No heartbeat for the grace period, or one with status "error"; and again. *)
HeartbeatLost ==
  /\ "offline" \in Events
  /\ runner' = "offline"
  /\ UNCHANGED <<steps, sess, task, reverify, job, req>>

Heartbeat ==
  /\ runner' = IF job.at = "idle" THEN "online" ELSE "busy"
  /\ UNCHANGED <<steps, sess, task, reverify, job, req>>

-----------------------------------------------------------------------------
RequestStep(c) ==
  GetCommit(c) \/ AiCommit(c) \/ CreateCommit(c)
    \/ ApproveTask(c) \/ ApproveContext(c) \/ ApproveSubmit(c)

RunnerStep == PollRead \/ PollCommit \/ Complete \/ CompleteTask
                \/ SessionRead \/ SessionCommit

ReverifyStep(t) ==
  ReverifyStart(t) \/ ReverifyEvaluate(t) \/ ReverifyJudge(t)
    \/ ReverifyRaises(t) \/ ReverifyDone(t)

Next ==
  \/ \E c \in Clients :
       \/ \E s \in Rows : GetBegin(c, s) \/ AiBegin(c, s)
       \/ \E s \in Rows, mode \in {"apply", "dry_run"} \cap Requests : ApproveBegin(c, s, mode)
       \/ CreateBegin(c) \/ RequestStep(c) \/ RequestDies(c)
  \/ RunnerStep \/ JobDies
  \/ \E t \in Task : ReverifyStep(t) \/ ReverifyLost(t)
  \/ \E t \in DOMAIN task : CancelTask(t) \/ SweepTask(t)
  \/ ClearTasks \/ FindingsChange \/ HeartbeatLost \/ Heartbeat

Spec == Init /\ [][Next]_vars

(***************************************************************************)
(* The runner keeps polling, requests and re-verifications end, and pages  *)
(* that show a session and the task list, whose GET sweeps stale tasks,    *)
(* read them again and again.                                              *)
(***************************************************************************)
Fairness ==
  /\ WF_vars(RunnerStep)
  /\ \A c \in Clients :
       /\ WF_vars(RequestStep(c))
       /\ WF_vars(\E s \in Rows : GetBegin(c, s))
  /\ \A t \in Task : WF_vars(ReverifyStep(t)) /\ WF_vars(t \in DOMAIN task /\ SweepTask(t))

FairSpec == Spec /\ Fairness

-----------------------------------------------------------------------------
(* Properties *)

(***************************************************************************)
(* The runner receives only what was approved for execution: never a dry   *)
(* run, although its task row is PENDING for a moment, and never a task    *)
(* whose session and stage are not saved yet.                              *)
(***************************************************************************)
OnlyApprovedWorkIsDispatched ==
  \A t \in DOMAIN task : task[t].ran => task[t].mode = "apply" /\ task[t].context

(***************************************************************************)
(* The commands of one approval are handed to the runner at most once,     *)
(* whatever dies, is canceled or is swept on the way.                      *)
(***************************************************************************)
NoTaskIsDispatchedTwice ==
  [][\A t \in DOMAIN task :
       task[t].ran => ~(job.at = "polled" /\ job'.at = "execute" /\ job'.task = t)]_vars

(***************************************************************************)
(* A stage counts as completed only if the runner received it for this     *)
(* session, and as running only if it was approved for execution; stale    *)
(* commits of reads and of the AI worker do not invent progress.           *)
(***************************************************************************)
ProgressIsEarned ==
  \A s \in Session :
    /\ \A k \in sess[s].completed : \E t \in DOMAIN task :
         task[t].session = s /\ task[t].stage = k /\ task[t].ran
    /\ sess[s].running # None => \E t \in DOMAIN task :
         /\ task[t].session = s /\ task[t].stage = sess[s].running
         /\ task[t].mode = "apply" /\ task[t].context

(***************************************************************************)
(* A stage that was completed stays so until a re-verification of one of   *)
(* its tasks says otherwise, except that a read, the AI worker, the start  *)
(* of a session or a report, having read the session before the stage was  *)
(* completed, may write the older progress.                                *)
(***************************************************************************)
CompletionKept ==
  \A s \in Session : \A k \in sess[s].completed \ sess'[s].completed :
    \/ \E t \in DOMAIN task :
         /\ task[t].session = s /\ task[t].stage = k
         /\ reverify'[t] # reverify[t] /\ task'[t].business \in {"partial", "failed"}
    \/ \E c \in Clients :
         /\ req[c].op \in {"get", "ai", "create"} /\ req'[c] # req[c]
         /\ req[c].session = s /\ k \notin req[c].view.completed
    \/ /\ job.at = "commit" /\ job' # job
       /\ task[job.task].session = s /\ k \notin job.view.completed

CompletionIsWithdrawnOnlyByVerdict == [][CompletionKept]_vars

(***************************************************************************)
(* Two reads of a session with nothing in between show the same status:    *)
(* the repair done by the first read is complete.                          *)
(***************************************************************************)
SecondReadAgrees ==
  \A s \in Rows :
    LET first == Refresh(sess[s], runner)
    IN  Refresh(first, runner).status = first.status

(***************************************************************************)
(* With one approval and one page at a time, no session stays "running"    *)
(* for ever, whatever died on the way, except one whose last task waits    *)
(* for a verdict that nobody will give any more: its re-verification died  *)
(* or was canceled, or had ended when the report that queued it was saved  *)
(* and wrote "pending" over the verdict.                                   *)
(***************************************************************************)
NobodyVerifies(t) ==
  t # None /\ task[t].business = "pending" /\ reverify[t] \in {"lost", "done"}

EveryRunEnds ==
  \A s \in Session :
    (sess[s].status = "running") ~> (sess[s].status # "running" \/ NobodyVerifies(sess[s].last))

(***************************************************************************)
(* approve_remediation_session takes only the earliest stage that can be   *)
(* executed now.  Violated: a cached plan shows a running one as ready.    *)
(***************************************************************************)
OnlyEarliestStageApproved ==
  [][\A c \in Clients : req[c].op = "none" /\ req'[c].op \in {"apply", "dry_run"}
       => LET fresh == ReadyStages(BuildHostPlan(Reconcile(sess[req'[c].session]), runner))
          IN  fresh # {} /\ MinOf(ReadyStages(req'[c].out.plan)) = MinOf(fresh)]_vars
=============================================================================
