---------------------------- MODULE AgentSession ----------------------------
(***************************************************************************)
(* The chat sessions of one administrator: the message turns that may end  *)
(* in a plan, the approval that turns the plan into an orchestration task, *)
(* the worker that executes its actions and waits for their child tasks,   *)
(* and the reads that repair whatever the other actors left behind.        *)
(*                                                                         *)
(* The session row is written without a lock.  A message turn is three     *)
(* transactions' worth of time: it is accepted (committed), a model is     *)
(* called, the decision is applied to a row read again and the reply is    *)
(* streamed, and only then it is committed.  The commit writes the columns *)
(* whose value differs from the row that was read.  Between the decision   *)
(* and the commit, a checkpoint in Redis holds what will be committed, and *)
(* any other request may restore it.                                       *)
(***************************************************************************)
EXTENDS Naturals, FiniteSets

CONSTANTS
  MaxSessions,  \* bound: rows of agent_sessions, in creation order
  MaxTurns,     \* bound: message turns; a turn that proposes a plan names it
  MaxTasks,     \* bound: orchestration tasks, in creation order
  MaxActions,   \* bound: actions of a plan
  MaxRetries,   \* max_retries of run_agent_orchestrate_task
  Decisions,    \* what the model may decide: subset of Decision
  Events        \* what else may happen: subset of Event

Decision == {"answer", "plan", "ui", "secure", "child", "cancel"}
Event == {"slow", "turn dies", "interrupt", "reset", "approve twice",
          "worker dies", "step"}

ASSUME AgentSessionAssumption ==
  /\ MaxSessions \in Nat \ {0} /\ MaxTurns \in Nat /\ MaxTasks \in Nat
  /\ MaxActions \in Nat \ {0} /\ MaxRetries \in Nat
  /\ Decisions \subseteq Decision /\ Events \subseteq Event

Sessions == 1..MaxSessions
Turns == 1..MaxTurns
Tasks == 1..MaxTasks
None == 0
Other == MaxTasks + 1    \* a task that is no orchestration: a child task

VARIABLES
  sess,    \* sess[s]: the session row
  ckpt,    \* ckpt[s]: the checkpoint, a set of at most one row; it is
           \* dropped when the row gets a newer updated_at
  turn,    \* turn[n]: the n-th message turn
  approval,\* approvals between their first and their last commit
  task     \* task[t]: the orchestration task, its message and its worker

vars == <<sess, ckpt, turn, approval, task>>

-----------------------------------------------------------------------------
(* Data *)

(***************************************************************************)
(* plan is the turn whose plan is pending_plan_json, msg is                *)
(* current_message_request_id, rt and st are async_state.task_id of        *)
(* browser_runtime_json and of agent_state_json, last is last_task_id.     *)
(***************************************************************************)
SessionStatus == {"absent", "active", "waiting_approval", "running", "completed"}
Phase == {"idle", "reply", "ui", "resolving", "secure", "task"}
SessionRow == [status: SessionStatus, plan: 0..MaxTurns, phase: Phase,
               msg: 0..MaxTurns, rt: 0..MaxTasks, st: 0..MaxTasks,
               last: 0..(MaxTasks + 1)]
NewSession == [status |-> "active", plan |-> None, phase |-> "idle",
               msg |-> None, rt |-> None, st |-> None, last |-> None]
NoSession == [NewSession EXCEPT !.status = "absent"]

Open == {"active", "waiting_approval", "running"}

(***************************************************************************)
(* A turn is a message, or the results of page actions sent back (step).   *)
(* A turn remembers what it read when the message was accepted (had: the   *)
(* pending plan), the row it read again before it applied its decision     *)
(* (view) and the row it will commit (out).                                *)
(* child: a task it started without approval, whose follow-up will write   *)
(* the session row when the task has ended.                                *)
(***************************************************************************)
TurnStep == {"none", "accepted", "decided", "done", "abandoned", "dead"}
TurnRow == [at: TurnStep, step: BOOLEAN, session: Sessions, had: 0..MaxTurns,
            child: {"none", "active", "done"}, view: SessionRow, out: SessionRow]
NoTurn == [at |-> "none", step |-> FALSE, session |-> 1, had |-> None,
           child |-> "none", view |-> NoSession, out |-> NoSession]

TaskStatus == {"none", "pending", "running", "retry", "success", "failure", "canceled"}
Terminal == {"success", "failure", "canceled"}
WorkerStep == {"none", "queued", "check", "execute", "dispatched", "wait", "finalize", "succeed",
               "interrupted", "raised", "report", "done", "dead"}

(***************************************************************************)
(* size: how many actions the plan has.  k: the action the worker is at.   *)
(* entered: entered_action_execution.                                      *)
(* child: the child task of action k.  began and late are history: how     *)
(* often each action was executed, and how many after the cancellation.    *)
(***************************************************************************)
TaskRow == [status: TaskStatus, session: Sessions, plan: 0..MaxTurns, at: WorkerStep,
            size: 1..MaxActions, k: 1..(MaxActions + 1), entered: BOOLEAN,
            retries: 0..MaxRetries, child: {"none", "active", "ok", "bad"},
            began: [1..MaxActions -> Nat], late: Nat]
NoTask == [status |-> "none", session |-> 1, plan |-> None, at |-> "none",
           size |-> 1, k |-> 1, entered |-> FALSE, retries |-> 0, child |-> "none",
           began |-> [k \in 1..MaxActions |-> 0], late |-> 0]

Created == {t \in Tasks : task[t].status # "none"}
Rows == {s \in Sessions : sess[s].status # "absent"}
FreeTasks == Tasks \ Created
FreeTurns == {n \in Turns : turn[n].at = "none"}
Least(S) == CHOOSE x \in S : \A y \in S : x <= y

TypeOK ==
  /\ sess \in [Sessions -> SessionRow]
  /\ ckpt \in [Sessions -> SUBSET SessionRow]
  /\ turn \in [Turns -> TurnRow]
  /\ approval \subseteq [task: Tasks, session: Sessions]
  /\ task \in [Tasks -> TaskRow]

Init ==
  /\ sess = [s \in Sessions |-> NoSession]
  /\ ckpt = [s \in Sessions |-> {}]
  /\ turn = [n \in Turns |-> NoTurn]
  /\ approval = {}
  /\ task = [t \in Tasks |-> NoTask]

-----------------------------------------------------------------------------
(* What the functions of the service do to a row. *)

ClearRuntime(r) == [r EXCEPT !.phase = "idle", !.msg = None, !.rt = None]

(* restore_session_from_running_state: last_task_id stays. *)
Restore(r) == [ClearRuntime(r) EXCEPT !.status = "active", !.plan = None, !.st = None]

(* _preserve_or_reset_pending_plan, whatever the status of the row is. *)
KeepPlan(r, had) ==
  [r EXCEPT !.status = IF had # None THEN "waiting_approval" ELSE "active",
            !.plan = had]

IsOrchestration(x, s) == x \in Created /\ task[x].session = s

AsyncTask(r) == IF r.rt # None THEN r.rt ELSE IF r.st # None THEN r.st ELSE r.last

(* Mutation: the status of the watched task is not looked at. *)
ReconcileNeverRestores(s, r) == r

(* reconcile_running_session_state: a running session needs a live task. *)
ReconcileRunning(s, r) ==
  LET watched == IF IsOrchestration(AsyncTask(r), s) THEN AsyncTask(r) ELSE r.last
  IN  IF r.status # "running" THEN r
      ELSE IF ~IsOrchestration(watched, s) THEN Restore(r)
      ELSE IF task[watched].status \in Terminal
        THEN [Restore(r) EXCEPT !.last = watched]
      ELSE r

(***************************************************************************)
(* A turn whose reply is written, or that is older than two minutes, ends. *)
(* The latter makes the session active, although it may be running or have *)
(* a plan to approve.                                                      *)
(***************************************************************************)
ReconcileTurn(r, slow) ==
  IF r.phase # "reply" THEN r
  ELSE IF turn[r.msg].at = "done"
    THEN [ClearRuntime(r) EXCEPT
            !.status = IF @ \in {"waiting_approval", "running"} THEN @ ELSE "active"]
  ELSE IF slow THEN [ClearRuntime(r) EXCEPT !.status = "active"]
  ELSE r

(* Page actions nobody answers for five minutes. *)
ReconcileStaleUi(r, slow) ==
  IF r.phase = "ui" /\ slow THEN [ClearRuntime(r) EXCEPT !.status = "active"] ELSE r

FollowupWritten(s, r) ==
  r.last = Other /\ \E n \in Turns : turn[n].session = s /\ turn[n].child = "done"

(***************************************************************************)
(* _repair_inconsistent_runtime_state.  A step being resolved has no page  *)
(* actions left, so it is always repaired; and a message that came while a *)
(* plan was waiting for its approval loses its claim on the session.       *)
(***************************************************************************)
Repair(s, r) ==
  IF r.phase = "resolving" \/ (r.phase = "ui" /\ FollowupWritten(s, r))
    THEN [ClearRuntime(r) EXCEPT !.status = "active"]
  ELSE IF r.status = "waiting_approval" /\ r.phase \in {"reply", "task"}
    THEN ClearRuntime(r)
  ELSE r

(* _reconcile_session_runtime_state; the checkpoint is restored first. *)
Restored(s) ==
  IF ckpt[s] = {} THEN sess[s]
  ELSE LET r == CHOOSE c \in ckpt[s] : TRUE
       IN  [r EXCEPT !.last = IF @ = None THEN sess[s].last ELSE @]

Reconcile(s, slow) ==
  Repair(s, ReconcileStaleUi(ReconcileTurn(ReconcileRunning(s, Restored(s)), slow), slow))

Slow == IF "slow" \in Events THEN BOOLEAN ELSE {FALSE}

(* A row that is written gets a newer updated_at than its checkpoint has. *)
Write(s, r) ==
  /\ sess' = [sess EXCEPT ![s] = r]
  /\ ckpt' = [ckpt EXCEPT ![s] = {}]

(***************************************************************************)
(* load_recent_session: an open row; if an old session was opened again,   *)
(* the one that was updated last, which may be any of them.                *)
(***************************************************************************)
Current == {s \in Sessions : sess[s].status \in Open}
Unused == Sessions \ Rows

-----------------------------------------------------------------------------
(* Reads of the session: GET, summary, recover. *)

Create ==
  /\ Current = {} /\ Unused # {}
  /\ Write(Least(Unused), NewSession)
  /\ UNCHANGED <<turn, approval, task>>

(* What is repaired is committed; a checkpoint alone is not. *)
Poll(s) ==
  /\ s \in Current
  /\ \E slow \in Slow :
       /\ Reconcile(s, slow) # Restored(s)
       /\ Write(s, Reconcile(s, slow))
  /\ UNCHANGED <<turn, approval, task>>

-----------------------------------------------------------------------------
(* Message turns. *)

Accept(s, r, step) ==
  LET n == Least(FreeTurns)
      row == [r EXCEPT !.phase = IF step THEN "resolving" ELSE "reply",
                       !.msg = IF step THEN None ELSE n, !.rt = None, !.st = None]
  IN  /\ FreeTurns # {}
      /\ turn' = [turn EXCEPT ![n] = [NoTurn EXCEPT
            !.at = "accepted", !.step = step, !.session = s, !.had = r.plan,
            !.view = row]]
      /\ Write(s, row)
      /\ UNCHANGED <<approval, task>>

(* post_agent_message until its first commit. *)
PostMessage(s) ==
  /\ s \in Current
  /\ \E slow \in Slow :
       /\ Reconcile(s, slow).phase # "reply"
       /\ Accept(s, Reconcile(s, slow), FALSE)

(* post_agent_step with the results of the page actions. *)
PostStep(s) ==
  /\ "step" \in Events /\ s \in Current
  /\ \E slow \in Slow :
       LET r == Reconcile(s, slow)
       IN  /\ r.status # "running" /\ r.phase = "ui"
           /\ Accept(s, r, TRUE)

(***************************************************************************)
(* post_agent_step with nothing to answer, or after too many page actions. *)
(* It clears the runtime, also that of a message whose reply is awaited.   *)
(***************************************************************************)
EmptyStep(s) ==
  /\ "step" \in Events /\ s \in Current
  /\ \E slow \in Slow :
       LET r == Reconcile(s, slow)
       IN  /\ r.status # "running" /\ r.phase # "secure"
           /\ Write(s, [ClearRuntime(r) EXCEPT !.st = None])
  /\ UNCHANGED <<turn, approval, task>>

(***************************************************************************)
(* _handle_secure_input_step: the credentials were given, or not; with     *)
(* them the blocked action may be started again, as a task of its own.     *)
(***************************************************************************)
SecureStep(s) ==
  /\ "step" \in Events /\ s \in Current
  /\ LET r == Reconcile(s, FALSE)
     IN  /\ r.status # "running" /\ r.phase = "secure"
         /\ \/ Write(s, [ClearRuntime(r) EXCEPT !.status = "active", !.st = None])
            \/ Write(s, [ClearRuntime(r) EXCEPT !.status = "running", !.st = None,
                                                !.last = Other])
  /\ UNCHANGED <<turn, approval, task>>

(* What _apply_agent_decision makes of the row v it has read again.        *)
Idle(v) == [ClearRuntime(v) EXCEPT !.st = None]

AskSecureInput(v) == [KeepPlan(Idle(v), None) EXCEPT !.phase = "secure"]
AskPageActions(v, had) == [KeepPlan(Idle(v), had) EXCEPT !.phase = "ui"]
ProposePlan(v, n) == [Idle(v) EXCEPT !.status = "waiting_approval", !.plan = n]
WatchChild(v, had) == [KeepPlan(Idle(v), had) EXCEPT !.last = Other]

(* A message that withdraws the plan needs no model. *)
CancelPlan(v) == KeepPlan(Idle(v), None)

Decided(n, v, d) ==
  CASE d = "plan" -> ProposePlan(v, n)
    [] d = "ui" -> AskPageActions(v, turn[n].had)
    [] d = "secure" -> AskSecureInput(v)
    [] d = "child" -> WatchChild(v, turn[n].had)
    [] d = "cancel" -> CancelPlan(v)
    [] d = "answer" -> KeepPlan(Idle(v), turn[n].had)

(***************************************************************************)
(* The model may decide anything, although it is told that a running       *)
(* session gets no plan: _apply_agent_decision does not look at that.      *)
(***************************************************************************)
Allowed(n) == {d \in Decisions : d = "cancel" => turn[n].had # None /\ ~turn[n].step}

(* An answer deletes the checkpoint, unless it is a question to the user. *)
Checkpoints(s, d, out) ==
  CASE d \in {"plan", "secure", "child"} -> {{out}}
    [] d = "answer" -> {{out}, {}}
    [] OTHER -> {ckpt[s]}

(* _refresh_message_turn_if_active; a step does not check. *)
StillClaimed(n) ==
  LET r == sess[turn[n].session]
  IN  turn[n].step \/ (r.phase = "reply" /\ r.msg = n)

Decide(n) ==
  LET s == turn[n].session
      v == IF turn[n].step THEN turn[n].view ELSE sess[s]
  IN  /\ turn[n].at = "accepted" /\ StillClaimed(n)
      /\ \E d \in Allowed(n) :
           LET out == Decided(n, v, d)
           IN  /\ turn' = [turn EXCEPT ![n].at = "decided", ![n].view = v,
                    ![n].out = out,
                    ![n].child = IF d = "child" THEN "active" ELSE "none"]
               /\ \E c \in Checkpoints(s, d, out) : ckpt' = [ckpt EXCEPT ![s] = c]
      /\ UNCHANGED <<sess, approval, task>>

Abandon(n) ==
  /\ turn[n].at = "accepted" /\ ~StillClaimed(n)
  /\ turn' = [turn EXCEPT ![n] = [NoTurn EXCEPT !.at = "abandoned"]]
  /\ UNCHANGED <<sess, ckpt, approval, task>>

(* The columns that differ from the row read; the runtime always does. *)
Merge(row, view, out) ==
  [out EXCEPT
     !.status = IF view.status = @ THEN row.status ELSE @,
     !.plan = IF view.plan = @ THEN row.plan ELSE @,
     !.last = IF view.last = @ THEN row.last ELSE @]

CommitTurn(n) ==
  LET s == turn[n].session
  IN  /\ turn[n].at = "decided"
      /\ Write(s, Merge(sess[s], turn[n].view, turn[n].out))
      /\ turn' = [turn EXCEPT ![n] = [NoTurn EXCEPT !.at = "done", !.session = s,
                                                    !.child = turn[n].child]]
      /\ UNCHANGED <<approval, task>>

(* The API process dies; the checkpoint stays and will be restored. *)
TurnDies(n) ==
  /\ "turn dies" \in Events
  /\ turn[n].at \in {"accepted", "decided"}
  /\ turn' = [turn EXCEPT ![n] = [NoTurn EXCEPT !.at = "dead", !.session = turn[n].session,
                                                !.child = turn[n].child]]
  /\ UNCHANGED <<sess, ckpt, approval, task>>

(* run_agent_auto_followup_task; it was queued before the turn committed. *)
Followup(n) ==
  LET s == turn[n].session
      r == sess[s]
      idle == IF r.phase \in {"ui", "resolving"} THEN ClearRuntime(r) ELSE r
  IN  /\ turn[n].child = "active"
      /\ turn' = [turn EXCEPT ![n].child = "done"]
      /\ Write(s, [idle EXCEPT !.last = Other, !.st = None,
                               !.status = IF @ = "running" THEN "active" ELSE @])
      /\ UNCHANGED <<approval, task>>

-----------------------------------------------------------------------------
(* Approval, interruption, a new session. *)

(***************************************************************************)
(* approve_agent_session until create_task_run commits the task.  It rolls *)
(* back first, so what the reconciliation repaired is not saved.           *)
(***************************************************************************)
Approve(s) ==
  /\ s \in Current /\ FreeTasks # {}
  /\ approval = {} \/ "approve twice" \in Events
  /\ \E slow \in Slow :
       LET r == Reconcile(s, slow)
           t == Least(FreeTasks)
       IN  /\ r.status = "waiting_approval" /\ r.plan # None
           /\ \E size \in 1..MaxActions :
                task' = [task EXCEPT ![t] = [NoTask EXCEPT !.status = "pending",
                  !.session = s, !.plan = r.plan, !.size = size]]
           /\ approval' = approval \cup {[task |-> t, session |-> s]}
  /\ UNCHANGED <<sess, ckpt, turn>>

(* The second commit of the request and the message to the worker. *)
SessionRuns(a) ==
  Write(a.session, [sess[a.session] EXCEPT !.status = "running", !.plan = None,
    !.phase = "task", !.msg = None, !.rt = a.task, !.st = None, !.last = a.task])

ApproveCommit(a) ==
  /\ a \in approval
  /\ SessionRuns(a)
  /\ task' = [task EXCEPT ![a.task].at = "queued"]
  /\ approval' = approval \ {a}
  /\ UNCHANGED turn

(* The API process dies before that commit, or before the message is sent. *)
ApproveDies(a) ==
  /\ "turn dies" \in Events
  /\ a \in approval
  /\ SessionRuns(a) \/ UNCHANGED <<sess, ckpt>>
  /\ task' = [task EXCEPT ![a.task].at = "dead"]
  /\ approval' = approval \ {a}
  /\ UNCHANGED turn

(***************************************************************************)
(* cancel_task_run.  The revocation drops a queued message and kills a     *)
(* worker; it may as well arrive too late, and the worker finds out itself.*)
(***************************************************************************)
Revocable == {"queued", "check", "execute", "dispatched", "wait", "finalize", "succeed"}
Canceled(t, killed) ==
  [task EXCEPT ![t].status = "canceled",
     ![t].at = IF killed /\ @ \in Revocable THEN "dead" ELSE @]

(* interrupt_agent_session, with only the reconciliation of running rows. *)
Interrupt(s) ==
  /\ "interrupt" \in Events /\ s \in Current
  /\ LET r == ReconcileRunning(s, Restored(s))
         t == AsyncTask(r)
     IN  /\ r.status = "running"
         /\ IF IsOrchestration(t, s) /\ task[t].status \notin Terminal
              THEN /\ \E killed \in BOOLEAN : task' = Canceled(t, killed)
                   /\ Write(s, [Restore(r) EXCEPT !.last = t])
              ELSE Write(s, Restore(r)) /\ UNCHANGED task
  /\ UNCHANGED <<turn, approval>>

(* The task list: POST /tasks/{id}/cancel. *)
CancelTask(t) ==
  /\ "interrupt" \in Events
  /\ t \in Created /\ task[t].status \notin Terminal
  /\ \E killed \in BOOLEAN : task' = Canceled(t, killed)
  /\ UNCHANGED <<sess, ckpt, turn, approval>>

(***************************************************************************)
(* reset_agent_session: every open row is closed and a new one is created, *)
(* unless the bound MaxSessions is used up.                                *)
(***************************************************************************)
Reset ==
  /\ "reset" \in Events
  /\ Current # {}
  /\ \E s \in Current, slow \in Slow :
       LET r == Reconcile(s, slow)
           t == AsyncTask(r)
       IN  IF r.status = "running" /\ IsOrchestration(t, s)
                /\ task[t].status \notin Terminal
             THEN \E killed \in BOOLEAN : task' = Canceled(t, killed)
             ELSE UNCHANGED task
  /\ sess' = [s \in Sessions |->
       IF s \in Current THEN [NewSession EXCEPT !.status = "completed", !.last = sess[s].last]
       ELSE IF Unused # {} /\ s = Least(Unused) THEN NewSession ELSE sess[s]]
  /\ ckpt' = [s \in Sessions |-> IF s \in Current THEN {} ELSE ckpt[s]]
  /\ UNCHANGED <<turn, approval>>

-----------------------------------------------------------------------------
(* The worker of an orchestration task. *)

Goto(t, at) == task' = [task EXCEPT ![t].at = at]

(* Each attempt is a new execution: it starts with the first action. *)
Start(t) ==
  /\ task[t].at = "queued"
  /\ IF task[t].status = "canceled" THEN Goto(t, "interrupted")
     ELSE \E at \in {"check", "raised"} :
            task' = [task EXCEPT ![t].status = "running", ![t].at = at,
                                 ![t].k = 1, ![t].entered = FALSE]
  /\ UNCHANGED <<sess, ckpt, turn, approval>>

(* Mutation: the worker does not ask whether it was canceled. *)
CheckNothing(t) ==
  /\ task[t].at = "check"
  /\ Goto(t, IF task[t].k > task[t].size THEN "finalize" ELSE "execute")
  /\ UNCHANGED <<sess, ckpt, turn, approval>>

(* ensure_task_not_canceled, before every action and before the summary. *)
Check(t) ==
  /\ task[t].at = "check"
  /\ Goto(t, IF task[t].status = "canceled" THEN "interrupted"
             ELSE IF task[t].k > task[t].size THEN "finalize" ELSE "execute")
  /\ UNCHANGED <<sess, ckpt, turn, approval>>

(***************************************************************************)
(* execute_approved_action: it fails, or it is done at once, or it starts  *)
(* a child task, and then the session is marked as waiting for it.         *)
(***************************************************************************)
Execute(t) ==
  LET w == task[t]
      begun == [w EXCEPT !.entered = TRUE, !.began[w.k] = @ + 1,
                         !.late = IF w.status = "canceled" THEN @ + 1 ELSE @]
      s == w.session
  IN  /\ w.at = "execute"
      /\ \/ /\ task' = [task EXCEPT ![t] = [begun EXCEPT !.at = "raised"]]
            /\ UNCHANGED <<sess, ckpt>>
         \/ /\ task' = [task EXCEPT ![t] = [begun EXCEPT !.at = "check", !.k = @ + 1]]
            /\ UNCHANGED <<sess, ckpt>>
         \/ /\ task' = [task EXCEPT ![t] = [begun EXCEPT !.at = "dispatched",
                                                        !.child = "active"]]
            /\ Write(s, [sess[s] EXCEPT !.status = "running", !.phase = "task",
                                        !.rt = t, !.st = t, !.last = Other])
      /\ UNCHANGED <<turn, approval>>

(* set_task_progress raises when the task was canceled meanwhile. *)
Dispatched(t) ==
  /\ task[t].at = "dispatched"
  /\ Goto(t, IF task[t].status = "canceled" THEN "interrupted" ELSE "wait")
  /\ UNCHANGED <<sess, ckpt, turn, approval>>

(* The child ends, or two hours are over. *)
ChildEnds(t) ==
  /\ task[t].child = "active"
  /\ \E result \in {"ok", "bad"} : task' = [task EXCEPT ![t].child = result]
  /\ UNCHANGED <<sess, ckpt, turn, approval>>

Wait(t) ==
  /\ task[t].at = "wait" /\ task[t].child # "active"
  /\ task' = [task EXCEPT ![t].child = "none",
       ![t].at = IF task[t].child = "ok" THEN "check" ELSE "raised",
       ![t].k = IF task[t].child = "ok" THEN @ + 1 ELSE @]
  /\ UNCHANGED <<sess, ckpt, turn, approval>>

(* However the session looks by now: its plan and its runtime are cleared.  *)
EndSession(s, last) ==
  [Restore(sess[s]) EXCEPT !.last = last]

(***************************************************************************)
(* The summary.  A single action that was blocked asks for credentials     *)
(* instead; one that had a child leaves the child as the last task.        *)
(***************************************************************************)
Finalize(t) ==
  LET s == task[t].session
  IN  /\ task[t].at = "finalize"
      /\ \/ \E last \in {t, Other} : Write(s, EndSession(s, last))
         \/ /\ task[t].size = 1
            /\ Write(s, [EndSession(s, t) EXCEPT !.phase = "secure"])
      /\ Goto(t, "succeed")
      /\ UNCHANGED <<turn, approval>>

Succeed(t) ==
  /\ task[t].at = "succeed"
  /\ IF task[t].status = "canceled" THEN Goto(t, "interrupted")
     ELSE task' = [task EXCEPT ![t].at = "done",
            ![t].status = IF @ \in Terminal THEN @ ELSE "success"]
  /\ UNCHANGED <<sess, ckpt, turn, approval>>

(* except TaskCanceledError: mark_agent_session_interrupted, on any row. *)
Interrupted(t) ==
  /\ task[t].at = "interrupted"
  /\ Write(task[t].session, EndSession(task[t].session, t))
  /\ Goto(t, "done")
  /\ UNCHANGED <<turn, approval>>

(* except Exception: first the session, then the task. *)
Raised(t) ==
  /\ task[t].at = "raised"
  /\ \E last \in {t, Other} : Write(task[t].session, EndSession(task[t].session, last))
  /\ Goto(t, "report")
  /\ UNCHANGED <<turn, approval>>

(* Mutation: any error is retried. *)
RetryableAlways(t) == task[t].retries < MaxRetries

(* Mutation: a broken preparation is retried for ever. *)
RetryableForever(t) == ~task[t].entered

(* _should_retry_orchestrate_error; a missing row or plan is no reason. *)
Retryable(t) == ~task[t].entered /\ task[t].retries < MaxRetries

Report(t) ==
  LET w == task[t]
      final == w.status \in Terminal
  IN  /\ w.at = "report"
      /\ \/ /\ Retryable(t)
            /\ task' = [task EXCEPT ![t].at = "queued", ![t].retries = @ + 1,
                  ![t].status = IF final THEN @ ELSE "retry"]
         \/ task' = [task EXCEPT ![t].at = "done",
                  ![t].status = IF final THEN @ ELSE "failure"]
      /\ UNCHANGED <<sess, ckpt, turn, approval>>

(* The message is acknowledged when it is taken: nothing runs it again. *)
WorkerDies(t) ==
  /\ "worker dies" \in Events
  /\ task[t].at \notin {"none", "queued", "done", "dead"}
  /\ Goto(t, "dead")
  /\ UNCHANGED <<sess, ckpt, turn, approval>>

(* The sweep of stale tasks, and time that passes until it applies. *)
Sweep(t) ==
  /\ task[t].at = "dead" /\ task[t].status \notin Terminal
  /\ task' = [task EXCEPT ![t].status = "failure"]
  /\ UNCHANGED <<sess, ckpt, turn, approval>>

-----------------------------------------------------------------------------
TurnAction(n) == Decide(n) \/ Abandon(n) \/ CommitTurn(n)

WorkerAction(t) ==
  \/ Start(t) \/ Check(t) \/ Execute(t) \/ Dispatched(t) \/ Wait(t)
  \/ Finalize(t) \/ Succeed(t) \/ Interrupted(t) \/ Raised(t) \/ Report(t)

Next ==
  \/ Create \/ Reset
  \/ \E s \in Sessions :
       Poll(s) \/ PostMessage(s) \/ PostStep(s) \/ EmptyStep(s) \/ SecureStep(s)
         \/ Approve(s) \/ Interrupt(s)
  \/ \E n \in Turns : TurnAction(n) \/ TurnDies(n) \/ Followup(n)
  \/ \E a \in approval : ApproveCommit(a) \/ ApproveDies(a)
  \/ \E t \in Tasks :
       WorkerAction(t) \/ ChildEnds(t) \/ CancelTask(t) \/ WorkerDies(t) \/ Sweep(t)

Spec == Init /\ [][Next]_vars

(***************************************************************************)
(* What goes on by itself: requests, workers and child tasks continue      *)
(* until they end or die, somebody reads the task list, and the page polls *)
(* the session it shows, for certain while there is no other open one.     *)
(***************************************************************************)
Progress ==
  \/ \E n \in Turns : TurnAction(n) \/ Followup(n)
  \/ \E a \in approval : ApproveCommit(a)
  \/ \E t \in Tasks : WorkerAction(t) \/ ChildEnds(t) \/ Sweep(t)
  \/ \E s \in Sessions : Current = {s} /\ Poll(s)

-----------------------------------------------------------------------------
(* Properties *)

(***************************************************************************)
(* No action of an approved plan is executed twice for one approval: a     *)
(* retry of the orchestration happens only before the first action, and a  *)
(* worker that died is not replaced (agent_tasks.py, entered_action_       *)
(* execution).                                                             *)
(***************************************************************************)
ActionsRunOnce == \A t \in Tasks : \A k \in 1..MaxActions : task[t].began[k] <= 1

(***************************************************************************)
(* After an orchestration was canceled, whether by the interrupt button,   *)
(* by a new session or in the task list, and however the revocation fared, *)
(* at most the action that had passed its check is still executed.         *)
(***************************************************************************)
CancelStopsTheRest == \A t \in Tasks : task[t].late <= 1

(* The row the page shows when s is the only open session: a checkpoint     *)
(* that is restored but not committed counts.                               *)
Shown == {Restored(s) : s \in {x \in Sessions : Current = {x}}}

(***************************************************************************)
(* Who may go on, by the guards of Progress: the turn whose reply is being *)
(* made, the follow-up of a child, an approval between its two commits, a  *)
(* worker with a step to take, a child task, the sweep of an open task     *)
(* whose worker died, or a poll that repairs the row it reads.             *)
(***************************************************************************)
Steps == WorkerStep \ {"none", "wait", "done", "dead"}

TurnMayGoOn(n) ==
  \/ turn[n].at = "decided" \/ turn[n].child = "active"
  \/ turn[n].at = "accepted" /\ (StillClaimed(n) => Allowed(n) # {})

TaskMayGoOn(t) ==
  \/ task[t].at \in Steps \/ task[t].child = "active"
  \/ task[t].at = "wait" /\ task[t].child # "active"
  \/ task[t].at = "dead" /\ task[t].status \notin Terminal

PollMayRepair(s) == Current = {s} /\ \E slow \in Slow : Reconcile(s, slow) # Restored(s)

MayGoOn ==
  \/ \E n \in Turns : TurnMayGoOn(n)
  \/ approval # {}
  \/ \E t \in Tasks : TaskMayGoOn(t)
  \/ \E s \in Sessions : PollMayRepair(s)

(***************************************************************************)
(* A session is never stuck in "running", nor a message in its wait for a  *)
(* reply: whatever was canceled, killed or overwritten, something goes on  *)
(* by itself.  Each actor has finitely many steps, and a poll commits only *)
(* after somebody else wrote the row or a deadline passed, so the waiting  *)
(* really ends.                                                            *)
(***************************************************************************)
NeverStuck ==
  (\E r \in Shown : r.status = "running" \/ r.phase = "reply") => MayGoOn

=============================================================================
