------------------------- MODULE AgentSessionProofs -------------------------
(***************************************************************************)
(* Proofs about AgentSession, for every number of sessions, turns, tasks,  *)
(* actions and retries: type correctness, that no approved action is       *)
(* executed twice, that a cancellation stops all but the action that had   *)
(* passed its check, that a task that ended stays ended, and that a        *)
(* session which waits has somebody who goes on.                           *)
(***************************************************************************)
EXTENDS AgentSession, TLAPS, FiniteSetTheorems

(***************************************************************************)
(* The inductive invariant says how far a worker is: a task that was not   *)
(* taken up, or whose preparation failed, has begun nothing; one at action *)
(* k has begun nothing after it; and once an action was executed after the *)
(* cancellation, the worker has to pass a check before the next.           *)
(***************************************************************************)
NotBegun(w) == \A j \in 1..MaxActions : w.began[j] = 0

Ahead(w, j) == j > w.k \/ (j = w.k /\ w.at \in {"check", "execute"})

WorkerOK(w) ==
  /\ w.status = "none" => w.at = "none"
  /\ w.at \in {"execute", "dispatched", "wait"} => w.k <= w.size
  /\ ~w.entered \/ w.at \in {"none", "queued"} => NotBegun(w)
  /\ \A j \in 1..MaxActions : w.began[j] <= 1 /\ (Ahead(w, j) => w.began[j] = 0)
  /\ w.late # 0 => w.late = 1 /\ w.status = "canceled" /\ w.at # "execute"

WorkerInv == \A t \in Tasks : WorkerOK(task[t])

(* An approval owns the task it created until it hands it to the worker.    *)
ApprovalInv ==
  /\ \A a \in approval : task[a.task].status # "none" /\ task[a.task].at = "none"
  /\ \A a, b \in approval : a.task = b.task => a = b

IInv == TypeOK /\ WorkerInv /\ ApprovalInv

-----------------------------------------------------------------------------
(* A set of numbers that is not empty has a least one: of the initial       *)
(* segments below its members, one has none of the others as a subset.      *)
LEMMA LeastNumber ==
  ASSUME NEW S, S \subseteq Nat, S # {}
  PROVE  Least(S) \in S
<1> DEFINE Below(k) == {j \in Nat : j < k}
           T == {Below(k) : k \in S}
<1>1. \A k \in S : IsFiniteSet(Below(k))
  <2> SUFFICES ASSUME NEW k \in S  PROVE IsFiniteSet(Below(k))
    OBVIOUS
  <2>1. k \in Nat /\ Below(k) = 0..(k-1)
    OBVIOUS
  <2>2. IsFiniteSet(0..(k-1))
    BY <2>1, FS_Interval
  <2>3. QED BY <2>1, <2>2
<1>2. T \subseteq FiniteSubsetsOf(Nat) /\ T # {}
  BY <1>1 DEF FiniteSubsetsOf
<1>3. \E x \in T : \A y \in T : <<y, x>> \notin StrictSubsetOrdering(Nat)
  <2> HIDE DEF T
  <2>1. QED BY <1>2, WFMin, FS_StrictSubsetOrderingWellFounded
<1>4. PICK k \in S : \A y \in T : <<y, Below(k)>> \notin StrictSubsetOrdering(Nat)
  BY <1>3
<1>5. ASSUME NEW j \in S  PROVE k <= j
  <2>1. <<Below(j), Below(k)>> \notin StrictSubsetOrdering(Nat)
    BY <1>4
  <2>2. CASE j < k
    <3>1. Below(j) \subseteq Below(k) /\ j \in Below(k) /\ j \notin Below(j)
      BY <2>2
    <3>2. QED BY <2>1, <3>1 DEF StrictSubsetOrdering
  <2>3. QED BY <2>2
<1>6. QED BY <1>5 DEF Least

-----------------------------------------------------------------------------
(* Rows of sessions. *)

(* The rows the code starts from. *)
LEMMA FirstRows ==
  /\ NewSession \in SessionRow /\ NoSession \in SessionRow
  /\ NoTurn \in TurnRow
  /\ NoTask \in TaskRow /\ NoTask.status = "none" /\ NoTask.at = "none"
  /\ NoTask.late = 0 /\ NotBegun(NoTask)
<1>1. NewSession \in SessionRow
  BY AgentSessionAssumption DEF NewSession, SessionRow, SessionStatus, Phase, None
<1>2. NoSession \in SessionRow
  BY <1>1 DEF NoSession, SessionRow, SessionStatus
<1>3. NoTurn \in TurnRow
  BY <1>2, AgentSessionAssumption DEF NoTurn, TurnRow, TurnStep, Sessions, None
<1>4. NoTask \in TaskRow
  BY AgentSessionAssumption DEF NoTask, TaskRow, TaskStatus, WorkerStep, Sessions, None
<1>5. NotBegun(NoTask) /\ NoTask.status = "none" /\ NoTask.at = "none" /\ NoTask.late = 0
  BY DEF NotBegun, NoTask
<1>6. QED BY <1>1, <1>2, <1>3, <1>4, <1>5

(* The numbers that stand for no turn, no task and a child task. *)
LEMMA Numbers ==
  /\ None \in 0..MaxTurns /\ None \in 0..MaxTasks /\ None \in 0..(MaxTasks + 1)
  /\ Other \in 0..(MaxTasks + 1)
  /\ \A n \in Turns : n \in 0..MaxTurns
  /\ \A t \in Tasks : t \in 0..MaxTasks /\ t \in 0..(MaxTasks + 1)
BY AgentSessionAssumption DEF None, Other, Turns, Tasks

(* Clearing the page's runtime, restoring a session and keeping its plan.  *)
LEMMA RowsTyped ==
  ASSUME NEW r \in SessionRow
  PROVE  /\ ClearRuntime(r) \in SessionRow
         /\ Restore(r) \in SessionRow
         /\ Idle(r) \in SessionRow
         /\ \A had \in 0..MaxTurns : KeepPlan(r, had) \in SessionRow
<1>1. ASSUME NEW q \in SessionRow  PROVE ClearRuntime(q) \in SessionRow
  BY Numbers DEF ClearRuntime, SessionRow, Phase
<1>2. Restore(r) \in SessionRow
  <2> DEFINE q == ClearRuntime(r)
  <2>1. q \in SessionRow
    BY <1>1
  <2> HIDE DEF q
  <2>2. [q EXCEPT !.status = "active", !.plan = None, !.st = None] \in SessionRow
    BY <2>1, Numbers DEF SessionRow, SessionStatus
  <2>3. QED BY <2>2 DEF Restore, q
<1>3. Idle(r) \in SessionRow
  <2> DEFINE q == ClearRuntime(r)
  <2>1. q \in SessionRow
    BY <1>1
  <2> HIDE DEF q
  <2>2. [q EXCEPT !.st = None] \in SessionRow
    BY <2>1, Numbers DEF SessionRow
  <2>3. QED BY <2>2 DEF Idle, q
<1>4. \A had \in 0..MaxTurns : KeepPlan(r, had) \in SessionRow
  BY DEF KeepPlan, SessionRow, SessionStatus
<1>5. QED BY <1>1, <1>2, <1>3, <1>4

(* A restored checkpoint is a row. *)
LEMMA RestoredTyped ==
  ASSUME TypeOK, NEW s \in Sessions
  PROVE  Restored(s) \in SessionRow
<1>1. CASE ckpt[s] = {}
  BY <1>1 DEF Restored, TypeOK
<1>2. CASE ckpt[s] # {}
  <2> DEFINE c == CHOOSE x \in ckpt[s] : TRUE
  <2>1. c \in SessionRow /\ sess[s] \in SessionRow
    BY <1>2 DEF TypeOK
  <2> HIDE DEF c
  <2>2. [c EXCEPT !.last = IF @ = None THEN sess[s].last ELSE @] \in SessionRow
    BY <2>1 DEF SessionRow
  <2>3. QED BY <1>2, <2>2 DEF Restored, c
<1>3. QED BY <1>1, <1>2

(* An orchestration that is watched is one of the tasks. *)
LEMMA ReconcileRunningTyped ==
  ASSUME TypeOK, NEW s \in Sessions, NEW r \in SessionRow
  PROVE  ReconcileRunning(s, r) \in SessionRow
<1> DEFINE watched == IF IsOrchestration(AsyncTask(r), s) THEN AsyncTask(r) ELSE r.last
           q == Restore(r)
<1>1. q \in SessionRow
  BY RowsTyped
<1>2. IsOrchestration(watched, s) => [q EXCEPT !.last = watched] \in SessionRow
  <2> SUFFICES ASSUME IsOrchestration(watched, s)
               PROVE  [q EXCEPT !.last = watched] \in SessionRow
    OBVIOUS
  <2>1. watched \in 0..(MaxTasks + 1)
    BY AgentSessionAssumption DEF IsOrchestration, Created, Tasks
  <2> HIDE DEF watched, q
  <2>2. QED BY <1>1, <2>1 DEF SessionRow
<1>3. QED BY <1>1, <1>2 DEF ReconcileRunning

(* A turn that has ended, or is given up, leaves a row. *)
LEMMA ReconcileTurnTyped ==
  ASSUME NEW r \in SessionRow, NEW slow
  PROVE  ReconcileTurn(r, slow) \in SessionRow
<1> DEFINE q == ClearRuntime(r)
<1>1. q \in SessionRow
  BY RowsTyped
<1> HIDE DEF q
<1>2. [q EXCEPT !.status = IF @ \in {"waiting_approval", "running"} THEN @ ELSE "active"]
        \in SessionRow
  BY <1>1 DEF SessionRow, SessionStatus
<1>3. [q EXCEPT !.status = "active"] \in SessionRow
  BY <1>1 DEF SessionRow, SessionStatus
<1>4. QED BY <1>2, <1>3 DEF ReconcileTurn, q

(* So do page actions nobody answers, and the repair of a row. *)
LEMMA RepairTyped ==
  ASSUME NEW r \in SessionRow, NEW s, NEW slow
  PROVE  ReconcileStaleUi(r, slow) \in SessionRow /\ Repair(s, r) \in SessionRow
<1> DEFINE q == ClearRuntime(r)
<1>1. q \in SessionRow
  BY RowsTyped
<1> HIDE DEF q
<1>2. [q EXCEPT !.status = "active"] \in SessionRow
  BY <1>1 DEF SessionRow, SessionStatus
<1>3. QED BY <1>1, <1>2 DEF ReconcileStaleUi, Repair, q

(* The whole reconciliation yields a row. *)
LEMMA ReconcileTyped ==
  ASSUME TypeOK, NEW s \in Sessions, NEW slow
  PROVE  Reconcile(s, slow) \in SessionRow
<1> DEFINE r1 == ReconcileRunning(s, Restored(s))
           r2 == ReconcileTurn(r1, slow)
           r3 == ReconcileStaleUi(r2, slow)
<1>1. r1 \in SessionRow
  BY RestoredTyped, ReconcileRunningTyped
<1> HIDE DEF r1
<1>2. r2 \in SessionRow
  BY <1>1, ReconcileTurnTyped
<1> HIDE DEF r2
<1>3. r3 \in SessionRow
  BY <1>2, RepairTyped
<1> HIDE DEF r3
<1>4. Repair(s, r3) \in SessionRow
  BY <1>3, RepairTyped
<1>5. QED BY <1>4 DEF Reconcile, r1, r2, r3

(* Saving a row keeps the table and the checkpoints well typed. *)
LEMMA WriteTyped ==
  ASSUME TypeOK, NEW s \in Sessions, NEW r \in SessionRow, Write(s, r)
  PROVE  sess' \in [Sessions -> SessionRow] /\ ckpt' \in [Sessions -> SUBSET SessionRow]
BY DEF TypeOK, Write

(* Whatever the model decides, what will be committed is a row. *)
LEMMA DecidedTyped ==
  ASSUME NEW n \in Turns, NEW v \in SessionRow, NEW d \in Decision,
         turn[n].had \in 0..MaxTurns
  PROVE  Decided(n, v, d) \in SessionRow
<1> DEFINE i == Idle(v)
<1>1. i \in SessionRow
  BY RowsTyped
<1> HIDE DEF i
<1>2. ASSUME NEW had \in 0..MaxTurns  PROVE KeepPlan(i, had) \in SessionRow
  BY <1>1, RowsTyped
<1>3. None \in 0..MaxTurns /\ n \in 0..MaxTurns /\ Other \in 0..(MaxTasks + 1)
  BY Numbers
<1>4. ASSUME NEW q \in SessionRow
      PROVE  /\ [q EXCEPT !.phase = "secure"] \in SessionRow
             /\ [q EXCEPT !.phase = "ui"] \in SessionRow
             /\ [q EXCEPT !.status = "waiting_approval", !.plan = n] \in SessionRow
             /\ [q EXCEPT !.last = Other] \in SessionRow
  BY <1>3 DEF SessionRow, Phase, SessionStatus
<1>5. ProposePlan(v, n) \in SessionRow
  BY <1>1, <1>4 DEF ProposePlan, i
<1>6. AskPageActions(v, turn[n].had) \in SessionRow
  BY <1>2, <1>4 DEF AskPageActions, i
<1>7. AskSecureInput(v) \in SessionRow
  BY <1>2, <1>3, <1>4 DEF AskSecureInput, i
<1>8. WatchChild(v, turn[n].had) \in SessionRow
  BY <1>2, <1>4 DEF WatchChild, i
<1>9. CancelPlan(v) \in SessionRow /\ KeepPlan(Idle(v), turn[n].had) \in SessionRow
  BY <1>2, <1>3 DEF CancelPlan, i
<1>10. QED BY <1>5, <1>6, <1>7, <1>8, <1>9 DEF Decided, Decision
-----------------------------------------------------------------------------
(* Steps that leave the tasks, or all but one of them, as they are. *)

(* Nothing is lost while tasks and approvals stay. *)
LEMMA TasksKept ==
  ASSUME IInv, UNCHANGED <<approval, task>>
  PROVE  /\ approval' \subseteq [task: Tasks, session: Sessions]
         /\ task' \in [Tasks -> TaskRow] /\ WorkerInv' /\ ApprovalInv'
BY DEF IInv, TypeOK, WorkerInv, ApprovalInv

(* A worker that moves on justifies its own row only. *)
LEMMA OneTask ==
  ASSUME IInv, NEW t \in Tasks, NEW w \in TaskRow, WorkerOK(w),
         task[t].at = "none" => w.at = "none",
         task[t].status # "none" => w.status # "none",
         task' = [task EXCEPT ![t] = w], UNCHANGED approval
  PROVE  /\ approval' \subseteq [task: Tasks, session: Sessions]
         /\ task' \in [Tasks -> TaskRow] /\ WorkerInv' /\ ApprovalInv'
<1>1. task' \in [Tasks -> TaskRow] /\ approval' \subseteq [task: Tasks, session: Sessions]
  BY DEF IInv, TypeOK
<1>2. \A u \in Tasks : task'[u] = IF u = t THEN w ELSE task[u]
  BY DEF IInv, TypeOK
<1>3. WorkerInv'
  BY <1>2 DEF IInv, WorkerInv
<1>4. ASSUME NEW a \in approval
      PROVE  task'[a.task].status # "none" /\ task'[a.task].at = "none"
  <2>1. a.task \in Tasks /\ task[a.task].status # "none" /\ task[a.task].at = "none"
    BY DEF IInv, TypeOK, ApprovalInv
  <2>2. QED BY <1>2, <2>1
<1>5. ApprovalInv'
  BY <1>4 DEF IInv, ApprovalInv
<1>6. QED BY <1>1, <1>3, <1>5

(* What is known of a task whose worker is at work. *)
LEMMA AtWork ==
  ASSUME IInv, NEW t \in Tasks
  PROVE  /\ task[t] \in TaskRow /\ WorkerOK(task[t])
         /\ task[t].session \in Sessions /\ sess[task[t].session] \in SessionRow
         /\ task[t].at # "none" => task[t].status # "none"
BY DEF IInv, TypeOK, WorkerInv, WorkerOK, TaskRow

(* Moving on without beginning an action, and not to the next one. *)
LEMMA MovesOn ==
  ASSUME NEW w \in TaskRow, WorkerOK(w), NEW at \in WorkerStep,
         w.status # "none",
         at \in {"check", "execute"} => at = "execute" /\ w.at = "check",
         at \in {"execute", "dispatched", "wait"} => w.k <= w.size,
         at \notin {"none", "queued"},
         at = "execute" => w.late = 0
  PROVE  [w EXCEPT !.at = at] \in TaskRow /\ WorkerOK([w EXCEPT !.at = at])
<1> DEFINE x == [w EXCEPT !.at = at]
<1>1. x \in TaskRow
  BY DEF TaskRow
<1>2. /\ x.at = at /\ x.status = w.status /\ x.k = w.k /\ x.size = w.size
      /\ x.entered = w.entered /\ x.began = w.began /\ x.late = w.late
  BY DEF TaskRow
<1> HIDE DEF x
<1>3. \A j \in 1..MaxActions : x.began[j] <= 1 /\ (Ahead(x, j) => x.began[j] = 0)
  BY <1>2 DEF WorkerOK, Ahead
<1>4. ~x.entered \/ x.at \in {"none", "queued"} => NotBegun(x)
  BY <1>2 DEF WorkerOK, NotBegun
<1>5. x.late # 0 => x.late = 1 /\ x.status = "canceled" /\ x.at # "execute"
  BY <1>2 DEF WorkerOK
<1>6. WorkerOK(x)
  BY <1>2, <1>3, <1>4, <1>5 DEF WorkerOK
<1>7. QED BY <1>1, <1>6 DEF x

(* The same as a step of the worker. *)
LEMMA GotoKeeps ==
  ASSUME IInv, NEW t \in Tasks, NEW at \in WorkerStep, Goto(t, at), UNCHANGED approval,
         task[t].at # "none",
         at \in {"check", "execute"} => at = "execute" /\ task[t].at = "check",
         at \in {"execute", "dispatched", "wait"} => task[t].k <= task[t].size,
         at \notin {"none", "queued"},
         at = "execute" => task[t].late = 0
  PROVE  /\ approval' \subseteq [task: Tasks, session: Sessions]
         /\ task' \in [Tasks -> TaskRow] /\ WorkerInv' /\ ApprovalInv'
<1> DEFINE w == task[t]
           x == [w EXCEPT !.at = at]
<1>1. w \in TaskRow /\ WorkerOK(w) /\ w.status # "none"
  BY AtWork
<1>2. x \in TaskRow /\ WorkerOK(x)
  <2> HIDE DEF w
  <2>1. w.at # "none" /\ (at \in {"check", "execute"} => at = "execute" /\ w.at = "check")
        /\ (at \in {"execute", "dispatched", "wait"} => w.k <= w.size)
        /\ (at = "execute" => w.late = 0)
    BY DEF w
  <2>2. QED BY <1>1, <2>1, MovesOn
<1>3. task' = [task EXCEPT ![t] = x]
  BY DEF Goto
<1>4. x.status = w.status
  BY <1>1 DEF TaskRow
<1> HIDE DEF x
<1>5. QED BY <1>1, <1>2, <1>3, <1>4, OneTask
-----------------------------------------------------------------------------
(* Reads of the session and message turns: the tasks stay as they are. *)

(* Together the parts are the invariant. *)
LEMMA Parts ==
  ASSUME IInv,
         sess' \in [Sessions -> SessionRow], ckpt' \in [Sessions -> SUBSET SessionRow],
         turn' \in [Turns -> TurnRow],
         approval' \subseteq [task: Tasks, session: Sessions],
         task' \in [Tasks -> TaskRow], WorkerInv', ApprovalInv'
  PROVE  IInv'
BY DEF IInv, TypeOK

(* A row saved by a step that touches nothing but sessions and turns. *)
LEMMA RowSaved ==
  ASSUME IInv, NEW s \in Sessions, NEW r \in SessionRow, Write(s, r),
         turn' \in [Turns -> TurnRow], UNCHANGED <<approval, task>>
  PROVE  IInv'
<1>1. sess' \in [Sessions -> SessionRow] /\ ckpt' \in [Sessions -> SUBSET SessionRow]
  BY WriteTyped DEF IInv
<1>2. QED BY <1>1, TasksKept, Parts

(* Create and Poll. *)
LEMMA ReadsKeep ==
  ASSUME IInv, Create \/ \E s \in Sessions : Poll(s)
  PROVE  IInv'
<1>0. turn \in [Turns -> TurnRow]
  BY DEF IInv, TypeOK
<1>1. CASE Create
  <2>1. Unused # {} /\ Unused \subseteq Nat /\ Unused \subseteq Sessions
    BY <1>1 DEF Create, Unused, Sessions
  <2>2. Least(Unused) \in Sessions
    BY <2>1, LeastNumber
  <2>3. Write(Least(Unused), NewSession) /\ turn' = turn /\ UNCHANGED <<approval, task>>
    BY <1>1 DEF Create
  <2>4. QED BY <1>0, <2>2, <2>3, FirstRows, RowSaved
<1>2. ASSUME NEW s \in Sessions, Poll(s)  PROVE IInv'
  <2>1. PICK slow \in Slow : Write(s, Reconcile(s, slow))
    BY <1>2 DEF Poll
  <2>2. Reconcile(s, slow) \in SessionRow
    BY ReconcileTyped DEF IInv
  <2>3. turn' = turn /\ UNCHANGED <<approval, task>>
    BY <1>2 DEF Poll
  <2>4. QED BY <1>0, <2>1, <2>2, <2>3, RowSaved
<1>3. QED BY <1>1, <1>2

(* A message or a step that is accepted becomes a turn with the row it saw. *)
LEMMA AcceptKeeps ==
  ASSUME IInv, NEW s \in Sessions, NEW r \in SessionRow, NEW step \in BOOLEAN,
         Accept(s, r, step)
  PROVE  IInv'
<1> DEFINE n == Least(FreeTurns)
           phase == IF step THEN "resolving" ELSE "reply"
           msg == IF step THEN None ELSE n
           row == [r EXCEPT !.phase = phase, !.msg = msg, !.rt = None, !.st = None]
           new == [NoTurn EXCEPT !.at = "accepted", !.step = step, !.session = s,
                                 !.had = r.plan, !.view = row]
<1>1. FreeTurns # {} /\ FreeTurns \subseteq Nat /\ FreeTurns \subseteq Turns
  BY DEF Accept, FreeTurns, Turns
<1>2. n \in Turns
  BY <1>1, LeastNumber
<1>3. phase \in Phase /\ msg \in 0..MaxTurns
  BY <1>2, Numbers DEF Phase
<1>4. row \in SessionRow
  <2> HIDE DEF phase, msg
  <2>1. QED BY <1>3, Numbers DEF SessionRow
<1>5. new \in TurnRow
  <2> HIDE DEF row
  <2>1. r.plan \in 0..MaxTurns
    BY DEF SessionRow
  <2>2. QED BY <1>4, <2>1, FirstRows DEF TurnRow, TurnStep
<1>6. turn' = [turn EXCEPT ![n] = new] /\ Write(s, row) /\ UNCHANGED <<approval, task>>
  BY DEF Accept
<1> HIDE DEF new, row, n
<1>7. turn' \in [Turns -> TurnRow]
  BY <1>2, <1>5, <1>6 DEF IInv, TypeOK
<1>8. QED BY <1>4, <1>6, <1>7, RowSaved

(* PostMessage and PostStep. *)
LEMMA PostsKeep ==
  ASSUME IInv, NEW s \in Sessions, PostMessage(s) \/ PostStep(s)
  PROVE  IInv'
<1>1. PICK slow \in Slow, step \in BOOLEAN : Accept(s, Reconcile(s, slow), step)
  BY DEF PostMessage, PostStep
<1>2. Reconcile(s, slow) \in SessionRow
  BY ReconcileTyped DEF IInv
<1>3. QED BY <1>1, <1>2, AcceptKeeps

(* A step with nothing to answer clears the runtime. *)
LEMMA EmptyStepKeeps ==
  ASSUME IInv, NEW s \in Sessions, EmptyStep(s)
  PROVE  IInv'
<1>1. PICK slow \in Slow :
        /\ Write(s, [ClearRuntime(Reconcile(s, slow)) EXCEPT !.st = None])
        /\ UNCHANGED turn /\ UNCHANGED <<approval, task>>
  BY DEF EmptyStep
<1>2. [ClearRuntime(Reconcile(s, slow)) EXCEPT !.st = None] \in SessionRow
  BY ReconcileTyped, RowsTyped DEF IInv, Idle
<1>3. turn' \in [Turns -> TurnRow]
  BY <1>1 DEF IInv, TypeOK
<1>4. QED BY <1>1, <1>2, <1>3, RowSaved

(* Credentials end the question, and may start the blocked action again. *)
LEMMA SecureStepKeeps ==
  ASSUME IInv, NEW s \in Sessions, SecureStep(s)
  PROVE  IInv'
<1> DEFINE q == ClearRuntime(Reconcile(s, FALSE))
           idle == [q EXCEPT !.status = "active", !.st = None]
           runs == [q EXCEPT !.status = "running", !.st = None, !.last = Other]
<1>1. q \in SessionRow
  BY ReconcileTyped, RowsTyped DEF IInv
<1>2. idle \in SessionRow /\ runs \in SessionRow
  <2> HIDE DEF q
  <2>1. QED BY <1>1, Numbers DEF SessionRow, SessionStatus
<1>3. /\ Write(s, idle) \/ Write(s, runs)
      /\ UNCHANGED turn /\ UNCHANGED <<approval, task>>
  BY DEF SecureStep
<1> HIDE DEF idle, runs
<1>4. turn' \in [Turns -> TurnRow]
  BY <1>3 DEF IInv, TypeOK
<1>5. QED BY <1>2, <1>3, <1>4, RowSaved

(* The decision is applied to the row read again; a checkpoint may remain.  *)
LEMMA DecideKeeps ==
  ASSUME IInv, NEW n \in Turns, Decide(n)
  PROVE  IInv'
<1> DEFINE s == turn[n].session
           v == IF turn[n].step THEN turn[n].view ELSE sess[s]
<1>1. /\ turn[n] \in TurnRow /\ s \in Sessions /\ v \in SessionRow
      /\ turn[n].had \in 0..MaxTurns
  BY DEF IInv, TypeOK, TurnRow
<1>2. PICK d \in Allowed(n) :
        /\ turn' = [turn EXCEPT ![n].at = "decided", ![n].view = v,
             ![n].out = Decided(n, v, d),
             ![n].child = IF d = "child" THEN "active" ELSE "none"]
        /\ \E c \in Checkpoints(s, d, Decided(n, v, d)) : ckpt' = [ckpt EXCEPT ![s] = c]
  BY DEF Decide
<1>3. UNCHANGED sess /\ UNCHANGED <<approval, task>>
  BY DEF Decide
<1>4. d \in Decision
  BY <1>2, AgentSessionAssumption DEF Allowed
<1> HIDE DEF v, s
<1> DEFINE out == Decided(n, v, d)
           child == IF d = "child" THEN "active" ELSE "none"
<1>5. out \in SessionRow
  BY <1>1, <1>4, DecidedTyped
<1> HIDE DEF out
<1>6. turn' = [turn EXCEPT ![n] = [turn[n] EXCEPT !.at = "decided", !.view = v,
                                   !.out = out, !.child = child]]
  BY <1>2 DEF out, IInv, TypeOK
<1>7. [turn[n] EXCEPT !.at = "decided", !.view = v, !.out = out, !.child = child]
        \in TurnRow
  BY <1>1, <1>5 DEF TurnRow, TurnStep
<1>8. turn' \in [Turns -> TurnRow]
  BY <1>6, <1>7 DEF IInv, TypeOK
<1>9. PICK c \in Checkpoints(s, d, out) : ckpt' = [ckpt EXCEPT ![s] = c]
  BY <1>2 DEF out
<1>10. c \in {{out}, {}, ckpt[s]}
  BY <1>4, <1>9 DEF Checkpoints, Decision
<1>11. c \subseteq SessionRow
  BY <1>1, <1>5, <1>10 DEF IInv, TypeOK
<1>12. ckpt' \in [Sessions -> SUBSET SessionRow]
  BY <1>9, <1>11 DEF IInv, TypeOK
<1>13. sess' \in [Sessions -> SessionRow]
  BY <1>3 DEF IInv, TypeOK
<1>14. QED BY <1>3, <1>8, <1>12, <1>13, TasksKept, Parts

(* The columns that changed, merged into the row of now, make a row. *)
LEMMA CommitTurnKeeps ==
  ASSUME IInv, NEW n \in Turns, CommitTurn(n)
  PROVE  IInv'
<1> DEFINE s == turn[n].session
           r == Merge(sess[s], turn[n].view, turn[n].out)
           new == [NoTurn EXCEPT !.at = "done", !.session = s, !.child = turn[n].child]
<1>1. /\ turn[n] \in TurnRow /\ s \in Sessions /\ sess[s] \in SessionRow
      /\ turn[n].view \in SessionRow /\ turn[n].out \in SessionRow
      /\ turn[n].child \in {"none", "active", "done"}
  BY DEF IInv, TypeOK, TurnRow
<1>2. ASSUME NEW x \in SessionRow, NEW y \in SessionRow, NEW z \in SessionRow
      PROVE  Merge(x, y, z) \in SessionRow
  BY DEF Merge, SessionRow
<1>3. r \in SessionRow
  BY <1>1, <1>2
<1>4. new \in TurnRow
  BY <1>1, FirstRows DEF TurnRow, TurnStep
<1>5. Write(s, r) /\ turn' = [turn EXCEPT ![n] = new] /\ UNCHANGED <<approval, task>>
  BY DEF CommitTurn
<1> HIDE DEF new, r, s
<1>6. turn' \in [Turns -> TurnRow]
  BY <1>4, <1>5 DEF IInv, TypeOK
<1>7. QED BY <1>1, <1>3, <1>5, <1>6, RowSaved

(* Abandon and TurnDies. *)
LEMMA TurnEndsKeep ==
  ASSUME IInv, NEW n \in Turns, Abandon(n) \/ TurnDies(n)
  PROVE  IInv'
<1>1. turn[n].session \in Sessions /\ turn[n].child \in {"none", "active", "done"}
  BY DEF IInv, TypeOK, TurnRow
<1>2. /\ [NoTurn EXCEPT !.at = "abandoned"] \in TurnRow
      /\ [NoTurn EXCEPT !.at = "dead", !.session = turn[n].session,
                        !.child = turn[n].child] \in TurnRow
  BY <1>1, FirstRows DEF TurnRow, TurnStep
<1>3. PICK new \in TurnRow : turn' = [turn EXCEPT ![n] = new]
  BY <1>2 DEF Abandon, TurnDies
<1>4. turn' \in [Turns -> TurnRow]
  BY <1>3 DEF IInv, TypeOK
<1>5. UNCHANGED <<sess, ckpt>> /\ UNCHANGED <<approval, task>>
  BY DEF Abandon, TurnDies
<1>6. /\ sess' \in [Sessions -> SessionRow] /\ ckpt' \in [Sessions -> SUBSET SessionRow]
  BY <1>5 DEF IInv, TypeOK
<1>7. QED BY <1>4, <1>5, <1>6, TasksKept, Parts

(* The follow-up of a child task writes the row it finds. *)
LEMMA FollowupKeeps ==
  ASSUME IInv, NEW n \in Turns, Followup(n)
  PROVE  IInv'
<1> DEFINE s == turn[n].session
           r == sess[s]
           idle == IF r.phase \in {"ui", "resolving"} THEN ClearRuntime(r) ELSE r
           row == [idle EXCEPT !.last = Other, !.st = None,
                     !.status = IF @ = "running" THEN "active" ELSE @]
<1>1. s \in Sessions /\ turn[n] \in TurnRow
  BY DEF IInv, TypeOK, TurnRow
<1>2. r \in SessionRow
  BY <1>1 DEF IInv, TypeOK
<1>3. idle \in SessionRow
  BY <1>2, RowsTyped
<1>4. row \in SessionRow
  <2> HIDE DEF idle
  <2>1. QED BY <1>3, Numbers DEF SessionRow, SessionStatus
<1>5. [turn[n] EXCEPT !.child = "done"] \in TurnRow
  BY <1>1 DEF TurnRow
<1>6. /\ turn' = [turn EXCEPT ![n] = [turn[n] EXCEPT !.child = "done"]]
      /\ Write(s, row) /\ UNCHANGED <<approval, task>>
  BY DEF Followup
<1>7. turn' \in [Turns -> TurnRow]
  BY <1>5, <1>6 DEF IInv, TypeOK
<1> HIDE DEF row, s
<1>8. QED BY <1>1, <1>4, <1>6, <1>7, RowSaved
-----------------------------------------------------------------------------
(* Approval. *)

(* The task of an approval is new: no other approval owns it. *)
LEMMA ApproveKeeps ==
  ASSUME IInv, NEW s \in Sessions, Approve(s)
  PROVE  IInv'
<1> DEFINE t == Least(FreeTasks)
<1>1. FreeTasks # {} /\ FreeTasks \subseteq Nat
  <2>1. FreeTasks # {}
    BY DEF Approve
  <2>2. FreeTasks \subseteq Nat
    BY DEF FreeTasks, Tasks
  <2>3. QED BY <2>1, <2>2
<1>2. t \in Tasks /\ task[t].status = "none"
  BY <1>1, LeastNumber DEF FreeTasks, Created
<1>3. PICK slow \in Slow, size \in 1..MaxActions :
        /\ Reconcile(s, slow).plan # None
        /\ task' = [task EXCEPT ![t] = [NoTask EXCEPT !.status = "pending",
             !.session = s, !.plan = Reconcile(s, slow).plan, !.size = size]]
        /\ approval' = approval \cup {[task |-> t, session |-> s]}
        /\ UNCHANGED <<sess, ckpt>>
  BY DEF Approve
<1> DEFINE r == Reconcile(s, slow)
<1>4. r \in SessionRow
  BY ReconcileTyped DEF IInv
<1>5. sess' \in [Sessions -> SessionRow] /\ ckpt' \in [Sessions -> SUBSET SessionRow]
  BY <1>3 DEF IInv, TypeOK
<1>6. r.plan \in 0..MaxTurns
  BY <1>4 DEF SessionRow
<1> HIDE DEF r, t
<1> DEFINE w == [NoTask EXCEPT !.status = "pending", !.session = s, !.plan = r.plan,
                               !.size = size]
<1>7. w \in TaskRow
  BY <1>6, FirstRows DEF TaskRow, TaskStatus
<1>8. w.status = "pending" /\ w.at = "none" /\ w.late = 0 /\ w.began = NoTask.began
  BY FirstRows DEF TaskRow
<1>9. NotBegun(w)
  BY <1>8, FirstRows DEF NotBegun
<1> HIDE DEF w
<1>10. WorkerOK(w)
  BY <1>8, <1>9 DEF WorkerOK, NotBegun
<1>11. \A u \in Tasks : task'[u] = IF u = t THEN w ELSE task[u]
  BY <1>3 DEF IInv, TypeOK, w, r, t
<1>12. task' \in [Tasks -> TaskRow]
  BY <1>3, <1>7 DEF IInv, TypeOK, w, r, t
<1>13. WorkerInv'
  BY <1>10, <1>11 DEF IInv, WorkerInv
<1> DEFINE new == [task |-> t, session |-> s]
<1>14. approval' = approval \cup {new} /\ new.task = t
  BY <1>3 DEF t
<1>15. \A a \in approval : a.task \in Tasks /\ a.task # t
  BY <1>2 DEF IInv, TypeOK, ApprovalInv
<1>16. ApprovalInv'
  <2>1. ASSUME NEW a \in approval'
        PROVE  task'[a.task].status # "none" /\ task'[a.task].at = "none"
    <3>1. CASE a = new
      BY <1>2, <1>8, <1>11, <1>14, <3>1
    <3>2. CASE a \in approval
      BY <1>11, <1>15, <3>2 DEF IInv, ApprovalInv
    <3>3. QED BY <1>14, <3>1, <3>2
  <2>2. ASSUME NEW a \in approval', NEW b \in approval', a.task = b.task  PROVE a = b
    BY <1>14, <1>15, <2>2 DEF IInv, ApprovalInv
  <2>3. QED BY <2>1, <2>2 DEF ApprovalInv
<1>17. approval' \subseteq [task: Tasks, session: Sessions]
  BY <1>2, <1>14 DEF IInv, TypeOK
<1>18. turn' \in [Turns -> TurnRow]
  BY DEF Approve, IInv, TypeOK
<1>19. QED BY <1>5, <1>12, <1>13, <1>16, <1>17, <1>18, Parts

(* The session's row that the second commit writes, or not. *)
LEMMA SessionRunsTyped ==
  ASSUME IInv, NEW a \in approval, SessionRuns(a) \/ UNCHANGED <<sess, ckpt>>
  PROVE  sess' \in [Sessions -> SessionRow] /\ ckpt' \in [Sessions -> SUBSET SessionRow]
<1>1. a.session \in Sessions /\ a.task \in Tasks
  BY DEF IInv, TypeOK
<1>2. CASE UNCHANGED <<sess, ckpt>>
  BY <1>2 DEF IInv, TypeOK
<1>3. CASE SessionRuns(a)
  <2> DEFINE q == sess[a.session]
             runs == [q EXCEPT !.status = "running", !.plan = None, !.phase = "task",
                !.msg = None, !.rt = a.task, !.st = None, !.last = a.task]
  <2>1. q \in SessionRow
    BY <1>1 DEF IInv, TypeOK
  <2>2. Write(a.session, runs)
    BY <1>3 DEF SessionRuns
  <2>3. a.task \in 0..MaxTasks /\ a.task \in 0..(MaxTasks + 1)
    BY <1>1, Numbers
  <2> HIDE DEF q
  <2>4. runs \in SessionRow
    BY <2>1, <2>3, Numbers DEF SessionRow, SessionStatus, Phase
  <2> HIDE DEF runs
  <2>5. QED BY <1>1, <2>2, <2>4, WriteTyped DEF IInv
<1>4. QED BY <1>2, <1>3

(* The task is handed to the worker, or lost, with nothing begun.  *)
LEMMA HandOverKeeps ==
  ASSUME IInv, NEW a \in approval, ApproveCommit(a) \/ ApproveDies(a)
  PROVE  IInv'
<1> DEFINE t == a.task
           w == task[t]
<1>1. t \in Tasks /\ w \in TaskRow /\ WorkerOK(w) /\ w.status # "none" /\ w.at = "none"
  BY DEF IInv, TypeOK, WorkerInv, ApprovalInv
<1>2. PICK at \in {"queued", "dead"} : task' = [task EXCEPT ![t].at = at]
  BY DEF ApproveCommit, ApproveDies
<1>3. /\ approval' = approval \ {a} /\ turn' = turn
      /\ SessionRuns(a) \/ UNCHANGED <<sess, ckpt>>
  BY DEF ApproveCommit, ApproveDies
<1> HIDE DEF w
<1> DEFINE x == [w EXCEPT !.at = at]
<1>4. x \in TaskRow
  BY <1>1 DEF TaskRow, WorkerStep
<1>5. /\ x.at = at /\ x.status = w.status /\ x.k = w.k /\ x.size = w.size
      /\ x.entered = w.entered /\ x.began = w.began /\ x.late = w.late
  BY <1>1 DEF TaskRow
<1> HIDE DEF x
<1>6. NotBegun(x)
  BY <1>1, <1>5 DEF WorkerOK, NotBegun
<1>7. WorkerOK(x)
  BY <1>1, <1>5, <1>6 DEF WorkerOK, NotBegun
<1>8. task' = [task EXCEPT ![t] = x]
  BY <1>2 DEF x, w
<1>9. \A u \in Tasks : task'[u] = IF u = t THEN x ELSE task[u]
  BY <1>8 DEF IInv, TypeOK
<1>10. task' \in [Tasks -> TaskRow] /\ turn' \in [Turns -> TurnRow]
       /\ approval' \subseteq [task: Tasks, session: Sessions]
  BY <1>3, <1>4, <1>8 DEF IInv, TypeOK
<1>11. WorkerInv'
  BY <1>7, <1>9 DEF IInv, WorkerInv
<1>12. ASSUME NEW b \in approval'
       PROVE  task'[b.task].status # "none" /\ task'[b.task].at = "none"
  <2>1. b \in approval /\ b # a
    BY <1>3
  <2>2. b.task # t /\ b.task \in Tasks
    BY <2>1 DEF IInv, TypeOK, ApprovalInv
  <2>3. QED BY <1>9, <2>1, <2>2 DEF IInv, ApprovalInv
<1>13. ApprovalInv'
  BY <1>3, <1>12 DEF IInv, ApprovalInv
<1>14. sess' \in [Sessions -> SessionRow] /\ ckpt' \in [Sessions -> SUBSET SessionRow]
  BY <1>3, SessionRunsTyped
<1>15. QED BY <1>10, <1>11, <1>13, <1>14, Parts

-----------------------------------------------------------------------------
(* Cancellation. *)

(* Whether the revocation kills the worker or comes too late. *)
LEMMA CanceledKeeps ==
  ASSUME IInv, NEW t \in Created, task[t].status \notin Terminal, NEW killed \in BOOLEAN,
         task' = Canceled(t, killed), UNCHANGED approval
  PROVE  /\ approval' \subseteq [task: Tasks, session: Sessions]
         /\ task' \in [Tasks -> TaskRow] /\ WorkerInv' /\ ApprovalInv'
<1> DEFINE w == task[t]
           at == IF killed /\ w.at \in Revocable THEN "dead" ELSE w.at
           x == [w EXCEPT !.status = "canceled", !.at = at]
<1>1. t \in Tasks /\ w \in TaskRow /\ WorkerOK(w)
  BY AtWork DEF Created
<1>2. w.late = 0
  BY <1>1 DEF WorkerOK, Terminal
<1>3. task' = [task EXCEPT ![t] = x]
  BY DEF Canceled
<1>4. at \in WorkerStep /\ (at = w.at \/ at = "dead")
  BY <1>1 DEF TaskRow, WorkerStep
<1>5. w.at = "none" => at = "none"
  BY DEF Revocable
<1> HIDE DEF at
<1>6. x \in TaskRow
  <2> HIDE DEF w
  <2>1. QED BY <1>1, <1>4 DEF TaskRow, TaskStatus
<1>7. /\ x.at = at /\ x.status = "canceled" /\ x.k = w.k /\ x.size = w.size
      /\ x.entered = w.entered /\ x.began = w.began /\ x.late = w.late
  BY <1>1 DEF TaskRow
<1> HIDE DEF x
<1>8. WorkerOK(x)
  <2> HIDE DEF w
  <2>1. ~x.entered \/ x.at \in {"none", "queued"} => NotBegun(x)
    BY <1>1, <1>4, <1>7 DEF WorkerOK, NotBegun
  <2>2. \A j \in 1..MaxActions : x.began[j] <= 1 /\ (Ahead(x, j) => x.began[j] = 0)
    BY <1>1, <1>4, <1>7 DEF WorkerOK, Ahead
  <2>3. QED BY <1>1, <1>2, <1>4, <1>7, <2>1, <2>2 DEF WorkerOK
<1>9. QED BY <1>1, <1>3, <1>5, <1>6, <1>7, <1>8, OneTask

(* The interrupt button. *)
LEMMA InterruptKeeps ==
  ASSUME IInv, NEW s \in Sessions, Interrupt(s)
  PROVE  IInv'
<1> DEFINE r == ReconcileRunning(s, Restored(s))
           t == AsyncTask(r)
<1>1. r \in SessionRow
  BY RestoredTyped, ReconcileRunningTyped DEF IInv
<1> DEFINE q == Restore(r)
<1>2. q \in SessionRow
  BY <1>1, RowsTyped
<1>3. /\ turn' \in [Turns -> TurnRow] /\ approval' = approval
      /\ \/ /\ IsOrchestration(t, s) /\ task[t].status \notin Terminal
            /\ \E killed \in BOOLEAN : task' = Canceled(t, killed)
            /\ Write(s, [q EXCEPT !.last = t])
         \/ Write(s, q) /\ UNCHANGED task
  BY DEF Interrupt, IInv, TypeOK
<1> HIDE DEF q, t, r
<1>4. CASE Write(s, q) /\ UNCHANGED task
  BY <1>2, <1>3, <1>4, RowSaved
<1>5. CASE /\ IsOrchestration(t, s) /\ task[t].status \notin Terminal
           /\ \E killed \in BOOLEAN : task' = Canceled(t, killed)
           /\ Write(s, [q EXCEPT !.last = t])
  <2>1. t \in Created /\ t \in 0..(MaxTasks + 1)
    BY <1>5, Numbers DEF IsOrchestration, Created
  <2> DEFINE row == [q EXCEPT !.last = t]
  <2>2. row \in SessionRow
    BY <1>2, <2>1 DEF SessionRow
  <2> HIDE DEF row
  <2>3. sess' \in [Sessions -> SessionRow] /\ ckpt' \in [Sessions -> SUBSET SessionRow]
    BY <1>5, <2>2, WriteTyped DEF IInv, row
  <2>4. PICK killed \in BOOLEAN : task' = Canceled(t, killed)
    BY <1>5
  <2>5. /\ approval' \subseteq [task: Tasks, session: Sessions]
        /\ task' \in [Tasks -> TaskRow] /\ WorkerInv' /\ ApprovalInv'
    BY <1>3, <1>5, <2>1, <2>4, CanceledKeeps
  <2>6. QED BY <1>3, <2>3, <2>5, Parts
<1>6. QED BY <1>3, <1>4, <1>5

(* The task list. *)
LEMMA CancelTaskKeeps ==
  ASSUME IInv, NEW t \in Tasks, CancelTask(t)
  PROVE  IInv'
<1>1. PICK killed \in BOOLEAN : task' = Canceled(t, killed)
  BY DEF CancelTask
<1>2. /\ t \in Created /\ task[t].status \notin Terminal
      /\ UNCHANGED <<sess, ckpt, turn>> /\ UNCHANGED approval
  BY DEF CancelTask
<1>3. /\ approval' \subseteq [task: Tasks, session: Sessions]
      /\ task' \in [Tasks -> TaskRow] /\ WorkerInv' /\ ApprovalInv'
  BY <1>1, <1>2, CanceledKeeps
<1>4. /\ sess' \in [Sessions -> SessionRow] /\ ckpt' \in [Sessions -> SUBSET SessionRow]
      /\ turn' \in [Turns -> TurnRow]
  BY <1>2 DEF IInv, TypeOK
<1>5. QED BY <1>3, <1>4, Parts

(* A new session: the open ones are closed. *)
LEMMA ResetKeeps ==
  ASSUME IInv, Reset
  PROVE  IInv'
<1> DEFINE closed(s) == [NewSession EXCEPT !.status = "completed", !.last = sess[s].last]
<1>1. ASSUME NEW s \in Sessions
      PROVE  closed(s) \in SessionRow /\ sess[s] \in SessionRow /\ ckpt[s] \subseteq SessionRow
  <2>1. sess[s] \in SessionRow /\ ckpt[s] \subseteq SessionRow
    BY DEF IInv, TypeOK
  <2>2. sess[s].last \in 0..(MaxTasks + 1)
    BY <2>1 DEF SessionRow
  <2>3. QED BY <2>1, <2>2, FirstRows DEF SessionRow, SessionStatus
<1>2. sess' = [s \in Sessions |->
        IF s \in Current THEN closed(s)
        ELSE IF Unused # {} /\ s = Least(Unused) THEN NewSession ELSE sess[s]]
  BY DEF Reset
<1>3. ckpt' = [s \in Sessions |-> IF s \in Current THEN {} ELSE ckpt[s]]
  BY DEF Reset
<1> HIDE DEF closed
<1>4. sess' \in [Sessions -> SessionRow]
  BY <1>1, <1>2, FirstRows
<1>5. ckpt' \in [Sessions -> SUBSET SessionRow]
  BY <1>1, <1>3
<1>6. UNCHANGED approval /\ turn' \in [Turns -> TurnRow]
  BY DEF Reset, IInv, TypeOK
<1>7. PICK s \in Current, slow \in Slow :
        LET r == Reconcile(s, slow)
            t == AsyncTask(r)
        IN  IF r.status = "running" /\ IsOrchestration(t, s)
                 /\ task[t].status \notin Terminal
              THEN \E killed \in BOOLEAN : task' = Canceled(t, killed)
              ELSE UNCHANGED task
  BY DEF Reset
<1> DEFINE t == AsyncTask(Reconcile(s, slow))
<1>8. CASE UNCHANGED task
  BY <1>4, <1>5, <1>6, <1>8, TasksKept, Parts
<1>9. ASSUME IsOrchestration(t, s), task[t].status \notin Terminal,
             NEW killed \in BOOLEAN, task' = Canceled(t, killed)
      PROVE  IInv'
  <2>1. t \in Created
    BY <1>9 DEF IsOrchestration
  <2> HIDE DEF t
  <2>2. /\ approval' \subseteq [task: Tasks, session: Sessions]
        /\ task' \in [Tasks -> TaskRow] /\ WorkerInv' /\ ApprovalInv'
    BY <1>6, <1>9, <2>1, CanceledKeeps
  <2>3. QED BY <1>4, <1>5, <1>6, <2>2, Parts
<1>10. QED BY <1>7, <1>8, <1>9
-----------------------------------------------------------------------------
(* The worker. *)

(* A step of the worker on its task alone. *)
LEMMA WorkerStepKeeps ==
  ASSUME IInv, UNCHANGED <<sess, ckpt, turn>>,
         approval' \subseteq [task: Tasks, session: Sessions],
         task' \in [Tasks -> TaskRow], WorkerInv', ApprovalInv'
  PROVE  IInv'
BY DEF IInv, TypeOK

(* Every attempt starts at the first action, and nothing was begun before.  *)
LEMMA StartKeeps ==
  ASSUME IInv, NEW t \in Tasks, Start(t)
  PROVE  IInv'
<1> DEFINE w == task[t]
<1>1. w \in TaskRow /\ WorkerOK(w) /\ w.at = "queued" /\ w.status # "none"
  BY AtWork DEF Start
<1>2. UNCHANGED <<sess, ckpt, turn>> /\ UNCHANGED approval
  BY DEF Start
<1>3. CASE w.status = "canceled"
  <2>1. Goto(t, "interrupted")
    BY <1>3 DEF Start
  <2>2. QED BY <1>1, <1>2, <2>1, GotoKeeps, WorkerStepKeeps DEF WorkerStep
<1>4. CASE w.status # "canceled"
  <2>1. PICK at \in {"check", "raised"} :
          task' = [task EXCEPT ![t].status = "running", ![t].at = at,
                               ![t].k = 1, ![t].entered = FALSE]
    BY <1>4 DEF Start
  <2> DEFINE x == [w EXCEPT !.status = "running", !.at = at, !.k = 1, !.entered = FALSE]
  <2>2. task' = [task EXCEPT ![t] = x]
    BY <2>1
  <2> HIDE DEF w
  <2>0. 1 \in 1..(MaxActions + 1)
    BY AgentSessionAssumption
  <2>3. x \in TaskRow
    BY <1>1, <2>0 DEF TaskRow, TaskStatus, WorkerStep
  <2>4. x.status = "running" /\ x.at = at /\ x.began = w.began /\ x.late = w.late
    BY <1>1 DEF TaskRow
  <2> HIDE DEF x
  <2>5. NotBegun(x) /\ x.late = 0
    BY <1>1, <1>4, <2>4 DEF WorkerOK, NotBegun
  <2>6. WorkerOK(x)
    BY <2>4, <2>5 DEF WorkerOK, NotBegun
  <2>7. QED BY <1>1, <1>2, <2>2, <2>3, <2>4, <2>6, OneTask, WorkerStepKeeps DEF w
<1>5. QED BY <1>3, <1>4

(* Nobody passes the check after the cancellation. *)
LEMMA CheckKeeps ==
  ASSUME IInv, NEW t \in Tasks, Check(t)
  PROVE  IInv'
<1> DEFINE w == task[t]
           at == IF w.status = "canceled" THEN "interrupted"
                 ELSE IF w.k > w.size THEN "finalize" ELSE "execute"
<1>1. w \in TaskRow /\ WorkerOK(w) /\ w.at = "check"
  BY AtWork DEF Check
<1>2. Goto(t, at) /\ UNCHANGED <<sess, ckpt, turn>> /\ UNCHANGED approval
  BY DEF Check
<1>3. /\ at \in {"interrupted", "finalize", "execute"} /\ at \in WorkerStep
      /\ at = "execute" => w.k <= w.size /\ w.late = 0
  BY <1>1 DEF WorkerStep, WorkerOK, TaskRow
<1> HIDE DEF at
<1>4. QED BY <1>1, <1>2, <1>3, GotoKeeps, WorkerStepKeeps

(* The action the worker is at begins for the first time. *)
LEMMA BegunOK ==
  ASSUME NEW w \in TaskRow, WorkerOK(w), w.at = "execute", w.status # "none",
         NEW at \in {"raised", "check", "dispatched"}, NEW n \in {w.k, w.k + 1},
         at = "check" <=> n = w.k + 1,
         NEW child \in {"none", "active", "ok", "bad"}, NEW x,
         x = [w EXCEPT !.entered = TRUE, !.began[w.k] = @ + 1,
                       !.late = IF w.status = "canceled" THEN @ + 1 ELSE @,
                       !.at = at, !.k = n, !.child = child]
  PROVE  x \in TaskRow /\ WorkerOK(x) /\ x.status # "none" /\ x.at # "none"
<1> DEFINE late == IF w.status = "canceled" THEN w.late + 1 ELSE w.late
           began == [w.began EXCEPT ![w.k] = @ + 1]
<1>1. w.k \in 1..MaxActions /\ w.late = 0 /\ w.began \in [1..MaxActions -> Nat]
  BY AgentSessionAssumption DEF WorkerOK, TaskRow
<1>2. began \in [1..MaxActions -> Nat] /\ late \in {0, 1}
      /\ (late = 1 => w.status = "canceled")
  <2>1. ASSUME NEW f \in [1..MaxActions -> Nat], NEW k \in 1..MaxActions
        PROVE  [f EXCEPT ![k] = @ + 1] \in [1..MaxActions -> Nat]
    OBVIOUS
  <2>2. began \in [1..MaxActions -> Nat]
    BY <1>1, <2>1
  <2>3. late \in {0, 1} /\ (late = 1 => w.status = "canceled")
    BY <1>1
  <2>4. QED BY <2>2, <2>3
<1>3. n \in 1..(MaxActions + 1)
  BY <1>1, AgentSessionAssumption
<1>4. \A j \in 1..MaxActions :
        /\ began[j] = IF j = w.k THEN w.began[j] + 1 ELSE w.began[j]
        /\ w.began[j] <= 1 /\ (j >= w.k => w.began[j] = 0)
  <2>1. SUFFICES ASSUME NEW j \in 1..MaxActions
                 PROVE  /\ began[j] = IF j = w.k THEN w.began[j] + 1 ELSE w.began[j]
                        /\ w.began[j] <= 1 /\ (j >= w.k => w.began[j] = 0)
    OBVIOUS
  <2>2. ASSUME NEW f \in [1..MaxActions -> Nat], NEW k \in 1..MaxActions
        PROVE  [f EXCEPT ![k] = @ + 1][j] = IF j = k THEN f[j] + 1 ELSE f[j]
    OBVIOUS
  <2>3. began[j] = IF j = w.k THEN w.began[j] + 1 ELSE w.began[j]
    BY <1>1, <2>2
  <2>4. w.k \in Nat /\ j \in Nat
    BY <1>1
  <2>5. j >= w.k => Ahead(w, j)
    BY <2>4 DEF Ahead
  <2>6. w.began[j] <= 1 /\ (Ahead(w, j) => w.began[j] = 0)
    BY DEF WorkerOK
  <2>7. QED BY <2>3, <2>5, <2>6
<1>5. x = [w EXCEPT !.entered = TRUE, !.began = began, !.late = late, !.at = at,
                    !.k = n, !.child = child]
  OBVIOUS
<1> HIDE DEF began, late
<1>6. x \in TaskRow
  <2>1. late \in Nat /\ TRUE \in BOOLEAN /\ at \in WorkerStep
    BY <1>2 DEF WorkerStep
  <2>2. QED BY <1>2, <1>3, <1>5, <2>1, SMTT(30), ZenonT(30) DEF TaskRow
<1>7. /\ x.at = at /\ x.status = w.status /\ x.k = n /\ x.size = w.size
      /\ x.entered = TRUE /\ x.began = began /\ x.late = late
  BY <1>5 DEF TaskRow
<1>8. \A j \in 1..MaxActions : x.began[j] <= 1 /\ (Ahead(x, j) => x.began[j] = 0)
  <2>1. SUFFICES ASSUME NEW j \in 1..MaxActions
                 PROVE  began[j] <= 1 /\ (Ahead(x, j) => began[j] = 0)
    BY <1>7
  <2>2. began[j] <= 1
    BY <1>1, <1>4
  <2>3. Ahead(x, j) => j > w.k
    BY <1>1, <1>7 DEF Ahead
  <2>4. j > w.k => began[j] = 0
    BY <1>1, <1>4
  <2>5. QED BY <2>2, <2>3, <2>4
<1>9. x.at \in {"execute", "dispatched", "wait"} => x.k <= x.size
  BY <1>7 DEF WorkerOK, TaskRow
<1>10. WorkerOK(x)
  BY <1>2, <1>7, <1>8, <1>9 DEF WorkerOK
<1>11. QED BY <1>6, <1>7, <1>10

(* An action fails, is done, or leaves a child task to wait for. *)
LEMMA ExecuteKeeps ==
  ASSUME IInv, NEW t \in Tasks, Execute(t)
  PROVE  IInv'
<1> DEFINE w == task[t]
           s == w.session
           begun == [w EXCEPT !.entered = TRUE, !.began[w.k] = @ + 1,
                              !.late = IF w.status = "canceled" THEN @ + 1 ELSE @]
           row == [sess[s] EXCEPT !.status = "running", !.phase = "task",
                                  !.rt = t, !.st = t, !.last = Other]
<1>1. /\ w \in TaskRow /\ WorkerOK(w) /\ w.at = "execute" /\ w.status # "none"
      /\ s \in Sessions /\ sess[s] \in SessionRow
  BY AtWork DEF Execute
<1>2. /\ turn' \in [Turns -> TurnRow] /\ UNCHANGED approval
      /\ \/ /\ task' = [task EXCEPT ![t] = [begun EXCEPT !.at = "raised"]]
            /\ UNCHANGED <<sess, ckpt>>
         \/ /\ task' = [task EXCEPT ![t] = [begun EXCEPT !.at = "check", !.k = @ + 1]]
            /\ UNCHANGED <<sess, ckpt>>
         \/ /\ task' = [task EXCEPT ![t] = [begun EXCEPT !.at = "dispatched",
                                                        !.child = "active"]]
            /\ Write(s, row)
  BY DEF Execute, IInv, TypeOK
<1>3. row \in SessionRow
  <2> DEFINE q == sess[s]
  <2>1. q \in SessionRow
    BY <1>1
  <2> HIDE DEF q
  <2>2. t \in 0..MaxTasks
    BY Numbers
  <2>3. [q EXCEPT !.status = "running", !.phase = "task",
                  !.rt = t, !.st = t, !.last = Other] \in SessionRow
    BY <2>1, <2>2, Numbers DEF SessionRow, SessionStatus, Phase
  <2>4. QED BY <2>3 DEF q
<1> DEFINE full(at, n, child) ==
      [w EXCEPT !.entered = TRUE, !.began[w.k] = @ + 1,
                !.late = IF w.status = "canceled" THEN @ + 1 ELSE @,
                !.at = at, !.k = n, !.child = child]
<1>4. w.k \in Nat /\ w.child \in {"none", "active", "ok", "bad"}
  BY <1>1 DEF TaskRow
<1>5. /\ [begun EXCEPT !.at = "raised"] = full("raised", w.k, w.child)
      /\ [begun EXCEPT !.at = "check", !.k = @ + 1] = full("check", w.k + 1, w.child)
      /\ [begun EXCEPT !.at = "dispatched", !.child = "active"]
           = full("dispatched", w.k, "active")
  <2> HIDE DEF w
  <2>1. QED BY <1>1 DEF TaskRow
<1> HIDE DEF begun, row, w
<1>6. PICK at \in {"raised", "check", "dispatched"}, n \in {w.k, w.k + 1},
           child \in {"none", "active", "ok", "bad"} :
        task' = [task EXCEPT ![t] = full(at, n, child)] /\ (at = "check" <=> n = w.k + 1)
  <2>1. "active" \in {"none", "active", "ok", "bad"} /\ w.k # w.k + 1
    BY <1>4
  <2>2. \/ task' = [task EXCEPT ![t] = full("raised", w.k, w.child)]
        \/ task' = [task EXCEPT ![t] = full("check", w.k + 1, w.child)]
        \/ task' = [task EXCEPT ![t] = full("dispatched", w.k, "active")]
    BY <1>2, <1>5
  <2> HIDE DEF full
  <2>3. QED BY <1>4, <2>1, <2>2
<1> DEFINE x == full(at, n, child)
<1>7. x \in TaskRow /\ WorkerOK(x) /\ x.status # "none" /\ x.at # "none"
  BY <1>1, <1>6, BegunOK
<1>8. task' = [task EXCEPT ![t] = x]
  BY <1>6
<1> HIDE DEF x
<1>9. task[t].at # "none"
  BY <1>1 DEF w
<1>10. /\ approval' \subseteq [task: Tasks, session: Sessions]
       /\ task' \in [Tasks -> TaskRow] /\ WorkerInv' /\ ApprovalInv'
  BY <1>2, <1>7, <1>8, <1>9, OneTask
<1>11. sess' \in [Sessions -> SessionRow] /\ ckpt' \in [Sessions -> SUBSET SessionRow]
  <2>1. CASE UNCHANGED <<sess, ckpt>>
    BY <2>1 DEF IInv, TypeOK
  <2>2. CASE Write(s, row)
    <3> HIDE DEF s
    <3>1. QED BY <1>1, <1>3, <2>2, WriteTyped DEF IInv
  <2>3. QED BY <1>2, <2>1, <2>2
<1>12. QED BY <1>2, <1>10, <1>11, Parts
(* Dispatched, WorkerDies, and the three ways a worker leaves its session.  *)
LEMMA DispatchedKeeps ==
  ASSUME IInv, NEW t \in Tasks, Dispatched(t) \/ WorkerDies(t)
  PROVE  IInv'
<1> DEFINE w == task[t]
<1>1. w \in TaskRow /\ WorkerOK(w)
  BY AtWork
<1>2. UNCHANGED <<sess, ckpt, turn>> /\ UNCHANGED approval
  BY DEF Dispatched, WorkerDies
<1>3. CASE Dispatched(t)
  <2> DEFINE at == IF w.status = "canceled" THEN "interrupted" ELSE "wait"
  <2>1. Goto(t, at) /\ w.at = "dispatched"
    BY <1>3 DEF Dispatched
  <2>2. at \in {"interrupted", "wait"} /\ at \in WorkerStep /\ w.k <= w.size
    BY <1>1, <2>1 DEF WorkerStep, WorkerOK
  <2> HIDE DEF at
  <2>3. QED BY <1>1, <1>2, <2>1, <2>2, GotoKeeps, WorkerStepKeeps
<1>4. CASE WorkerDies(t)
  <2>1. Goto(t, "dead") /\ w.at # "none"
    BY <1>4 DEF WorkerDies
  <2>2. QED BY <1>1, <1>2, <2>1, GotoKeeps, WorkerStepKeeps DEF WorkerStep
<1>5. QED BY <1>3, <1>4

(* The row left to the session of a task. *)
LEMMA EndSessionTyped ==
  ASSUME IInv, NEW s \in Sessions, NEW last \in 0..(MaxTasks + 1)
  PROVE  /\ EndSession(s, last) \in SessionRow
         /\ [EndSession(s, last) EXCEPT !.phase = "secure"] \in SessionRow
<1> DEFINE q == Restore(sess[s])
           e == EndSession(s, last)
<1>1. q \in SessionRow
  BY RowsTyped DEF IInv, TypeOK
<1>2. e = [q EXCEPT !.last = last]
  BY DEF EndSession
<1> HIDE DEF q, e
<1>3. e \in SessionRow
  BY <1>1, <1>2 DEF SessionRow
<1>4. [e EXCEPT !.phase = "secure"] \in SessionRow
  BY <1>3 DEF SessionRow, Phase
<1>5. QED BY <1>3, <1>4 DEF e

(* Finalize, Interrupted and Raised. *)
LEMMA EndingsKeep ==
  ASSUME IInv, NEW t \in Tasks, Finalize(t) \/ Interrupted(t) \/ Raised(t)
  PROVE  IInv'
<1> DEFINE s == task[t].session
<1>1. s \in Sessions /\ task[t].at # "none"
  BY AtWork DEF Finalize, Interrupted, Raised
<1>2. \A last \in {t, Other} : last \in 0..(MaxTasks + 1)
  BY Numbers
<1>3. PICK row \in SessionRow : Write(s, row)
  BY <1>1, <1>2, EndSessionTyped DEF Finalize, Interrupted, Raised
<1>4. PICK at \in {"succeed", "done", "report"} : Goto(t, at)
  BY DEF Finalize, Interrupted, Raised
<1>5. turn' \in [Turns -> TurnRow] /\ UNCHANGED approval
  BY DEF Finalize, Interrupted, Raised, IInv, TypeOK
<1>6. sess' \in [Sessions -> SessionRow] /\ ckpt' \in [Sessions -> SUBSET SessionRow]
  BY <1>1, <1>3, WriteTyped DEF IInv
<1>7. /\ approval' \subseteq [task: Tasks, session: Sessions]
      /\ task' \in [Tasks -> TaskRow] /\ WorkerInv' /\ ApprovalInv'
  BY <1>1, <1>4, <1>5, GotoKeeps DEF WorkerStep
<1>8. QED BY <1>5, <1>6, <1>7, Parts

(* A child that ends is seen by Wait, which moves on to the next action.  *)
LEMMA WaitKeeps ==
  ASSUME IInv, NEW t \in Tasks, ChildEnds(t) \/ Wait(t)
  PROVE  IInv'
<1> DEFINE w == task[t]
<1>1. w \in TaskRow /\ WorkerOK(w) /\ (w.at # "none" => w.status # "none")
  BY AtWork
<1>2. UNCHANGED <<sess, ckpt, turn>> /\ UNCHANGED approval
  BY DEF ChildEnds, Wait
<1>3. CASE ChildEnds(t)
  <2>1. PICK result \in {"ok", "bad"} : task' = [task EXCEPT ![t].child = result]
    BY <1>3 DEF ChildEnds
  <2> DEFINE x == [w EXCEPT !.child = result]
  <2>2. task' = [task EXCEPT ![t] = x]
    BY <2>1
  <2> HIDE DEF w
  <2>3. x \in TaskRow
    BY <1>1 DEF TaskRow
  <2>4. /\ x.at = w.at /\ x.status = w.status /\ x.k = w.k /\ x.size = w.size
        /\ x.entered = w.entered /\ x.began = w.began /\ x.late = w.late
    BY <1>1 DEF TaskRow
  <2> HIDE DEF x
  <2>5. WorkerOK(x)
    BY <1>1, <2>4 DEF WorkerOK, NotBegun, Ahead
  <2>6. QED BY <1>1, <1>2, <2>2, <2>3, <2>4, <2>5, OneTask, WorkerStepKeeps DEF w
<1>4. CASE Wait(t)
  <2> DEFINE at == IF w.child = "ok" THEN "check" ELSE "raised"
             n == IF w.child = "ok" THEN w.k + 1 ELSE w.k
             x == [w EXCEPT !.child = "none", !.at = at, !.k = n]
  <2>1. w.at = "wait"
    BY <1>4 DEF Wait
  <2>2. task' = [task EXCEPT ![t] = x]
    BY <1>4 DEF Wait
  <2>3. w.k \in 1..MaxActions /\ w.k <= w.size
    BY <1>1, <2>1, AgentSessionAssumption DEF WorkerOK, TaskRow
  <2>4. n \in 1..(MaxActions + 1) /\ at \in {"check", "raised"}
        /\ (at = "check" => n = w.k + 1) /\ n >= w.k
    BY <2>3, AgentSessionAssumption
  <2> HIDE DEF w, at, n
  <2>5. x \in TaskRow
    BY <1>1, <2>4 DEF TaskRow, WorkerStep
  <2>6. /\ x.at = at /\ x.status = w.status /\ x.k = n /\ x.size = w.size
        /\ x.entered = w.entered /\ x.began = w.began /\ x.late = w.late
    BY <1>1 DEF TaskRow
  <2> HIDE DEF x
  <2>7. \A j \in 1..MaxActions : x.began[j] <= 1 /\ (Ahead(x, j) => x.began[j] = 0)
    <3>1. SUFFICES ASSUME NEW j \in 1..MaxActions
                   PROVE  x.began[j] <= 1 /\ (Ahead(x, j) => x.began[j] = 0)
      OBVIOUS
    <3>2. Ahead(x, j) => Ahead(w, j)
      BY <2>3, <2>4, <2>6 DEF Ahead
    <3>3. QED BY <1>1, <2>6, <3>2 DEF WorkerOK
  <2>8. ~x.entered \/ x.at \in {"none", "queued"} => NotBegun(x)
    BY <1>1, <2>4, <2>6 DEF WorkerOK, NotBegun
  <2>9. WorkerOK(x)
    BY <1>1, <2>1, <2>4, <2>6, <2>7, <2>8 DEF WorkerOK
  <2>10. x.status # "none"
    BY <1>1, <2>1, <2>6
  <2>11. task[t].at # "none"
    BY <2>1 DEF w
  <2>12. QED BY <1>2, <2>2, <2>5, <2>9, <2>10, <2>11, OneTask, WorkerStepKeeps
<1>5. QED BY <1>3, <1>4

(* A status that is written over one that is not final. *)
LEMMA StatusOK ==
  ASSUME NEW w \in TaskRow, WorkerOK(w), NEW status \in TaskStatus,
         status # "none", status = w.status \/ w.status \notin Terminal,
         NEW at \in WorkerStep, w.at # "none", NEW retries \in 0..MaxRetries,
         at \in {"done", "queued"} \/ at = w.at,
         at = "queued" => ~w.entered, NEW x,
         x = [w EXCEPT !.at = at, !.retries = retries, !.status = status]
  PROVE  x \in TaskRow /\ WorkerOK(x) /\ x.status # "none" /\ x.at # "none"
<1>1. x \in TaskRow
  BY DEF TaskRow
<1>2. /\ x.at = at /\ x.status = status /\ x.k = w.k /\ x.size = w.size
      /\ x.entered = w.entered /\ x.began = w.began /\ x.late = w.late
  BY DEF TaskRow
<1>3. \A j \in 1..MaxActions : x.began[j] <= 1 /\ (Ahead(x, j) => x.began[j] = 0)
  BY <1>2 DEF WorkerOK, Ahead
<1>4. ~x.entered \/ x.at \in {"none", "queued"} => NotBegun(x)
  BY <1>2 DEF WorkerOK, NotBegun
<1>5. x.late # 0 => x.late = 1 /\ x.status = "canceled" /\ x.at # "execute"
  BY <1>2 DEF WorkerOK, Terminal
<1>6. x.at \in {"execute", "dispatched", "wait"} => x.k <= x.size
  BY <1>2 DEF WorkerOK
<1>7. WorkerOK(x)
  BY <1>2, <1>3, <1>4, <1>5, <1>6 DEF WorkerOK
<1>8. QED BY <1>1, <1>2, <1>7

(* Succeed, Report and Sweep: a final status stays, and a retry starts over *)
(* only when no action was begun.                                           *)
LEMMA OutcomesKeep ==
  ASSUME IInv, NEW t \in Tasks, Succeed(t) \/ Report(t) \/ Sweep(t)
  PROVE  IInv'
<1> DEFINE w == task[t]
           kept(new) == IF w.status \in Terminal THEN w.status ELSE new
           full(at, retries, status) ==
             [w EXCEPT !.at = at, !.retries = retries, !.status = status]
<1>1. /\ w \in TaskRow /\ WorkerOK(w) /\ w.at # "none" /\ w.status # "none"
  BY AtWork DEF Succeed, Report, Sweep
<1>2. UNCHANGED <<sess, ckpt, turn>> /\ UNCHANGED approval
  BY DEF Succeed, Report, Sweep
<1>3. CASE Succeed(t) /\ w.status = "canceled"
  <2>1. Goto(t, "interrupted")
    BY <1>3 DEF Succeed
  <2>2. QED BY <1>1, <1>2, <2>1, GotoKeeps, WorkerStepKeeps DEF WorkerStep
<1>4. ASSUME NEW at \in WorkerStep, NEW retries \in 0..MaxRetries, NEW new \in TaskStatus,
             new # "none", at \in {"done", "queued"} \/ at = w.at,
             at = "queued" => ~w.entered,
             task' = [task EXCEPT ![t] = full(at, retries, kept(new))]
      PROVE  IInv'
  <2> DEFINE x == full(at, retries, kept(new))
             status == kept(new)
  <2>1. /\ status \in TaskStatus /\ status # "none"
        /\ status = w.status \/ w.status \notin Terminal
    BY <1>1, <1>4 DEF TaskRow
  <2>2. task[t].at # "none" /\ task' = [task EXCEPT ![t] = x]
    BY <1>1, <1>4
  <2>3. x = [w EXCEPT !.at = at, !.retries = retries, !.status = status]
    OBVIOUS
  <2> HIDE DEF w, x, status
  <2>4. x \in TaskRow /\ WorkerOK(x) /\ x.status # "none" /\ x.at # "none"
    BY <1>1, <1>4, <2>1, <2>3, StatusOK
  <2>5. QED BY <1>2, <2>2, <2>4, OneTask, WorkerStepKeeps
<1>5. w.at \in WorkerStep /\ w.retries \in 0..MaxRetries
  BY <1>1 DEF TaskRow
<1>6. CASE Succeed(t) /\ w.status # "canceled"
  <2>1. task' = [task EXCEPT ![t].at = "done",
                   ![t].status = IF @ \in Terminal THEN @ ELSE "success"]
    BY <1>6 DEF Succeed
  <2>2. task' = [task EXCEPT ![t] = full("done", w.retries, kept("success"))]
    <3>1. full("done", w.retries, kept("success"))
            = [w EXCEPT !.at = "done", !.status = kept("success")]
      BY <1>1 DEF TaskRow
    <3>2. QED BY <2>1, <3>1
  <2>3. QED BY <1>4, <1>5, <2>2 DEF WorkerStep, TaskStatus
<1>7. CASE Report(t)
  <2>1. CASE /\ Retryable(t)
             /\ task' = [task EXCEPT ![t].at = "queued", ![t].retries = @ + 1,
                  ![t].status = IF w.status \in Terminal THEN @ ELSE "retry"]
    <3>1. ~w.entered /\ w.retries + 1 \in 0..MaxRetries
      BY <1>5, <2>1, AgentSessionAssumption DEF Retryable
    <3>2. task' = [task EXCEPT ![t] = full("queued", w.retries + 1, kept("retry"))]
      BY <2>1
    <3>3. QED BY <1>4, <3>1, <3>2 DEF WorkerStep, TaskStatus
  <2>2. CASE task' = [task EXCEPT ![t].at = "done",
                  ![t].status = IF w.status \in Terminal THEN @ ELSE "failure"]
    <3>1. full("done", w.retries, kept("failure"))
            = [w EXCEPT !.at = "done", !.status = kept("failure")]
      BY <1>1 DEF TaskRow
    <3>2. task' = [task EXCEPT ![t] = full("done", w.retries, kept("failure"))]
      BY <2>2, <3>1
    <3>3. QED BY <1>4, <1>5, <3>2 DEF WorkerStep, TaskStatus
  <2>3. QED BY <1>7, <2>1, <2>2 DEF Report
<1>8. CASE Sweep(t)
  <2>1. /\ w.at = "dead" /\ w.status \notin Terminal
        /\ task' = [task EXCEPT ![t].status = "failure"]
    BY <1>8 DEF Sweep
  <2>2. full(w.at, w.retries, kept("failure")) = [w EXCEPT !.status = kept("failure")]
    BY <1>1 DEF TaskRow
  <2>3. task' = [task EXCEPT ![t] = full(w.at, w.retries, kept("failure"))]
    BY <2>1, <2>2
  <2>4. QED BY <1>4, <1>5, <2>1, <2>3 DEF TaskStatus
<1>9. QED BY <1>3, <1>6, <1>7, <1>8
-----------------------------------------------------------------------------
(* The theorems. *)

(* Initially nothing exists. *)
LEMMA InitInv == Init => IInv
<1> SUFFICES ASSUME Init  PROVE IInv
  OBVIOUS
<1>1. \A t \in Tasks : task[t] = NoTask
  BY DEF Init
<1>2. WorkerOK(NoTask)
  BY FirstRows DEF WorkerOK, NotBegun
<1>3. TypeOK
  BY FirstRows DEF Init, TypeOK
<1>4. ApprovalInv
  BY DEF Init, ApprovalInv
<1>5. WorkerInv
  BY <1>1, <1>2 DEF WorkerInv
<1>6. QED BY <1>3, <1>4, <1>5 DEF IInv

(* Every action keeps the invariant. *)
LEMMA NextInv == IInv /\ [Next]_vars => IInv'
<1> SUFFICES ASSUME IInv, [Next]_vars  PROVE IInv'
  OBVIOUS
<1>1. CASE UNCHANGED vars
  BY <1>1 DEF vars, IInv, TypeOK, WorkerInv, ApprovalInv
<1>2. CASE Create \/ Reset
  BY <1>2, ReadsKeep, ResetKeeps
<1>3. ASSUME NEW s \in Sessions,
             Poll(s) \/ PostMessage(s) \/ PostStep(s) \/ EmptyStep(s)
               \/ SecureStep(s) \/ Approve(s) \/ Interrupt(s)
      PROVE  IInv'
  BY <1>3, ReadsKeep, PostsKeep, EmptyStepKeeps, SecureStepKeeps, ApproveKeeps,
     InterruptKeeps
<1>4. ASSUME NEW n \in Turns, TurnAction(n) \/ TurnDies(n) \/ Followup(n)
      PROVE  IInv'
  BY <1>4, DecideKeeps, CommitTurnKeeps, TurnEndsKeep, FollowupKeeps DEF TurnAction
<1>5. ASSUME NEW a \in approval, ApproveCommit(a) \/ ApproveDies(a)
      PROVE  IInv'
  BY <1>5, HandOverKeeps
<1>6. ASSUME NEW t \in Tasks,
             WorkerAction(t) \/ ChildEnds(t) \/ CancelTask(t) \/ WorkerDies(t) \/ Sweep(t)
      PROVE  IInv'
  BY <1>6, StartKeeps, CheckKeeps, ExecuteKeeps, DispatchedKeeps, EndingsKeep, WaitKeeps,
     OutcomesKeep, CancelTaskKeeps DEF WorkerAction
<1>7. QED BY <1>1, <1>2, <1>3, <1>4, <1>5, <1>6 DEF Next

(* The invariant holds of every reachable state of the sessions. *)
THEOREM AlwaysIInv == Spec => []IInv
BY InitInv, NextInv, PTL DEF Spec

(* Sessions, checkpoints, turns, approvals and tasks keep their types.     *)
THEOREM TypeCorrect == Spec => []TypeOK
<1>1. IInv => TypeOK
  BY DEF IInv
<1>2. QED BY <1>1, AlwaysIInv, PTL

(***************************************************************************)
(* No action of an approved plan is executed twice for one approval,       *)
(* however often the orchestration is retried (agent_tasks.py,             *)
(* entered_action_execution).                                              *)
(***************************************************************************)
THEOREM ApprovedOnceRunsOnce == Spec => []ActionsRunOnce
<1>1. IInv => ActionsRunOnce
  BY DEF IInv, WorkerInv, WorkerOK, ActionsRunOnce
<1>2. QED BY <1>1, AlwaysIInv, PTL

(***************************************************************************)
(* After a cancellation at most the action that had passed its check is    *)
(* still executed, whenever the revocation arrives and whatever retries or *)
(* children are under way (ensure_task_not_canceled).                      *)
(***************************************************************************)
THEOREM CancelIsEffective == Spec => []CancelStopsTheRest
<1>1. IInv => CancelStopsTheRest
  <2> SUFFICES ASSUME IInv, NEW t \in Tasks  PROVE task[t].late <= 1
    BY DEF CancelStopsTheRest
  <2>1. task[t].late \in Nat /\ (task[t].late # 0 => task[t].late = 1)
    BY DEF IInv, TypeOK, TaskRow, WorkerInv, WorkerOK
  <2>2. QED BY <2>1
<1>2. QED BY <1>1, AlwaysIInv, PTL

-----------------------------------------------------------------------------
(* Nobody waits for nobody. *)

(***************************************************************************)
(* How the status of a task goes with the place of its worker: a worker is *)
(* done only when the task has ended, it is told of an interruption only   *)
(* when the task was canceled, and a task that ended otherwise has no      *)
(* worker left.  A task without a worker belongs to an approval.           *)
(***************************************************************************)
StatusFits(w) ==
  /\ w.at = "done" => w.status \in Terminal
  /\ w.at = "interrupted" => w.status = "canceled"
  /\ w.status \in {"success", "failure"} => w.at \in {"done", "dead"}

Approved(t) == \E a \in approval : a.task = t

PlaceInv ==
  \A t \in Tasks :
    /\ StatusFits(task[t])
    /\ task[t].at = "none" /\ task[t].status # "none" => Approved(t)

EndsStay ==
  \A t \in Tasks : task[t].status \in Terminal => task'[t].status = task[t].status

(* Steps that leave the tasks as they are. *)
LEMMA PlacesKept ==
  ASSUME PlaceInv, UNCHANGED <<approval, task>>
  PROVE  PlaceInv' /\ EndsStay
BY DEF PlaceInv, EndsStay, Approved

(* A step of one task. *)
LEMMA PlaceMoves ==
  ASSUME PlaceInv, NEW t \in Tasks, UNCHANGED approval,
         \A u \in Tasks \ {t} : task'[u] = task[u],
         StatusFits(task'[t]),
         task'[t].at = "none" /\ task'[t].status # "none"
           => task[t].at = "none" /\ task[t].status # "none",
         task[t].status \in Terminal => task'[t].status = task[t].status
  PROVE  PlaceInv' /\ EndsStay
<1>1. \A u \in Tasks : u # t => StatusFits(task'[u])
  BY DEF PlaceInv
<1>2. \A u \in Tasks :
        task'[u].at = "none" /\ task'[u].status # "none" => Approved(u)'
  BY DEF PlaceInv, Approved
<1>3. PlaceInv'
  BY <1>1, <1>2 DEF PlaceInv
<1>4. EndsStay
  BY DEF EndsStay
<1>5. QED BY <1>3, <1>4

(* The row of a task whose worker moves on; its status may be written over. *)
LEMMA PlaceGoes ==
  ASSUME IInv, PlaceInv, NEW t \in Tasks, UNCHANGED approval,
         NEW x, task' = [task EXCEPT ![t] = x], StatusFits(x), x.at # "none",
         task[t].status \in Terminal => x.status = task[t].status
  PROVE  PlaceInv' /\ EndsStay
<1>1. task'[t] = x /\ \A u \in Tasks \ {t} : task'[u] = task[u]
  BY DEF IInv, TypeOK
<1>2. QED BY <1>1, PlaceMoves

(* A worker that only changes its place. *)
LEMMA PlaceGoto ==
  ASSUME IInv, PlaceInv, NEW t \in Tasks, UNCHANGED approval, NEW at \in WorkerStep,
         Goto(t, at), at \notin {"none", "done"},
         at = "interrupted" => task[t].status = "canceled",
         task[t].status \in {"success", "failure"} => at = "dead"
  PROVE  PlaceInv' /\ EndsStay
<1> DEFINE x == [task[t] EXCEPT !.at = at]
<1>1. x.at = at /\ x.status = task[t].status
  BY DEF IInv, TypeOK, TaskRow
<1>2. task' = [task EXCEPT ![t] = x]
  BY DEF Goto
<1> HIDE DEF x
<1>3. StatusFits(x)
  BY <1>1 DEF StatusFits
<1>4. QED BY <1>1, <1>2, <1>3, PlaceGoes

(* A task that is canceled, whether or not its worker is killed. *)
LEMMA CanceledPlace ==
  ASSUME IInv, PlaceInv, NEW t \in Created, task[t].status \notin Terminal,
         NEW killed \in BOOLEAN, task' = Canceled(t, killed), UNCHANGED approval
  PROVE  PlaceInv' /\ EndsStay
<1>1. t \in Tasks /\ task[t].status # "none" /\ task[t] \in TaskRow
  BY DEF Created, IInv, TypeOK
<1> DEFINE at == IF killed /\ task[t].at \in Revocable THEN "dead" ELSE task[t].at
<1>2. \A u \in Tasks \ {t} : task'[u] = task[u]
  BY DEF Canceled, IInv, TypeOK
<1>3. task'[t].status = "canceled" /\ task'[t].at = at
  BY <1>1 DEF Canceled, IInv, TypeOK, TaskRow
<1>4. at = "none" => task[t].at = "none"
  OBVIOUS
<1> HIDE DEF at
<1>5. StatusFits(task'[t])
  BY <1>3 DEF StatusFits, Terminal
<1>6. QED BY <1>1, <1>2, <1>3, <1>4, <1>5, PlaceMoves

(* Approve, ApproveCommit and ApproveDies: a task has an approval until it  *)
(* has a worker.                                                            *)
LEMMA ApprovalPlace ==
  ASSUME IInv, PlaceInv,
         (\E s \in Sessions : Approve(s))
           \/ (\E a \in approval : ApproveCommit(a) \/ ApproveDies(a))
  PROVE  PlaceInv' /\ EndsStay
<1>1. ASSUME NEW s \in Sessions, Approve(s)  PROVE PlaceInv' /\ EndsStay
  <2>0. FreeTasks \subseteq Nat
    BY DEF FreeTasks, Tasks
  <2>1. FreeTasks # {} /\ FreeTasks \subseteq Nat
    BY <1>1, <2>0 DEF Approve
  <2>2. PICK t \in Tasks : t = Least(FreeTasks) /\ task[t].status = "none"
    BY <2>1, LeastNumber DEF FreeTasks, Created
  <2>3. PICK slow \in Slow, size \in 1..MaxActions :
          /\ task' = [task EXCEPT ![t] = [NoTask EXCEPT !.status = "pending",
               !.session = s, !.plan = Reconcile(s, slow).plan, !.size = size]]
          /\ approval' = approval \cup {[task |-> t, session |-> s]}
    BY <1>1, <2>2 DEF Approve
  <2> DEFINE w == [NoTask EXCEPT !.status = "pending", !.session = s,
                                 !.plan = Reconcile(s, slow).plan, !.size = size]
  <2>a. w.status = "pending" /\ w.at = "none"
    BY FirstRows DEF TaskRow
  <2>b. task' = [task EXCEPT ![t] = w]
    BY <2>3
  <2> HIDE DEF w
  <2>4. /\ task'[t].status = "pending" /\ task'[t].at = "none"
        /\ \A u \in Tasks \ {t} : task'[u] = task[u]
    BY <2>2, <2>a, <2>b DEF IInv, TypeOK
  <2>5. \A u \in Tasks : StatusFits(task'[u])
    BY <2>4 DEF PlaceInv, StatusFits
  <2>6. Approved(t)'
    <3>1. [task |-> t, session |-> s] \in approval'
      BY <2>3
    <3>2. QED BY <3>1 DEF Approved
  <2>7. \A u \in Tasks \ {t} : Approved(u) => Approved(u)'
    BY <2>3 DEF Approved
  <2>8. \A u \in Tasks :
          task'[u].at = "none" /\ task'[u].status # "none" => Approved(u)'
    <3> SUFFICES ASSUME NEW u \in Tasks, task'[u].at = "none", task'[u].status # "none"
                 PROVE  Approved(u)'
      OBVIOUS
    <3>1. CASE u = t
      BY <2>6, <3>1
    <3>2. CASE u # t
      BY <2>4, <2>7, <3>2 DEF PlaceInv
    <3>3. QED BY <3>1, <3>2
  <2>9. EndsStay
    BY <2>2, <2>4 DEF EndsStay, Terminal
  <2>10. QED BY <2>5, <2>8, <2>9 DEF PlaceInv
<1>2. ASSUME NEW a \in approval, ApproveCommit(a) \/ ApproveDies(a)
      PROVE  PlaceInv' /\ EndsStay
  <2>1. a.task \in Tasks /\ task[a.task].at = "none" /\ task[a.task] \in TaskRow
    BY <1>2 DEF IInv, TypeOK, ApprovalInv
  <2>2. PICK at \in {"queued", "dead"} : task' = [task EXCEPT ![a.task].at = at]
    BY <1>2 DEF ApproveCommit, ApproveDies
  <2>3. approval' = approval \ {a}
    BY <1>2 DEF ApproveCommit, ApproveDies
  <2>4. /\ task'[a.task].status = task[a.task].status /\ task'[a.task].at = at
        /\ \A u \in Tasks \ {a.task} : task'[u] = task[u]
    BY <2>1, <2>2 DEF IInv, TypeOK, TaskRow
  <2>5. task[a.task].status \notin {"success", "failure"}
    BY <2>1 DEF PlaceInv, StatusFits
  <2>6. \A u \in Tasks : StatusFits(task'[u])
    BY <2>2, <2>4, <2>5 DEF PlaceInv, StatusFits
  <2>7. \A u \in Tasks \ {a.task} : Approved(u) => Approved(u)'
    BY <2>3 DEF Approved
  <2>8. \A u \in Tasks :
          task'[u].at = "none" /\ task'[u].status # "none" => Approved(u)'
    BY <2>2, <2>4, <2>7 DEF PlaceInv
  <2>9. EndsStay
    BY <2>1, <2>4 DEF EndsStay
  <2>10. QED BY <2>6, <2>8, <2>9 DEF PlaceInv
<1>3. QED BY <1>1, <1>2

(* Interrupt, CancelTask and Reset cancel at most one task. *)
LEMMA CancellationPlace ==
  ASSUME IInv, PlaceInv,
         Reset \/ (\E s \in Sessions : Interrupt(s)) \/ \E t \in Tasks : CancelTask(t)
  PROVE  PlaceInv' /\ EndsStay
<1>1. UNCHANGED approval
  BY DEF Reset, Interrupt, CancelTask
<1>2. \/ UNCHANGED task
      \/ \E t \in Created, killed \in BOOLEAN :
           task[t].status \notin Terminal /\ task' = Canceled(t, killed)
  <2>1. CASE Reset
    BY <2>1 DEF Reset, IsOrchestration
  <2>2. CASE \E s \in Sessions : Interrupt(s)
    BY <2>2 DEF Interrupt, IsOrchestration
  <2>3. CASE \E t \in Tasks : CancelTask(t)
    BY <2>3 DEF CancelTask
  <2>4. QED BY <2>1, <2>2, <2>3
<1>3. QED BY <1>1, <1>2, CanceledPlace, PlacesKept

(* The steps of a worker that leave the status alone. *)
LEMMA WorkerPlace ==
  ASSUME IInv, PlaceInv, NEW t \in Tasks,
         \/ Check(t) \/ Execute(t) \/ Dispatched(t) \/ Wait(t) \/ Finalize(t)
         \/ Raised(t) \/ WorkerDies(t) \/ ChildEnds(t)
  PROVE  PlaceInv' /\ EndsStay
<1> DEFINE w == task[t]
<1>1. w \in TaskRow /\ StatusFits(w)
  BY DEF IInv, TypeOK, PlaceInv
<1>2. UNCHANGED approval
  BY DEF Check, Execute, Dispatched, Wait, Finalize, Raised, WorkerDies, ChildEnds
<1>3. CASE Check(t) \/ Dispatched(t)
  <2>1. w.at \in {"check", "dispatched"}
    BY <1>3 DEF Check, Dispatched
  <2>2. PICK at \in {"interrupted", "finalize", "execute", "wait"} :
          Goto(t, at) /\ (at = "interrupted" => w.status = "canceled")
    BY <1>3 DEF Check, Dispatched
  <2>3. QED BY <1>1, <1>2, <2>1, <2>2, PlaceGoto DEF WorkerStep, StatusFits
<1>4. CASE Finalize(t) \/ Raised(t)
  <2>1. w.at \in {"finalize", "raised"}
    BY <1>4 DEF Finalize, Raised
  <2>2. PICK at \in {"succeed", "report"} : Goto(t, at)
    BY <1>4 DEF Finalize, Raised
  <2>3. QED BY <1>1, <1>2, <2>1, <2>2, PlaceGoto DEF WorkerStep, StatusFits
<1>5. CASE WorkerDies(t)
  <2>1. Goto(t, "dead")
    BY <1>5 DEF WorkerDies
  <2>2. QED BY <1>2, <2>1, PlaceGoto DEF WorkerStep
<1>6. ASSUME NEW x, task' = [task EXCEPT ![t] = x], x.status = w.status,
             w.at \in {"execute", "wait"}, x.at \in {"raised", "check", "dispatched"}
      PROVE  PlaceInv' /\ EndsStay
  <2>1. StatusFits(x)
    BY <1>1, <1>6 DEF StatusFits
  <2>2. QED BY <1>2, <1>6, <2>1, PlaceGoes
<1>7. CASE Execute(t)
  <2> DEFINE begun == [w EXCEPT !.entered = TRUE, !.began[w.k] = @ + 1,
                                !.late = IF w.status = "canceled" THEN @ + 1 ELSE @]
             raised == [begun EXCEPT !.at = "raised"]
             checked == [begun EXCEPT !.at = "check", !.k = @ + 1]
             waits == [begun EXCEPT !.at = "dispatched", !.child = "active"]
  <2>1. w.at = "execute"
    BY <1>7 DEF Execute
  <2>2. \E x \in {raised, checked, waits} : task' = [task EXCEPT ![t] = x]
    BY <1>7 DEF Execute
  <2>3. begun.status = w.status /\ DOMAIN begun = DOMAIN w
    BY <1>1 DEF TaskRow
  <2>4. DOMAIN w = {"status", "session", "plan", "at", "size", "k", "entered",
                    "retries", "child", "began", "late"}
    BY <1>1 DEF TaskRow
  <2> HIDE DEF begun
  <2>5. /\ raised.status = w.status /\ raised.at = "raised"
        /\ checked.status = w.status /\ checked.at = "check"
        /\ waits.status = w.status /\ waits.at = "dispatched"
    BY <2>3, <2>4
  <2> HIDE DEF w, raised, checked, waits
  <2>6. QED BY <1>6, <2>1, <2>2, <2>5
<1>8. CASE Wait(t)
  <2> DEFINE x == [w EXCEPT !.child = "none",
                     !.at = IF w.child = "ok" THEN "check" ELSE "raised",
                     !.k = IF w.child = "ok" THEN @ + 1 ELSE @]
  <2>1. w.at = "wait" /\ task' = [task EXCEPT ![t] = x]
    BY <1>8 DEF Wait
  <2>2. x.status = w.status /\ x.at \in {"raised", "check"}
    BY <1>1 DEF TaskRow
  <2> HIDE DEF w, x
  <2>3. QED BY <1>6, <2>1, <2>2
<1>9. CASE ChildEnds(t)
  <2>1. PICK result \in {"ok", "bad"} : task' = [task EXCEPT ![t].child = result]
    BY <1>9 DEF ChildEnds
  <2>2. /\ task'[t].status = w.status /\ task'[t].at = w.at
        /\ \A u \in Tasks \ {t} : task'[u] = task[u]
    BY <1>1, <2>1 DEF IInv, TypeOK, TaskRow
  <2>3. StatusFits(task'[t])
    BY <1>1, <2>2 DEF StatusFits
  <2>4. QED BY <1>2, <2>2, <2>3, PlaceMoves
<1>10. QED BY <1>3, <1>4, <1>5, <1>7, <1>8, <1>9

(* The steps that write the status, and the end of an interrupted worker. *)
LEMMA OutcomePlace ==
  ASSUME IInv, PlaceInv, NEW t \in Tasks,
         Start(t) \/ Succeed(t) \/ Interrupted(t) \/ Report(t) \/ Sweep(t)
  PROVE  PlaceInv' /\ EndsStay
<1> DEFINE w == task[t]
<1>1. w \in TaskRow /\ StatusFits(w)
  BY DEF IInv, TypeOK, PlaceInv
<1>2. UNCHANGED approval
  BY DEF Start, Succeed, Interrupted, Report, Sweep
<1>3. ASSUME NEW at \in WorkerStep, NEW status \in TaskStatus,
             task'[t].at = at, task'[t].status = status,
             \A u \in Tasks \ {t} : task'[u] = task[u],
             at # "none", w.status \in Terminal => status = w.status,
             at = "done" => status \in Terminal,
             at = "interrupted" => status = "canceled",
             status \in {"success", "failure"} => at \in {"done", "dead"}
      PROVE  PlaceInv' /\ EndsStay
  <2>1. StatusFits(task'[t])
    BY <1>3 DEF StatusFits
  <2>2. QED BY <1>2, <1>3, <2>1, PlaceMoves
<1>4. CASE (Start(t) \/ Succeed(t)) /\ w.status = "canceled"
  <2>1. Goto(t, "interrupted")
    BY <1>4 DEF Start, Succeed
  <2>2. QED BY <1>2, <1>4, <2>1, PlaceGoto DEF WorkerStep
<1>5. CASE Start(t) /\ w.status # "canceled"
  <2>1. PICK at \in {"check", "raised"} :
          task' = [task EXCEPT ![t].status = "running", ![t].at = at,
                               ![t].k = 1, ![t].entered = FALSE]
    BY <1>5 DEF Start
  <2>2. /\ task'[t].at = at /\ task'[t].status = "running"
        /\ \A u \in Tasks \ {t} : task'[u] = task[u]
    BY <1>1, <2>1 DEF IInv, TypeOK, TaskRow
  <2>3. w.status \notin Terminal
    BY <1>1, <1>5 DEF Start, StatusFits, Terminal
  <2>4. QED BY <1>3, <2>2, <2>3 DEF WorkerStep, TaskStatus
<1>6. CASE Succeed(t) /\ w.status # "canceled"
  <2>1. /\ w.at = "succeed"
        /\ task' = [task EXCEPT ![t].at = "done",
              ![t].status = IF @ \in Terminal THEN @ ELSE "success"]
    BY <1>6 DEF Succeed
  <2>2. w.status \notin Terminal
    BY <1>1, <1>6, <2>1 DEF StatusFits, Terminal
  <2>3. /\ task'[t].at = "done" /\ task'[t].status = "success"
        /\ \A u \in Tasks \ {t} : task'[u] = task[u]
    BY <1>1, <2>1, <2>2 DEF IInv, TypeOK, TaskRow
  <2>4. QED BY <1>3, <2>2, <2>3 DEF WorkerStep, TaskStatus, Terminal
<1>7. CASE Interrupted(t)
  <2>1. w.at = "interrupted" /\ task' = [task EXCEPT ![t].at = "done"]
    BY <1>7 DEF Interrupted, Goto
  <2>2. w.status = "canceled"
    BY <1>1, <2>1 DEF StatusFits
  <2>3. /\ task'[t].at = "done" /\ task'[t].status = "canceled"
        /\ \A u \in Tasks \ {t} : task'[u] = task[u]
    BY <1>1, <2>1, <2>2 DEF IInv, TypeOK, TaskRow
  <2>4. QED BY <1>3, <2>2, <2>3 DEF WorkerStep, TaskStatus, Terminal
<1>8. CASE Report(t)
  <2> DEFINE final == w.status \in Terminal
  <2>1. /\ w.at = "report"
        /\ \/ task' = [task EXCEPT ![t].at = "queued", ![t].retries = @ + 1,
                 ![t].status = IF final THEN @ ELSE "retry"]
           \/ task' = [task EXCEPT ![t].at = "done",
                 ![t].status = IF final THEN @ ELSE "failure"]
    BY <1>8 DEF Report
  <2>2. final => w.status = "canceled"
    BY <1>1, <2>1 DEF StatusFits, Terminal
  <2>3. CASE task' = [task EXCEPT ![t].at = "queued", ![t].retries = @ + 1,
                 ![t].status = IF final THEN @ ELSE "retry"]
    <3>1. /\ task'[t].at = "queued"
          /\ task'[t].status = IF final THEN "canceled" ELSE "retry"
          /\ \A u \in Tasks \ {t} : task'[u] = task[u]
      BY <1>1, <2>2, <2>3 DEF IInv, TypeOK, TaskRow
    <3>2. QED BY <1>3, <2>2, <3>1 DEF WorkerStep, TaskStatus
  <2>4. CASE task' = [task EXCEPT ![t].at = "done",
                 ![t].status = IF final THEN @ ELSE "failure"]
    <3>1. /\ task'[t].at = "done"
          /\ task'[t].status = IF final THEN "canceled" ELSE "failure"
          /\ \A u \in Tasks \ {t} : task'[u] = task[u]
      BY <1>1, <2>2, <2>4 DEF IInv, TypeOK, TaskRow
    <3>2. QED BY <1>3, <2>2, <3>1 DEF WorkerStep, TaskStatus, Terminal
  <2>5. QED BY <2>1, <2>3, <2>4
<1>9. CASE Sweep(t)
  <2>1. /\ w.at = "dead" /\ w.status \notin Terminal
        /\ task' = [task EXCEPT ![t].status = "failure"]
    BY <1>9 DEF Sweep
  <2>2. /\ task'[t].at = "dead" /\ task'[t].status = "failure"
        /\ \A u \in Tasks \ {t} : task'[u] = task[u]
    BY <1>1, <2>1 DEF IInv, TypeOK, TaskRow
  <2>3. QED BY <1>3, <2>1, <2>2 DEF WorkerStep, TaskStatus
<1>10. QED BY <1>4, <1>5, <1>6, <1>7, <1>8, <1>9

(* Every action keeps tasks and workers together. *)
LEMMA NextPlace == IInv /\ PlaceInv /\ [Next]_vars => PlaceInv' /\ EndsStay
<1> SUFFICES ASSUME IInv, PlaceInv, [Next]_vars  PROVE PlaceInv' /\ EndsStay
  OBVIOUS
<1>1. CASE UNCHANGED vars
  BY <1>1, PlacesKept DEF vars
<1>2. CASE Create \/ \E s \in Sessions : Poll(s) \/ EmptyStep(s) \/ SecureStep(s)
  BY <1>2, PlacesKept DEF Create, Poll, EmptyStep, SecureStep
<1>3. CASE \E s \in Sessions : PostMessage(s) \/ PostStep(s)
  BY <1>3, PlacesKept DEF PostMessage, PostStep, Accept
<1>4. CASE \E n \in Turns : TurnAction(n) \/ TurnDies(n) \/ Followup(n)
  BY <1>4, PlacesKept DEF TurnAction, Decide, Abandon, CommitTurn, TurnDies, Followup
<1>5. CASE \/ \E s \in Sessions : Approve(s)
           \/ \E a \in approval : ApproveCommit(a) \/ ApproveDies(a)
  BY <1>5, ApprovalPlace
<1>6. CASE Reset \/ (\E s \in Sessions : Interrupt(s)) \/ \E t \in Tasks : CancelTask(t)
  BY <1>6, CancellationPlace
<1>7. CASE \E t \in Tasks : WorkerAction(t) \/ ChildEnds(t) \/ WorkerDies(t) \/ Sweep(t)
  BY <1>7, WorkerPlace, OutcomePlace DEF WorkerAction
<1>8. QED BY <1>1, <1>2, <1>3, <1>4, <1>5, <1>6, <1>7 DEF Next

LEMMA AlwaysPlaced == Spec => []PlaceInv
<1>1. Init => PlaceInv
  <2> SUFFICES ASSUME Init, NEW t \in Tasks
               PROVE  StatusFits(task[t]) /\ task[t].status = "none"
    BY DEF PlaceInv
  <2>1. task[t] = NoTask
    BY DEF Init
  <2>2. QED BY <2>1, FirstRows DEF StatusFits
<1>2. QED BY <1>1, NextPlace, AlwaysIInv, PTL DEF Spec

(***************************************************************************)
(* An orchestration that has ended, whether it succeeded, failed or was    *)
(* canceled, keeps its status: no late worker, no retry, no sweep and no   *)
(* second cancellation writes over it (task_runtime.py, set_task_success,  *)
(* set_task_retry and set_task_failure; task_repo.py, cancel_task_run).    *)
(***************************************************************************)
THEOREM EndedTasksStayEnded ==
  Spec => [][\A t \in Tasks : task[t].status \in Terminal
               => task'[t].status = task[t].status]_vars
<1>1. IInv /\ PlaceInv /\ [Next]_vars
        => [\A t \in Tasks : task[t].status \in Terminal
              => task'[t].status = task[t].status]_vars
  BY NextPlace DEF EndsStay
<1>2. QED BY <1>1, AlwaysIInv, AlwaysPlaced, PTL DEF Spec

(* An open task is one of those Progress is about. *)
LEMMA OpenTaskGoesOn ==
  ASSUME IInv, PlaceInv, NEW t \in Created, task[t].status \notin Terminal
  PROVE  MayGoOn
<1>1. t \in Tasks /\ task[t].status # "none" /\ task[t].at \in WorkerStep
  BY DEF Created, IInv, TypeOK, TaskRow
<1>2. CASE task[t].at = "none"
  <2>1. approval # {}
    BY <1>1, <1>2 DEF PlaceInv, Approved
  <2>2. QED BY <2>1 DEF MayGoOn
<1>3. CASE task[t].at # "none"
  <2>1. task[t].at # "done"
    BY <1>1 DEF PlaceInv, StatusFits
  <2>2. TaskMayGoOn(t)
    BY <1>1, <1>3, <2>1 DEF TaskMayGoOn, Steps
  <2>3. QED BY <1>1, <2>2 DEF MayGoOn
<1>4. QED BY <1>2, <1>3

(* The runtime of a row that was cleared has no phase left to repair. *)
LEMMA RepairKeepsIdle ==
  ASSUME NEW s, NEW slow \in BOOLEAN, NEW r, r.phase = "idle"
  PROVE  /\ ReconcileTurn(r, slow) = r /\ ReconcileStaleUi(r, slow) = r
         /\ Repair(s, r) = r
BY DEF ReconcileTurn, ReconcileStaleUi, Repair

(* A running session whose task has ended, or is not there, is repaired. *)
LEMMA RunningIsRepaired ==
  ASSUME IInv, PlaceInv, NEW s \in Sessions, Restored(s).status = "running", ~MayGoOn
  PROVE  \A slow \in BOOLEAN : Reconcile(s, slow) # Restored(s)
<1> DEFINE r == Restored(s)
           q == ReconcileRunning(s, r)
<1>1. r \in SessionRow
  BY RestoredTyped DEF IInv
<1>2. /\ Restore(r) \in SessionRow
      /\ Restore(r).status = "active" /\ Restore(r).phase = "idle"
  <2>1. ClearRuntime(r) \in SessionRow /\ ClearRuntime(r).phase = "idle"
    BY <1>1, RowsTyped DEF ClearRuntime, SessionRow
  <2> DEFINE c == ClearRuntime(r)
  <2> HIDE DEF c
  <2>2. c \in SessionRow /\ c.phase = "idle"
    BY <2>1 DEF c
  <2>3. /\ [c EXCEPT !.status = "active", !.plan = None, !.st = None].status = "active"
        /\ [c EXCEPT !.status = "active", !.plan = None, !.st = None].phase = "idle"
    BY <2>2 DEF SessionRow
  <2>4. QED BY <1>1, <2>3, RowsTyped DEF Restore, c
<1>3. \A t : IsOrchestration(t, s) => task[t].status \in Terminal
  BY OpenTaskGoesOn DEF IsOrchestration
<1>4. q = Restore(r) \/ \E last : q = [Restore(r) EXCEPT !.last = last]
  BY <1>3 DEF ReconcileRunning
<1>5. q.status = "active" /\ q.phase = "idle"
  <2> DEFINE c == Restore(r)
  <2> HIDE DEF c
  <2>1. c \in SessionRow /\ c.status = "active" /\ c.phase = "idle"
    BY <1>2 DEF c
  <2>2. \A last : /\ [c EXCEPT !.last = last].status = "active"
                  /\ [c EXCEPT !.last = last].phase = "idle"
    BY <2>1 DEF SessionRow
  <2>3. QED BY <1>4, <2>1, <2>2 DEF c
<1>6. \A slow \in BOOLEAN : Reconcile(s, slow) = q
  <2> HIDE DEF q
  <2>1. \A slow \in BOOLEAN : /\ ReconcileTurn(q, slow) = q
                              /\ ReconcileStaleUi(q, slow) = q /\ Repair(s, q) = q
    BY <1>5, RepairKeepsIdle
  <2>2. \A slow \in BOOLEAN :
          Reconcile(s, slow) = Repair(s, ReconcileStaleUi(ReconcileTurn(q, slow), slow))
    BY DEF Reconcile, q
  <2>3. QED BY <2>1, <2>2
<1>7. QED BY <1>5, <1>6

(* A reply that is awaited too long is given up by the poll. *)
LEMMA ReplyIsGivenUp ==
  ASSUME IInv, PlaceInv, NEW s \in Sessions, Restored(s).phase = "reply",
         Restored(s).status # "running"
  PROVE  Reconcile(s, TRUE) # Restored(s)
<1> DEFINE r == Restored(s)
           q == ReconcileTurn(r, TRUE)
<1>1. r \in SessionRow
  BY RestoredTyped DEF IInv
<1>2. ReconcileRunning(s, r) = r
  BY DEF ReconcileRunning
<1>3. \E status : q = [ClearRuntime(r) EXCEPT !.status = status]
  BY DEF ReconcileTurn
<1>4. q.phase = "idle"
  <2> DEFINE c == ClearRuntime(r)
  <2>1. c \in SessionRow /\ c.phase = "idle"
    BY <1>1, RowsTyped DEF ClearRuntime, SessionRow
  <2> HIDE DEF c
  <2>2. \A status : [c EXCEPT !.status = status].phase = "idle"
    BY <2>1 DEF SessionRow
  <2>3. QED BY <1>3, <2>2 DEF c
<1>5. Reconcile(s, TRUE) = q
  <2> HIDE DEF q
  <2>1. ReconcileStaleUi(q, TRUE) = q /\ Repair(s, q) = q
    BY <1>4, RepairKeepsIdle
  <2>2. Reconcile(s, TRUE) = Repair(s, ReconcileStaleUi(q, TRUE))
    BY <1>2 DEF Reconcile, q
  <2>3. QED BY <2>1, <2>2
<1>6. QED BY <1>4, <1>5

(***************************************************************************)
(* Nobody waits for nobody: while the page shows a running session or a    *)
(* message without its reply, a request, a worker, a child task, the sweep *)
(* or the next poll goes on by itself, if time passes.  The watched task   *)
(* of a running session is open and has an approval or a worker, or the    *)
(* poll gives it up (reconcile_running_session_state).                     *)
(***************************************************************************)
THEOREM NobodyIsStuck ==
  ASSUME "slow" \in Events
  PROVE  Spec => []NeverStuck
<1>1. IInv /\ PlaceInv => NeverStuck
  <2> SUFFICES ASSUME IInv, PlaceInv, ~MayGoOn,
                      NEW s \in Sessions, Current = {s},
                      Restored(s).status = "running" \/ Restored(s).phase = "reply"
               PROVE  FALSE
    BY DEF NeverStuck, Shown
  <2>1. Slow = BOOLEAN
    BY DEF Slow
  <2>2. Reconcile(s, TRUE) # Restored(s)
    BY RunningIsRepaired, ReplyIsGivenUp
  <2>3. PollMayRepair(s)
    BY <2>1, <2>2 DEF PollMayRepair
  <2>4. QED BY <2>3 DEF MayGoOn
<1>2. QED BY <1>1, AlwaysIInv, AlwaysPlaced, PTL

=============================================================================
