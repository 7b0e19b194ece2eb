-------------------------- MODULE HostRunnerProofs --------------------------
(***************************************************************************)
(* Theorems about HostRunner, for any number of installs and of retries,   *)
(* for both ways to keep the service, with every event of the environment. *)
(*                                                                         *)
(* IInv is the inductive invariant.  RequestInv: nothing acts for an       *)
(* install before its request sent the message.  AttemptInv: an attempt    *)
(* that is yet to start its process has none, so that starting one never   *)
(* replaces another.  SuccessInv is SuccessMeansRegistered with the worker *)
(* that is about to succeed.  ProcessInv: a registration in progress is of *)
(* a process without a token that runs, unless the host was rebooted.      *)
(***************************************************************************)
EXTENDS HostRunner, TLAPS

RequestInv == \A i \in Install :
  /\ enq[i].at # "done" =>
       /\ worker[i].at = "idle"
       /\ \A a \in 0..MaxRetries : ~proc[<<i, a>>].alive
  /\ enq[i].at \in {"idle", "commit", "create"} => task[i] = "none"

AttemptInv == \A i \in Install, a \in 0..MaxRetries :
  proc[<<i, a>>].alive =>
    \/ a < worker[i].attempt
    \/ a = worker[i].attempt /\ worker[i].at \notin {"start", "install", "activate"}

SuccessInv == \A i \in Install :
  /\ queued = i
  /\ worker[i].at \in {"save", "finish"} \/ task[i] = "SUCCESS"
  => row.token # None

ProcessInv == \A p \in Process :
  /\ ~hurt /\ proc[p].at # "loop" => proc[p].alive
  /\ proc[p].at \in {"register", "answered"} => proc[p].token = None

Core == RequestInv /\ AttemptInv /\ SuccessInv /\ ProcessInv /\ TokenIsHeld
IInv == TypeOK /\ Core


-----------------------------------------------------------------------------
(* The pieces that steps are made of *)

LEMMA NoneType == None \in Nat /\ None \in 0..MaxInstalls
BY HostRunnerAssumption DEF None

LEMMA InstallType == \A i \in Install : i \in 0..MaxInstalls /\ i # None
BY HostRunnerAssumption DEF Install, None

LEMMA RowType ==
  ASSUME NEW r \in Row, NEW e \in BOOLEAN, NEW k \in 0..MaxInstalls, NEW t \in Nat,
         NEW s \in InstallStatus
  PROVE  /\ [r EXCEPT !.install = s] \in Row
         /\ [r EXCEPT !.seen = TRUE] \in Row
         /\ [r EXCEPT !.exists = e, !.key = k, !.token = t, !.install = s] \in Row
         /\ [r EXCEPT !.key = k, !.token = t, !.seen = TRUE, !.install = s] \in Row
BY DEF Row

LEMMA RowFields ==
  ASSUME NEW r \in Row
  PROVE  /\ r.exists \in BOOLEAN /\ r.key \in 0..MaxInstalls /\ r.token \in Nat
         /\ r.install \in InstallStatus /\ r.seen \in BOOLEAN
BY DEF Row

LEMMA StatusFacts == {"installing", "installed", "failed", "canceled"} = InstallStatus
BY DEF InstallStatus

LEMMA ColumnType ==
  ASSUME NEW S, NEW before \in S, NEW new \in S, NEW now \in S
  PROVE  Column(before, new, now) \in S
BY DEF Column

LEMMA RequestType ==
  ASSUME NEW e \in Request, NEW a \in EnqStep, NEW r \in Row
  PROVE  /\ [at |-> a, view |-> r] \in Request
         /\ [e EXCEPT !.at = a] \in Request
         /\ [e EXCEPT !.at = a].at = a
         /\ e.view \in Row
BY DEF Request

LEMMA ExecutionType ==
  ASSUME NEW w \in Execution, NEW a \in WorkerStep, NEW n \in 0..MaxRetries,
         NEW s \in InstallStatus
  PROVE  /\ [w EXCEPT !.at = a] \in Execution
         /\ [w EXCEPT !.at = a, !.view = s] \in Execution
         /\ [w EXCEPT !.at = a, !.attempt = n] \in Execution
         /\ w.attempt \in 0..MaxRetries /\ w.view \in InstallStatus
         /\ [w EXCEPT !.at = a].at = a /\ [w EXCEPT !.at = a].attempt = w.attempt
         /\ [w EXCEPT !.at = a, !.view = s].at = a
         /\ [w EXCEPT !.at = a, !.view = s].attempt = w.attempt
         /\ [w EXCEPT !.at = a, !.attempt = n].at = a
         /\ [w EXCEPT !.at = a, !.attempt = n].attempt = n
BY DEF Execution

LEMMA NoRowType == NoRow \in Row /\ NoRow.token = None
BY NoneType DEF NoRow, Row, InstallStatus

LEMMA IdleType ==
  ASSUME NEW a \in EnqStep
  PROVE  Idle \in Request /\ [Idle EXCEPT !.at = a] \in Request
         /\ [Idle EXCEPT !.at = a].at = a /\ Idle.at = "idle"
BY NoRowType DEF Idle, Request, EnqStep

LEMMA ProcessType ==
  ASSUME NEW q \in RunnerProcess, NEW a \in ProcStep, NEW n \in Nat, NEW m \in Nat,
         NEW s \in InstallStatus, NEW b \in BOOLEAN
  PROVE  /\ [q EXCEPT !.at = a] \in RunnerProcess
         /\ [q EXCEPT !.at = a, !.view = s] \in RunnerProcess
         /\ [q EXCEPT !.at = a, !.answer = n] \in RunnerProcess
         /\ [q EXCEPT !.at = a, !.token = n, !.answer = m] \in RunnerProcess
         /\ [q EXCEPT !.at = a, !.view = s, !.answer = n] \in RunnerProcess
         /\ [q EXCEPT !.alive = b] \in RunnerProcess
         /\ q.token \in Nat /\ q.answer \in Nat /\ q.view \in InstallStatus
BY DEF RunnerProcess

LEMMA NoProcType == NoProc \in RunnerProcess /\ ~NoProc.alive /\ NoProc.at = "loop"
BY NoneType DEF NoProc, RunnerProcess, ProcStep, InstallStatus

LEMMA StartedType ==
  ASSUME disk \in [key: 0..MaxInstalls, token: Nat]
  PROVE  Started \in RunnerProcess /\ Started.alive /\ Started.at = "loop"
<1>1. disk.key \in 0..MaxInstalls /\ disk.token \in Nat
  OBVIOUS
<1>2. \A k \in 0..MaxInstalls, t \in Nat :
        LET q == [NoProc EXCEPT !.alive = TRUE, !.key = k, !.token = t]
        IN  q \in RunnerProcess /\ q.alive /\ q.at = "loop"
  BY NoProcType DEF RunnerProcess
<1> QED
  BY <1>1, <1>2 DEF Started

LEMMA BootType == Boot \in Process /\ \A i \in Install, a \in 0..MaxRetries : <<i, a>> \in Process
BY DEF Boot, Process

LEMMA RepairedType ==
  ASSUME row \in Row, NEW t
  PROVE  RepairedInstall(row, t) \in InstallStatus
<1>1. RepairedInstall(row, t) \in {"installed", row.install, "canceled", "failed", "installing"}
  BY Zenon DEF RepairedInstall
<1> QED
  BY <1>1, RowFields DEF InstallStatus

(* Goto moves one worker and leaves its attempt alone. *)
LEMMA GotoType ==
  ASSUME worker \in [Install -> Execution], NEW i \in Install,
         NEW at \in WorkerStep, Goto(i, at)
  PROVE  /\ worker' \in [Install -> Execution]
         /\ worker'[i].at = at /\ worker'[i].attempt = worker[i].attempt
         /\ \A j \in Install : j # i => worker'[j] = worker[j]
<1>1. worker[i] \in Execution
  OBVIOUS
<1>2. [worker[i] EXCEPT !.at = at, !.view = "installing"] \in Execution
  BY <1>1, StatusFacts DEF Execution
<1>3. worker' = [worker EXCEPT ![i] = [worker[i] EXCEPT !.at = at, !.view = "installing"]]
  BY DEF Goto
<1>4. [worker[i] EXCEPT !.at = at, !.view = "installing"].at = at
  BY <1>1 DEF Execution
<1>5. [worker[i] EXCEPT !.at = at, !.view = "installing"].attempt = worker[i].attempt
  BY <1>1 DEF Execution
<1> QED
  BY <1>2, <1>3, <1>4, <1>5

LEMMA ReportType ==
  ASSUME TypeOK, NEW i \in Install, NEW new \in Active \cup Terminal, Report(i, new)
  PROVE  /\ task' \in [Install -> {"none"} \cup Active \cup Terminal]
         /\ old' \subseteq Install
         /\ \A j \in Install : j # i => task'[j] = task[j]
         /\ task'[i] \in {task[i], new}
BY DEF TypeOK, Report

-----------------------------------------------------------------------------
(* Type correctness, one lemma for the actions of each actor *)

LEMMA EnqueueTypeStep ==
  ASSUME TypeOK, NEW i \in Install,
         EnqueueBegin(i) \/ EnqueueCommit(i) \/ CreateTaskRun(i) \/ Delay(i)
  PROVE  TypeOK'
<1>1. CASE EnqueueBegin(i)
  <2>1. [at |-> "commit", view |-> row] \in Request
    BY RequestType DEF TypeOK, EnqStep, Request
  <2> QED
    BY <1>1, <2>1 DEF EnqueueBegin, TypeOK, taskVars, hostVars
<1>2. CASE EnqueueCommit(i)
  <2>1. enq[i].view \in Row /\ row \in Row /\ i \in 0..MaxInstalls
    BY InstallType DEF TypeOK, Request
  <2>2. Column(enq[i].view.token, None, row.token) \in Nat
    BY <2>1, ColumnType, RowFields, NoneType
  <2>3. Column(enq[i].view.install, "installing", row.install) \in InstallStatus
    BY <2>1, ColumnType, RowFields, StatusFacts
  <2>4. row' \in Row
    <3>1. [row EXCEPT !.exists = TRUE, !.key = i,
             !.token = Column(enq[i].view.token, None, row.token),
             !.install = Column(enq[i].view.install, "installing", row.install)] \in Row
      BY <2>1, <2>2, <2>3, RowType
    <3> QED
      BY <1>2, <2>1, <3>1 DEF EnqueueCommit
  <2>5. enq' \in [Install -> Request]
    <3>1. \A a \in {"done", "create"} : [Idle EXCEPT !.at = a] \in Request
      BY IdleType DEF EnqStep
    <3> QED
      BY <1>2, <3>1 DEF EnqueueCommit, TypeOK
  <2>6. queued' \in 0..MaxInstalls
    BY <1>2, <2>1 DEF EnqueueCommit, TypeOK
  <2> QED
    BY <1>2, <2>4, <2>5, <2>6 DEF EnqueueCommit, TypeOK, taskVars, hostVars
<1>3. CASE CreateTaskRun(i)
  <2>1. [enq[i] EXCEPT !.at = "send"] \in Request
    BY RequestType DEF TypeOK, EnqStep
  <2>2. enq' \in [Install -> Request]
    BY <1>3, <2>1 DEF CreateTaskRun, TypeOK
  <2> QED
    BY <1>3, <2>2 DEF CreateTaskRun, TypeOK, Active, hostVars
<1>4. CASE Delay(i)
  <2>1. [enq[i] EXCEPT !.at = "done"] \in Request
    BY RequestType DEF TypeOK, EnqStep
  <2>2. [worker[i] EXCEPT !.at = "start"] \in Execution
    <3>1. worker[i] \in Execution /\ "start" \in WorkerStep
      BY DEF TypeOK, WorkerStep
    <3> QED
      BY <3>1 DEF Execution
  <2>3. enq' \in [Install -> Request] /\ worker' \in [Install -> Execution]
    BY <1>4, <2>1, <2>2 DEF Delay, TypeOK
  <2> QED
    BY <1>4, <2>3 DEF Delay, TypeOK, hostVars
<1> QED
  BY <1>1, <1>2, <1>3, <1>4

LEMMA WorkerTypeStep ==
  ASSUME TypeOK, NEW i \in Install, WorkerStepOf(i)
  PROVE  TypeOK'
<1>0. {"start", "install", "activate", "wait", "read", "save", "finish", "except",
       "failed", "canceled", "idle"} = WorkerStep /\ worker \in [Install -> Execution]
  BY DEF WorkerStep, TypeOK
<1>1. CASE WorkerStart(i)
  <2>1. worker' \in [Install -> Execution]
    BY <1>0, <1>1, GotoType DEF WorkerStart
  <2> QED
    BY <1>1, <2>1 DEF WorkerStart, TypeOK, Active, apiVars, hostVars
<1>2. CASE Unpack(i)
  <2>1. worker' \in [Install -> Execution]
    BY <1>0, <1>2, GotoType DEF Unpack
  <2>2. disk' \in [key: 0..MaxInstalls, token: Nat]
    BY <1>2, InstallType, NoneType DEF Unpack, TypeOK
  <2> QED
    BY <1>2, <2>1, <2>2 DEF Unpack, TypeOK, apiVars
<1>3. CASE Activate(i)
  <2>1. worker' \in [Install -> Execution]
    BY <1>0, <1>3, GotoType DEF Activate
  <2>2. proc' \in [Process -> RunnerProcess]
    BY <1>3, StartedType DEF Activate, TypeOK
  <2> QED
    BY <1>3, <2>1, <2>2 DEF Activate, TypeOK, apiVars
<1>4. CASE WaitForRegistration(i)
  <2>1. worker' \in [Install -> Execution]
    <3>1. CASE Registered(row) /\ row.seen
      BY <1>0, <1>4, <3>1, GotoType DEF WaitForRegistration
    <3>2. CASE ~(Registered(row) /\ row.seen)
      BY <1>0, <1>4, <3>2, GotoType DEF WaitForRegistration
    <3> QED
      BY <3>1, <3>2
  <2> QED
    BY <1>4, <2>1 DEF WaitForRegistration, TypeOK, apiVars, hostVars
<1>5. CASE SaveBegin(i)
  <2>1. [worker[i] EXCEPT !.at = "save", !.view = row.install] \in Execution
    <3>1. /\ worker[i] \in Execution /\ "save" \in WorkerStep
          /\ row.install \in InstallStatus
      BY <1>0, RowFields DEF TypeOK
    <3> QED
      BY <3>1 DEF Execution
  <2>2. worker' \in [Install -> Execution]
    BY <1>0, <1>5, <2>1, GotoType DEF SaveBegin
  <2> QED
    BY <1>5, <2>2 DEF SaveBegin, TypeOK, apiVars, hostVars
<1>6. CASE SaveCommit(i)
  <2>1. Column(worker[i].view, "installed", row.install) \in InstallStatus
    <3>1. worker[i].view \in InstallStatus
      BY <1>0 DEF Execution
    <3>2. row.install \in InstallStatus /\ "installed" \in InstallStatus
      BY RowFields, StatusFacts DEF TypeOK
    <3> QED
      BY <3>1, <3>2, ColumnType
  <2>2. row' \in Row
    BY <1>6, <2>1, RowType, NoneType DEF SaveCommit, TypeOK
  <2>3. worker' \in [Install -> Execution]
    BY <1>0, <1>6, GotoType DEF SaveCommit
  <2> QED
    BY <1>6, <2>2, <2>3 DEF SaveCommit, TypeOK, apiVars, hostVars
<1>7. CASE WorkerFinish(i)
  <2>1. worker' \in [Install -> Execution]
    BY <1>0, <1>7, GotoType DEF WorkerFinish
  <2>2. /\ task' \in [Install -> {"none"} \cup Active \cup Terminal]
        /\ old' \subseteq Install
    BY <1>7, ReportType DEF WorkerFinish, Terminal, TypeOK
  <2> QED
    BY <1>7, <2>1, <2>2 DEF WorkerFinish, TypeOK, apiVars, hostVars
<1>8. CASE WorkerExcept(i)
  <2>1. /\ task' \in [Install -> {"none"} \cup Active \cup Terminal]
        /\ old' \subseteq Install
    BY <1>8, ReportType DEF WorkerExcept, Terminal, Active, TypeOK
  <2>2. worker' \in [Install -> Execution]
    <3>1. CASE task[i] # "CANCELED" /\ worker[i].attempt < MaxRetries
      <4>1. worker[i].attempt + 1 \in 0..MaxRetries
        <5>1. worker[i].attempt \in 0..MaxRetries
          BY <1>0 DEF Execution
        <5> QED
          BY <3>1, <5>1, HostRunnerAssumption
      <4>2. [worker[i] EXCEPT !.at = "start", !.attempt = @ + 1] \in Execution
        <5>1. worker[i] \in Execution /\ "start" \in WorkerStep
          BY <1>0
        <5> QED
          BY <4>1, <5>1 DEF Execution
      <4> QED
        BY <1>0, <1>8, <3>1, <4>2 DEF WorkerExcept
    <3>2. CASE ~(task[i] # "CANCELED" /\ worker[i].attempt < MaxRetries)
      BY <1>0, <1>8, <3>2, GotoType DEF WorkerExcept
    <3> QED
      BY <3>1, <3>2
  <2> QED
    BY <1>8, <2>1, <2>2 DEF WorkerExcept, TypeOK, apiVars, hostVars
<1>9. CASE RecordOutcome(i)
  <2>1. row' \in Row
    BY <1>9, RowType, NoneType, StatusFacts DEF RecordOutcome, TypeOK
  <2>2. worker' \in [Install -> Execution]
    BY <1>0, <1>9, GotoType DEF RecordOutcome
  <2> QED
    BY <1>9, <2>1, <2>2 DEF RecordOutcome, TypeOK, apiVars, hostVars
<1> QED
  BY <1>1, <1>2, <1>3, <1>4, <1>5, <1>6, <1>7, <1>8, <1>9 DEF WorkerStepOf

LEMMA ProcessTypeStep ==
  ASSUME TypeOK, NEW p \in Process, ProcessStep(p) \/ LoseAnswer(p)
  PROVE  TypeOK'
<1>0. /\ {"loop", "register", "answered", "polled"} = ProcStep
      /\ proc[p] \in RunnerProcess /\ row.install \in InstallStatus
  BY RowFields DEF ProcStep, TypeOK
<1>1. CASE RegisterBegin(p)
  <2>1. [proc[p] EXCEPT !.at = "register", !.view = row.install] \in RunnerProcess
    BY <1>0 DEF RunnerProcess
  <2>2. proc' \in [Process -> RunnerProcess]
    BY <1>1, <2>1 DEF RegisterBegin, TypeOK
  <2> QED
    BY <1>1, <2>2 DEF RegisterBegin, TypeOK, apiVars, taskVars
<1>2. CASE RegisterCommit(p)
  <2>1. minted + 1 \in Nat
    BY DEF TypeOK
  <2>2. Column(proc[p].view, "installed", row.install) \in InstallStatus
    <3>1. proc[p].view \in InstallStatus /\ "installed" \in InstallStatus
      BY <1>0, StatusFacts DEF RunnerProcess
    <3> QED
      BY <1>0, <3>1, ColumnType
  <2>3. row' \in Row
    BY <1>2, <2>1, <2>2, RowType, NoneType DEF RegisterCommit, TypeOK
  <2>4. [proc[p] EXCEPT !.at = "answered", !.view = "installing",
                        !.answer = minted + 1] \in RunnerProcess
    BY <1>0, <2>1, StatusFacts DEF RunnerProcess
  <2>5. proc' \in [Process -> RunnerProcess]
    BY <1>2, <2>4, NoProcType DEF RegisterCommit, TypeOK
  <2> QED
    BY <1>2, <2>1, <2>3, <2>5 DEF RegisterCommit, TypeOK, apiVars, taskVars
<1>3. CASE ReceiveToken(p)
  <2>1. proc[p].answer \in Nat /\ None \in Nat
    BY <1>0, NoneType DEF RunnerProcess
  <2>2. [proc[p] EXCEPT !.at = "loop", !.token = proc[p].answer,
                        !.answer = None] \in RunnerProcess
    BY <1>0, <2>1 DEF RunnerProcess
  <2>3. proc' \in [Process -> RunnerProcess]
    BY <1>3, <2>2 DEF ReceiveToken, TypeOK
  <2> QED
    BY <1>3, <2>1, <2>3 DEF ReceiveToken, TypeOK, apiVars, taskVars
<1>4. CASE HeartbeatAndPoll(p)
  <2>1. [proc[p] EXCEPT !.at = "polled"] \in RunnerProcess
    BY <1>0 DEF RunnerProcess
  <2>2. row' \in Row
    BY <1>4 DEF HeartbeatAndPoll, TypeOK, Row
  <2>3. proc' \in [Process -> RunnerProcess]
    BY <1>4, <2>1 DEF HeartbeatAndPoll, TypeOK
  <2> QED
    BY <1>4, <2>2, <2>3 DEF HeartbeatAndPoll, TypeOK, apiVars, taskVars
<1>5. CASE WriteState(p)
  <2>1. [proc[p] EXCEPT !.at = "loop"] \in RunnerProcess /\ proc[p].token \in Nat
    BY <1>0 DEF RunnerProcess
  <2>2. proc' \in [Process -> RunnerProcess]
    BY <1>5, <2>1 DEF WriteState, TypeOK
  <2> QED
    BY <1>5, <2>1, <2>2 DEF WriteState, TypeOK, apiVars, taskVars
<1>6. CASE LoseAnswer(p)
  <2>1. [proc[p] EXCEPT !.at = "loop", !.answer = None] \in RunnerProcess
    BY <1>0, NoneType DEF RunnerProcess
  <2>2. proc' \in [Process -> RunnerProcess]
    BY <1>6, <2>1 DEF LoseAnswer, TypeOK
  <2> QED
    BY <1>6, <2>2 DEF LoseAnswer, TypeOK, apiVars, taskVars
<1> QED
  BY <1>1, <1>2, <1>3, <1>4, <1>5, <1>6 DEF ProcessStep

LEMMA OtherTypeStep ==
  ASSUME TypeOK,
         \/ \E i \in Install : Cancel(i) \/ Clear(i) \/ AgeTask(i)
         \/ GetBegin \/ GetCommit \/ Reboot
  PROVE  TypeOK'
<1>1. ASSUME NEW i \in Install, Cancel(i) \/ Clear(i) \/ AgeTask(i)
      PROVE  TypeOK'
  BY <1>1 DEF Cancel, Clear, AgeTask, TypeOK, Terminal, apiVars, hostVars
<1>2. CASE GetBegin
  <2>1. PICK t \in Install \cup {None} :
          reader' = [at |-> "commit", view |-> row.install,
                     new |-> RepairedInstall(row, t),
                     fail |-> IF ~Registered(row) /\ task[t] \in Active
                                THEN t ELSE None]
    BY <1>2 DEF GetBegin
  <2>2. /\ row.install \in InstallStatus /\ RepairedInstall(row, t) \in InstallStatus
        /\ t \in 0..MaxInstalls /\ None \in 0..MaxInstalls
    BY RowFields, RepairedType, InstallType, NoneType DEF TypeOK
  <2>3. reader' \in Get
    BY <2>1, <2>2 DEF Get
  <2> QED
    BY <1>2, <2>3 DEF GetBegin, TypeOK, taskVars, hostVars
<1>3. CASE GetCommit
  <2>1. Column(reader.view, reader.new, row.install) \in InstallStatus
    BY ColumnType, RowFields DEF TypeOK, Get
  <2>2. [row EXCEPT !.install = Column(reader.view, reader.new, @)] \in Row
    BY <2>1 DEF TypeOK, Row
  <2>3. row' \in Row
    BY <1>3, <2>2 DEF GetCommit, TypeOK
  <2>4. reader' \in Get
    BY <1>3, NoneType, StatusFacts DEF GetCommit, NoReader, Get
  <2>5. task' \in [Install -> {"none"} \cup Active \cup Terminal] /\ old' \subseteq Install
    BY <1>3 DEF GetCommit, TypeOK, Terminal
  <2> QED
    BY <1>3, <2>3, <2>4, <2>5 DEF GetCommit, TypeOK, hostVars
<1>4. CASE Reboot
  <2>1. \A p \in Process : [proc[p] EXCEPT !.alive = FALSE] \in RunnerProcess
    BY DEF TypeOK, RunnerProcess
  <2>2. proc' \in [Process -> RunnerProcess]
    BY <1>4, <2>1, StartedType, NoProcType DEF Reboot, TypeOK
  <2> QED
    BY <1>4, <2>2 DEF Reboot, TypeOK, apiVars, taskVars
<1> QED
  BY <1>1, <1>2, <1>3, <1>4

LEMMA TypeInit == Init => TypeOK
<1> SUFFICES ASSUME Init PROVE TypeOK
  OBVIOUS
<1>1. NoWorker \in Execution
  BY HostRunnerAssumption DEF NoWorker, Execution, WorkerStep, InstallStatus
<1>2. NoReader \in Get
  BY NoneType DEF NoReader, Get, InstallStatus
<1>3. Idle \in Request
  BY NoRowType DEF Idle, Request, EnqStep
<1>4. created \in Seq(Install)
  BY DEF Init
<1> QED
  BY <1>1, <1>2, <1>3, <1>4, NoRowType, NoneType, NoProcType DEF Init, TypeOK

LEMMA TypeStep == TypeOK /\ [Next]_vars => TypeOK'
<1> SUFFICES ASSUME TypeOK, [Next]_vars PROVE TypeOK'
  OBVIOUS
<1>1. ASSUME NEW i \in Install, InstallStep(i) PROVE TypeOK'
  BY <1>1, EnqueueTypeStep, WorkerTypeStep, OtherTypeStep DEF InstallStep
<1>2. ASSUME NEW p \in Process, ProcessStep(p) \/ LoseAnswer(p) PROVE TypeOK'
  BY <1>2, ProcessTypeStep
<1>3. CASE GetBegin \/ GetCommit \/ Reboot
  BY <1>3, OtherTypeStep
<1>4. CASE UNCHANGED vars
  BY <1>4 DEF vars, apiVars, taskVars, hostVars, TypeOK
<1> QED
  BY <1>1, <1>2, <1>3, <1>4 DEF Next

-----------------------------------------------------------------------------
(* The inductive invariant *)

LEMMA ColumnCases ==
  ASSUME NEW before, NEW new, NEW now
  PROVE  Column(before, new, now) \in {new, now}
BY DEF Column

(* A step that leaves the hosts and the token alone keeps TokenIsHeld. *)
LEMMA TokenUntouched ==
  ASSUME IInv, UNCHANGED <<proc, hurt>>, row'.token \in {None, row.token}
  PROVE  TokenIsHeld' /\ ProcessInv'
BY DEF IInv, Core, TokenIsHeld, ProcessInv

LEMMA EnqueueCoreStep ==
  ASSUME IInv, NEW i \in Install,
         EnqueueBegin(i) \/ EnqueueCommit(i) \/ CreateTaskRun(i) \/ Delay(i)
  PROVE  Core'
<1>0. /\ RequestInv /\ AttemptInv /\ SuccessInv
      /\ enq \in [Install -> Request] /\ worker \in [Install -> Execution]
      /\ task \in [Install -> {"none"} \cup Active \cup Terminal] /\ row \in Row
  BY DEF IInv, Core, TypeOK
<1>1. CASE EnqueueBegin(i)
  <2>1. /\ enq[i].at = "idle" /\ enq'[i].at = "commit"
        /\ \A j \in Install : j # i => enq'[j] = enq[j]
        /\ UNCHANGED <<row, task, worker, proc, queued, hurt>>
    BY <1>0, <1>1 DEF EnqueueBegin, taskVars, hostVars
  <2> QED
    BY <1>0, <2>1, TokenUntouched DEF Core, RequestInv, AttemptInv, SuccessInv
<1>2. CASE EnqueueCommit(i)
  <2>1. /\ enq[i].at = "commit" /\ enq'[i].at \in {"done", "create"}
        /\ \A j \in Install : j # i => enq'[j] = enq[j]
        /\ UNCHANGED <<task, worker, proc, hurt>>
    <3>1. \A a : [Idle EXCEPT !.at = a].at = a
      BY DEF Idle
    <3> QED
      BY <1>0, <1>2, <3>1 DEF EnqueueCommit, taskVars, hostVars
  <2>2. worker[i].at = "idle" /\ task[i] = "none"
    BY <1>0, <2>1 DEF RequestInv
  <2>3. /\ row'.token \in {None, row.token}
        /\ queued' = i \/ (row' = row /\ queued' = queued)
    <3>1. CASE row.exists /\ ~enq[i].view.exists
      BY <1>2, <3>1 DEF EnqueueCommit
    <3>2. CASE ~(row.exists /\ ~enq[i].view.exists)
      <4> DEFINE t == Column(enq[i].view.token, None, row.token)
                 s == Column(enq[i].view.install, "installing", row.install)
                 r == [row EXCEPT !.exists = TRUE, !.key = i, !.token = t, !.install = s]
      <4>1. row' = r /\ queued' = i
        BY <1>0, <1>2, <3>2 DEF EnqueueCommit
      <4>2. t \in {None, row.token}
        BY ColumnCases
      <4>3. r.token = t
        <5> HIDE DEF t, s
        <5> QED
          BY <1>0 DEF Row
      <4> QED
        BY <4>1, <4>2, <4>3
    <3> QED
      BY <3>1, <3>2
  <2>4. RequestInv' /\ AttemptInv'
    BY <1>0, <2>1 DEF RequestInv, AttemptInv
  <2>5. SuccessInv'
    BY <1>0, <2>1, <2>2, <2>3 DEF SuccessInv
  <2> QED
    BY <2>1, <2>3, <2>4, <2>5, TokenUntouched DEF Core
<1>3. CASE CreateTaskRun(i)
  <2>1. /\ enq[i].at = "create" /\ enq'[i].at = "send" /\ task'[i] = "PENDING"
        /\ \A j \in Install : j # i => enq'[j] = enq[j] /\ task'[j] = task[j]
        /\ UNCHANGED <<row, worker, proc, queued, hurt>>
    BY <1>0, <1>3, RequestType DEF CreateTaskRun, hostVars, EnqStep
  <2> QED
    BY <1>0, <2>1, TokenUntouched DEF Core, RequestInv, AttemptInv, SuccessInv
<1>4. CASE Delay(i)
  <2>1. /\ enq[i].at = "send" /\ enq'[i].at = "done" /\ worker'[i].at = "start"
        /\ \A j \in Install : j # i => enq'[j] = enq[j] /\ worker'[j] = worker[j]
        /\ UNCHANGED <<row, task, proc, queued, hurt>>
    <3>1. [worker[i] EXCEPT !.at = "start"].at = "start"
      BY <1>0 DEF Execution
    <3>2. [enq[i] EXCEPT !.at = "done"].at = "done"
      BY <1>0 DEF Request
    <3> QED
      BY <1>0, <1>4, <3>1, <3>2 DEF Delay, hostVars
  <2>2. \A a \in 0..MaxRetries : ~proc[<<i, a>>].alive
    BY <1>0, <2>1 DEF RequestInv
  <2> QED
    BY <1>0, <2>1, <2>2, TokenUntouched DEF Core, RequestInv, AttemptInv, SuccessInv
<1> QED
  BY <1>1, <1>2, <1>3, <1>4

(***************************************************************************)
(* A step of worker i that starts no process, keeps the token and never    *)
(* goes back in front of the start of the process of its attempt.          *)
(***************************************************************************)
LEMMA WorkerMove ==
  ASSUME IInv, NEW i \in Install, worker[i].at # "idle",
         UNCHANGED <<enq, proc, queued, hurt>>, row'.token = row.token,
         \A j \in Install : j # i => worker'[j] = worker[j] /\ task'[j] = task[j],
         \/ /\ worker'[i].attempt = worker[i].attempt
            /\ worker'[i].at \in {"start", "install", "activate"}
                 => worker[i].at \in {"start", "install", "activate"}
         \/ worker'[i].attempt = worker[i].attempt + 1,
         worker'[i].at \in {"save", "finish"} \/ task'[i] = "SUCCESS" =>
           \/ row.token # None
           \/ worker[i].at \in {"save", "finish"} \/ task[i] = "SUCCESS"
  PROVE  Core'
<1>0. /\ RequestInv /\ AttemptInv /\ SuccessInv
      /\ worker[i].attempt \in 0..MaxRetries
  BY DEF IInv, Core, TypeOK, Execution
<1>1. enq[i].at = "done"
  BY <1>0 DEF RequestInv
<1>2. RequestInv'
  BY <1>0, <1>1 DEF RequestInv
<1>3. AttemptInv'
  BY <1>0, HostRunnerAssumption DEF AttemptInv
<1>4. SuccessInv'
  BY <1>0 DEF SuccessInv
<1> QED
  BY <1>2, <1>3, <1>4, TokenUntouched DEF Core

LEMMA WorkerCoreStep ==
  ASSUME IInv, NEW i \in Install, WorkerStepOf(i)
  PROVE  Core'
<1>0. /\ worker \in [Install -> Execution] /\ row \in Row /\ TypeOK /\ SuccessInv
      /\ task \in [Install -> {"none"} \cup Active \cup Terminal]
      /\ {"start", "install", "activate", "wait", "read", "save", "finish", "except",
          "failed", "canceled", "idle"} = WorkerStep
  BY DEF IInv, Core, TypeOK, WorkerStep
<1>1. CASE WorkerStart(i)
  <2>1. worker'[i].at \in {"install", "canceled"}
        /\ worker'[i].attempt = worker[i].attempt
        /\ \A j \in Install : j # i => worker'[j] = worker[j]
    BY <1>0, <1>1, GotoType DEF WorkerStart
  <2>2. /\ worker[i].at = "start"
        /\ \A j \in Install : j # i => task'[j] = task[j]
        /\ task'[i] \in {task[i], "RUNNING"}
        /\ UNCHANGED <<enq, proc, queued, hurt, row>>
    BY <1>0, <1>1 DEF WorkerStart, apiVars, hostVars
  <2> QED
    BY <2>1, <2>2, WorkerMove
<1>2. CASE Unpack(i)
  <2>1. worker'[i].at \in {"canceled", "activate", "except"}
        /\ worker'[i].attempt = worker[i].attempt
        /\ \A j \in Install : j # i => worker'[j] = worker[j]
    BY <1>0, <1>2, GotoType DEF Unpack
  <2>2. /\ worker[i].at = "install"
        /\ UNCHANGED <<enq, proc, queued, hurt, row, task>>
    BY <1>2 DEF Unpack, apiVars
  <2> QED
    BY <2>1, <2>2, WorkerMove
<1>3. CASE WaitForRegistration(i) \/ SaveBegin(i)
  <2>1. /\ worker[i].at \in {"wait", "read"}
        /\ UNCHANGED <<enq, proc, queued, hurt, row, task>>
    BY <1>3 DEF WaitForRegistration, SaveBegin, apiVars, hostVars
  <2>2. /\ worker'[i].attempt = worker[i].attempt
        /\ \A j \in Install : j # i => worker'[j] = worker[j]
        /\ \/ worker'[i].at \in {"read", "except"}
           \/ worker'[i].at = "save" /\ Registered(row)
    <3>1. CASE WaitForRegistration(i)
      <4>1. CASE Registered(row) /\ row.seen
        BY <1>0, <3>1, <4>1, GotoType DEF WaitForRegistration
      <4>2. CASE ~(Registered(row) /\ row.seen)
        BY <1>0, <3>1, <4>2, GotoType DEF WaitForRegistration
      <4> QED
        BY <4>1, <4>2
    <3>2. CASE SaveBegin(i) /\ Registered(row)
      <4>1. \A w \in Execution : \A s :
              LET n == [w EXCEPT !.at = "save", !.view = s]
              IN  n.at = "save" /\ n.attempt = w.attempt
        BY DEF Execution
      <4>2. worker' = [worker EXCEPT ![i] =
                         [worker[i] EXCEPT !.at = "save", !.view = row.install]]
        BY <3>2 DEF SaveBegin
      <4> QED
        BY <1>0, <3>2, <4>1, <4>2
    <3>3. CASE SaveBegin(i) /\ ~Registered(row)
      BY <1>0, <3>3, GotoType DEF SaveBegin
    <3> QED
      BY <1>3, <3>1, <3>2, <3>3
  <2> QED
    BY <2>1, <2>2, WorkerMove DEF Registered
<1>4. CASE SaveCommit(i)
  <2>1. worker'[i].at = "finish" /\ worker'[i].attempt = worker[i].attempt
        /\ \A j \in Install : j # i => worker'[j] = worker[j]
    BY <1>0, <1>4, GotoType DEF SaveCommit
  <2>2. /\ worker[i].at = "save"
        /\ UNCHANGED <<enq, proc, queued, hurt, task>>
    BY <1>4 DEF SaveCommit, apiVars, hostVars
  <2>3. row'.token = row.token
    BY <1>0, <1>4 DEF SaveCommit, Row
  <2> QED
    BY <2>1, <2>2, <2>3, WorkerMove
<1>5. CASE WorkerFinish(i)
  <2>1. worker'[i].at \in {"canceled", "idle"}
        /\ worker'[i].attempt = worker[i].attempt
        /\ \A j \in Install : j # i => worker'[j] = worker[j]
    BY <1>0, <1>5, GotoType DEF WorkerFinish
  <2>2. /\ worker[i].at = "finish"
        /\ UNCHANGED <<enq, proc, queued, hurt, row>>
    BY <1>5 DEF WorkerFinish, apiVars, hostVars
  <2>3. \A j \in Install : j # i => task'[j] = task[j]
    BY <1>0, <1>5, ReportType DEF WorkerFinish, Terminal
  <2> QED
    BY <2>1, <2>2, <2>3, WorkerMove
<1>6. CASE WorkerExcept(i)
  <2>1. /\ worker[i].at = "except"
        /\ UNCHANGED <<enq, proc, queued, hurt, row>>
    BY <1>6 DEF WorkerExcept, apiVars, hostVars
  <2>2. /\ \A j \in Install : j # i => task'[j] = task[j]
        /\ task'[i] \in {task[i], "RETRY", "FAILURE"}
    BY <1>0, <1>6, ReportType DEF WorkerExcept, Terminal, Active
  <2>3. CASE task[i] # "CANCELED" /\ worker[i].attempt < MaxRetries
    <3>1. \A w \in Execution : \A n :
            LET v == [w EXCEPT !.at = "start", !.attempt = n]
            IN  v.at = "start" /\ v.attempt = n
      BY DEF Execution
    <3>2. worker' = [worker EXCEPT ![i] =
            [worker[i] EXCEPT !.at = "start", !.attempt = worker[i].attempt + 1]]
      BY <1>6, <2>3 DEF WorkerExcept
    <3>3. worker'[i].at = "start" /\ worker'[i].attempt = worker[i].attempt + 1
          /\ \A j \in Install : j # i => worker'[j] = worker[j]
      BY <1>0, <3>1, <3>2
    <3> QED
      BY <2>1, <2>2, <3>3, WorkerMove
  <2>4. CASE ~(task[i] # "CANCELED" /\ worker[i].attempt < MaxRetries)
    <3>1. worker'[i].at \in {"idle", "failed"}
          /\ worker'[i].attempt = worker[i].attempt
          /\ \A j \in Install : j # i => worker'[j] = worker[j]
      BY <1>0, <1>6, <2>4, GotoType DEF WorkerExcept
    <3> QED
      BY <2>1, <2>2, <3>1, WorkerMove
  <2> QED
    BY <2>3, <2>4
<1>7. CASE RecordOutcome(i)
  <2>1. worker'[i].at = "idle" /\ worker'[i].attempt = worker[i].attempt
        /\ \A j \in Install : j # i => worker'[j] = worker[j]
    BY <1>0, <1>7, GotoType DEF RecordOutcome
  <2>2. /\ worker[i].at # "idle"
        /\ UNCHANGED <<enq, proc, queued, hurt, task>>
    BY <1>7 DEF RecordOutcome, apiVars, hostVars
  <2>3. row'.token = row.token
    BY <1>0, <1>7 DEF RecordOutcome, Row
  <2> QED
    BY <2>1, <2>2, <2>3, WorkerMove
<1>8. CASE Activate(i)
  <2> DEFINE p0 == <<i, worker[i].attempt>>
  <2>1. /\ worker'[i].at \in {"wait", "except"}
        /\ worker'[i].attempt = worker[i].attempt
        /\ \A j \in Install : j # i => worker'[j] = worker[j]
    BY <1>0, <1>8, GotoType DEF Activate
  <2>2. /\ worker[i].at = "activate"
        /\ UNCHANGED <<enq, task, row, queued, hurt>>
        /\ proc' \in {proc, [proc EXCEPT ![p0] = Started]}
    BY <1>8 DEF Activate, apiVars
  <2>3. CASE proc' = proc
    BY <2>1, <2>2, <2>3, WorkerMove
  <2>4. CASE proc' = [proc EXCEPT ![p0] = Started]
    <3>1. /\ RequestInv /\ AttemptInv /\ ProcessInv /\ TokenIsHeld
          /\ worker[i].attempt \in 0..MaxRetries /\ proc \in [Process -> RunnerProcess]
      BY <1>0 DEF IInv, Core, TypeOK, Execution
    <3>2. p0 \in Process /\ ~proc[p0].alive
      BY <2>2, <3>1, BootType DEF AttemptInv
    <3>3. Started.alive /\ Started.at = "loop"
      BY <1>0, StartedType DEF TypeOK
    <3>4. /\ proc'[p0] = Started
          /\ \A p \in Process : p # p0 => proc'[p] = proc[p]
      BY <2>4, <3>1, <3>2
    <3>5. enq[i].at = "done"
      BY <2>2, <3>1 DEF RequestInv
    <3>6. RequestInv'
      BY <2>1, <2>2, <3>1, <3>4, <3>5, BootType DEF RequestInv
    <3>7. AttemptInv'
      BY <2>1, <2>2, <3>1, <3>4, BootType DEF AttemptInv
    <3>8. SuccessInv'
      BY <1>0, <2>1, <2>2 DEF SuccessInv
    <3>9. ProcessInv'
      BY <2>2, <3>1, <3>3, <3>4 DEF ProcessInv
    <3>10. TokenIsHeld'
      BY <2>2, <3>1, <3>2, <3>4 DEF TokenIsHeld
    <3> QED
      BY <3>6, <3>7, <3>8, <3>9, <3>10 DEF Core
  <2> QED
    BY <2>2, <2>3, <2>4
<1> QED
  BY <1>1, <1>2, <1>3, <1>4, <1>5, <1>6, <1>7, <1>8 DEF WorkerStepOf

LEMMA ProcessCoreStep ==
  ASSUME IInv, NEW p \in Process, ProcessStep(p) \/ LoseAnswer(p)
  PROVE  Core'
<1>0. /\ RequestInv /\ AttemptInv /\ SuccessInv /\ ProcessInv /\ TokenIsHeld
      /\ proc \in [Process -> RunnerProcess] /\ proc[p] \in RunnerProcess
      /\ row \in Row /\ minted \in Nat
  BY DEF IInv, Core, TypeOK
<1>1. /\ UNCHANGED <<enq, worker, task, queued>>
      /\ \A q \in Process : q # p => proc'[q] = proc[q]
      /\ row'.token # None \/ row'.token = row.token
      /\ proc'[p].alive => proc[p].alive
  <2>1. CASE RegisterBegin(p) \/ ReceiveToken(p) \/ WriteState(p) \/ LoseAnswer(p)
    <3>1. /\ UNCHANGED <<enq, worker, task, queued, row>>
          /\ \A q \in Process : q # p => proc'[q] = proc[q]
          /\ proc[p].alive
      BY <1>0, <2>1 DEF RegisterBegin, ReceiveToken, WriteState, LoseAnswer,
                        apiVars, taskVars
    <3> QED
      BY <3>1
  <2>2. CASE RegisterCommit(p)
    <3>1. /\ UNCHANGED <<enq, worker, task, queued>>
          /\ \A q \in Process : q # p => proc'[q] = proc[q]
      BY <1>0, <2>2 DEF RegisterCommit, apiVars, taskVars
    <3>2. row'.token = minted + 1
      BY <1>0, <2>2 DEF RegisterCommit, Row
    <3>3. proc'[p].alive => proc[p].alive
      BY <1>0, <2>2, NoProcType DEF RegisterCommit, RunnerProcess
    <3> QED
      BY <1>0, <3>1, <3>2, <3>3 DEF None
  <2>3. CASE HeartbeatAndPoll(p)
    <3>1. /\ UNCHANGED <<enq, worker, task, queued>>
          /\ \A q \in Process : q # p => proc'[q] = proc[q]
          /\ proc[p].alive
      BY <1>0, <2>3 DEF HeartbeatAndPoll, Accepted, apiVars, taskVars
    <3>2. row'.token = row.token
      BY <1>0, <2>3 DEF HeartbeatAndPoll, Row
    <3> QED
      BY <3>1, <3>2
  <2> QED
    BY <2>1, <2>2, <2>3 DEF ProcessStep
<1>2. RequestInv' /\ AttemptInv'
  BY <1>0, <1>1, BootType DEF RequestInv, AttemptInv
<1>3. SuccessInv'
  BY <1>0, <1>1 DEF SuccessInv
<1>4. ProcessInv' /\ TokenIsHeld'
  <2>1. CASE RegisterBegin(p)
    <3>1. /\ UNCHANGED <<row, hurt>>
          /\ proc[p].alive /\ proc[p].token = None
          /\ proc'[p].alive = proc[p].alive /\ proc'[p].token = proc[p].token
          /\ proc'[p].answer = proc[p].answer
      BY <1>0, <2>1 DEF RegisterBegin, RunnerProcess
    <3> QED
      BY <1>0, <1>1, <3>1 DEF ProcessInv, TokenIsHeld
  <2>2. CASE RegisterCommit(p)
    <3>1. row'.token = minted + 1 /\ hurt' = hurt /\ proc[p].at = "register"
      BY <1>0, <2>2 DEF RegisterCommit, Row
    <3>2. CASE proc[p].alive
      <4>1. /\ proc'[p].alive /\ proc'[p].at = "answered"
            /\ proc'[p].token = proc[p].token /\ proc'[p].answer = minted + 1
        BY <1>0, <2>2, <3>2 DEF RegisterCommit, RunnerProcess
      <4> QED
        BY <1>0, <1>1, <3>1, <4>1 DEF ProcessInv, TokenIsHeld
    <3>3. CASE ~proc[p].alive
      <4>1. proc'[p] = NoProc
        BY <1>0, <2>2, <3>3 DEF RegisterCommit
      <4>2. hurt
        BY <1>0, <3>1, <3>3 DEF ProcessInv
      <4> QED
        BY <1>0, <1>1, <3>1, <4>1, <4>2, NoProcType DEF ProcessInv, TokenIsHeld
    <3> QED
      BY <3>2, <3>3
  <2>3. CASE ReceiveToken(p)
    <3>1. /\ UNCHANGED <<row, hurt>>
          /\ proc[p].alive /\ proc[p].at = "answered"
          /\ proc'[p].alive = proc[p].alive /\ proc'[p].at = "loop"
          /\ proc'[p].token = proc[p].answer
      BY <1>0, <2>3 DEF ReceiveToken, RunnerProcess
    <3>2. proc[p].token = None
      BY <1>0, <3>1 DEF ProcessInv
    <3> QED
      BY <1>0, <1>1, <3>1, <3>2 DEF ProcessInv, TokenIsHeld
  <2>4. CASE HeartbeatAndPoll(p) \/ WriteState(p)
    <3>1. /\ hurt' = hurt /\ proc[p].alive
          /\ proc'[p].alive = proc[p].alive /\ proc'[p].at \in {"loop", "polled"}
          /\ proc'[p].token = proc[p].token /\ proc'[p].answer = proc[p].answer
      BY <1>0, <2>4 DEF HeartbeatAndPoll, Accepted, WriteState, RunnerProcess
    <3>2. row'.token = row.token
      BY <1>0, <2>4 DEF HeartbeatAndPoll, WriteState, Row
    <3> QED
      BY <1>0, <1>1, <3>1, <3>2 DEF ProcessInv, TokenIsHeld
  <2>5. CASE LoseAnswer(p)
    <3>1. /\ hurt' = TRUE /\ proc[p].alive
          /\ proc'[p].alive = proc[p].alive /\ proc'[p].at = "loop"
      BY <1>0, <2>5 DEF LoseAnswer, RunnerProcess
    <3> QED
      BY <1>0, <1>1, <3>1 DEF ProcessInv, TokenIsHeld
  <2> QED
    BY <2>1, <2>2, <2>3, <2>4, <2>5 DEF ProcessStep
<1> QED
  BY <1>2, <1>3, <1>4 DEF Core

LEMMA OtherCoreStep ==
  ASSUME IInv,
         \/ \E i \in Install : Cancel(i) \/ Clear(i) \/ AgeTask(i)
         \/ GetBegin \/ GetCommit \/ Reboot
  PROVE  Core'
<1>0. /\ RequestInv /\ AttemptInv /\ SuccessInv /\ ProcessInv /\ TokenIsHeld
      /\ proc \in [Process -> RunnerProcess] /\ row \in Row
      /\ task \in [Install -> {"none"} \cup Active \cup Terminal]
  BY DEF IInv, Core, TypeOK
<1>1. CASE ~Reboot
  <2>1. UNCHANGED <<enq, worker, proc, queued, hurt>>
    BY <1>1 DEF Cancel, Clear, AgeTask, GetBegin, GetCommit, apiVars, taskVars, hostVars
  <2>2. row'.token = row.token
    <3>1. CASE GetCommit
      BY <1>0, <3>1 DEF GetCommit, Row
    <3>2. CASE ~GetCommit
      BY <1>1, <3>2 DEF Cancel, Clear, AgeTask, GetBegin
    <3> QED
      BY <3>1, <3>2
  <2>3. \A i \in Install : /\ task[i] = "none" => task'[i] = "none"
                           /\ task'[i] = "SUCCESS" => task[i] = "SUCCESS"
    <3>1. CASE GetCommit
      BY <1>0, <3>1 DEF GetCommit
    <3>2. CASE GetBegin
      BY <3>2 DEF GetBegin, taskVars
    <3>3. ASSUME NEW i \in Install, Cancel(i) \/ Clear(i) \/ AgeTask(i)
          PROVE  \A j \in Install : /\ task[j] = "none" => task'[j] = "none"
                                    /\ task'[j] = "SUCCESS" => task[j] = "SUCCESS"
      BY <1>0, <3>3 DEF Cancel, Clear, AgeTask, Active
    <3> QED
      BY <1>1, <3>1, <3>2, <3>3
  <2> QED
    BY <1>0, <2>1, <2>2, <2>3, TokenUntouched
    DEF Core, RequestInv, AttemptInv, SuccessInv
<1>2. CASE Reboot
  <2>1. UNCHANGED <<enq, worker, task, row, queued>> /\ hurt' = TRUE
    BY <1>2 DEF Reboot, apiVars, taskVars
  <2>2. \A p \in Process :
          /\ p # Boot => ~proc'[p].alive
          /\ proc'[p].at \in {"register", "answered"} =>
               proc'[p].token = None
    <3>1. \A q \in RunnerProcess : LET n == [q EXCEPT !.alive = FALSE]
                                   IN  ~n.alive /\ n.at = q.at /\ n.token = q.token
      BY DEF RunnerProcess
    <3>2. Started.at = "loop" /\ NoProc.at = "loop" /\ ~NoProc.alive
      BY StartedType, NoProcType DEF IInv, TypeOK
    <3> QED
      BY <1>0, <1>2, <3>1, <3>2 DEF Reboot, ProcessInv
  <2>3. \A i \in Install, a \in 0..MaxRetries : ~proc'[<<i, a>>].alive
    BY <2>2, BootType, InstallType DEF Boot, None
  <2> QED
    BY <1>0, <2>1, <2>2, <2>3
    DEF Core, RequestInv, AttemptInv, SuccessInv, ProcessInv, TokenIsHeld
<1> QED
  BY <1>1, <1>2

LEMMA InitIInv == Init => IInv
<1> SUFFICES ASSUME Init PROVE Core
  BY TypeInit DEF IInv
<1>1. /\ \A p \in Process : proc[p] = NoProc
      /\ \A i \in Install : enq[i].at = "idle" /\ worker[i].at = "idle" /\ task[i] = "none"
      /\ row.token = None
  BY NoRowType DEF Init, Idle, NoWorker
<1> QED
  BY <1>1, NoProcType, BootType
  DEF Core, RequestInv, AttemptInv, SuccessInv, ProcessInv, TokenIsHeld

LEMMA StepIInv == IInv /\ [Next]_vars => IInv'
<1> SUFFICES ASSUME IInv, [Next]_vars PROVE Core'
  BY TypeStep DEF IInv
<1>1. ASSUME NEW i \in Install, InstallStep(i) PROVE Core'
  BY <1>1, EnqueueCoreStep, WorkerCoreStep, OtherCoreStep DEF InstallStep
<1>2. ASSUME NEW p \in Process, ProcessStep(p) \/ LoseAnswer(p) PROVE Core'
  BY <1>2, ProcessCoreStep
<1>3. CASE GetBegin \/ GetCommit \/ Reboot
  BY <1>3, OtherCoreStep
<1>4. CASE UNCHANGED vars
  BY <1>4 DEF vars, apiVars, taskVars, hostVars, IInv, Core, RequestInv, AttemptInv,
              SuccessInv, ProcessInv, TokenIsHeld
<1> QED
  BY <1>1, <1>2, <1>3, <1>4 DEF Next

-----------------------------------------------------------------------------
(* The theorems *)

(***************************************************************************)
(* Every step keeps every variable in its type, the attempt of a worker    *)
(* within max_retries included (run_runner_install_task).                  *)
(***************************************************************************)
THEOREM TypeCorrect == Spec => []TypeOK
BY TypeInit, TypeStep, PTL DEF Spec

(***************************************************************************)
(* No interleaving of installs, retries, registrations and reads locks the *)
(* host out: a process holds the token of the row, or will receive it.     *)
(***************************************************************************)
THEOREM TokenHeld == Spec => []TokenIsHeld
<1>1. IInv => TokenIsHeld
  BY DEF IInv, Core
<1> QED
  BY <1>1, InitIInv, StepIInv, PTL DEF Spec

(***************************************************************************)
(* A successful install that no later request followed left a registered   *)
(* runner, however often it was retried and whatever read the row.         *)
(***************************************************************************)
THEOREM SuccessRegistered == Spec => []SuccessMeansRegistered
<1>1. IInv => SuccessMeansRegistered
  BY DEF IInv, Core, SuccessInv, SuccessMeansRegistered
<1> QED
  BY <1>1, InitIInv, StepIInv, PTL DEF Spec

=============================================================================
