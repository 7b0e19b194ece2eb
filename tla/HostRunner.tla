----------------------------- MODULE HostRunner -----------------------------
(***************************************************************************)
(* The host runner of one asset: the installs that are queued for it, the  *)
(* host_runners row, the Celery task that installs the bundle by SSH, and  *)
(* the processes on the host that register and report.                     *)
(*                                                                         *)
(* An install hands the host a key to register with once.  Registration    *)
(* takes the key away and gives the process a token, the only thing the    *)
(* platform accepts from then on.  The row is shared by the enqueuer, the  *)
(* worker, the registration, the heartbeats and every GET of the runner,   *)
(* and nobody locks it.  A transaction that decides on what it read is two *)
(* steps, its read and its commit; the commit writes the columns whose     *)
(* value it changed.  A transaction that only assigns is one step.         *)
(*                                                                         *)
(* A report of the task is one step here; TaskRun takes it apart.          *)
(***************************************************************************)
EXTENDS Naturals, Sequences

CONSTANTS
  MaxInstalls,   \* bound: requests to install, in the order they arrive
  MaxRetries,    \* max_retries of run_runner_install_task
  Modes,         \* how the host may keep the service: {"systemd", "detached"}
  Events         \* what else may happen: see the section on the environment

ASSUME HostRunnerAssumption ==
  /\ MaxInstalls \in Nat /\ MaxRetries \in Nat
  /\ Modes \subseteq {"systemd", "detached"}
  /\ Events \subseteq {"cancel", "clear", "lost", "reboot"}

Install == 1..MaxInstalls
Process == (Install \X (0..MaxRetries)) \cup {<<0, 0>>}
Boot == <<0, 0>>   \* the process that a reboot of the host starts
None == 0          \* no key, no token, no install

VARIABLES
  row,      \* the host_runners row of the asset
  enq,      \* enq[i]: the request that queues install i
  task,     \* task[i]: status of its task row, "none" without one
  created,  \* the installs in the order in which their tasks were created
  old,      \* the tasks whose updated_at is past the stale limit
  worker,   \* worker[i]: the Celery task, its message included
  reader,   \* a GET of the runner
  mode,     \* how the host keeps the service
  disk,     \* bootstrap.env and state.env of the host
  proc,     \* proc[p]: the process that attempt p started
  minted,   \* how many tokens were generated
  queued,   \* history: the install whose request committed the row last
  hurt      \* history: an answer was lost or the host was rebooted

apiVars == <<enq, reader>>
taskVars == <<task, created, old, worker>>
hostVars == <<mode, disk, proc, minted>>
vars == <<row, apiVars, taskVars, hostVars, queued, hurt>>

-----------------------------------------------------------------------------
(* Data *)

InstallStatus == {"installing", "installed", "failed", "canceled"}

(***************************************************************************)
(* key and token stand for registration_token_hash and token_hash, seen    *)
(* tells whether last_seen_at is set.  status is left out: it is shown as  *)
(* offline once last_seen_at is old and decides nothing here.              *)
(***************************************************************************)
Row == [exists: BOOLEAN, key: 0..MaxInstalls, token: Nat,
        install: InstallStatus, seen: BOOLEAN]
NoRow == [exists |-> FALSE, key |-> None, token |-> None,
          install |-> "installing", seen |-> FALSE]

Active == {"PENDING", "RUNNING", "RETRY"}
Terminal == {"SUCCESS", "FAILURE", "CANCELED"}

EnqStep == {"idle", "commit", "create", "send", "done"}
WorkerStep == {"idle", "start", "install", "activate", "wait", "read", "save",
               "finish", "except", "failed", "canceled"}
Request == [at: EnqStep, view: Row]
Idle == [at |-> "idle", view |-> NoRow]
Execution == [at: WorkerStep, attempt: 0..MaxRetries, view: InstallStatus]
NoWorker == [at |-> "idle", attempt |-> 0, view |-> "installing"]
Get == [at: {"idle", "commit"}, view: InstallStatus,
        new: InstallStatus, fail: 0..MaxInstalls]
NoReader == [at |-> "idle", view |-> "installing", new |-> "installing", fail |-> None]

(***************************************************************************)
(* A process without a token registers with the key of its bundle.  The    *)
(* request may outlive the process: the platform works on it all the same. *)
(***************************************************************************)
ProcStep == {"loop", "register", "answered", "polled"}
RunnerProcess == [alive: BOOLEAN, at: ProcStep, key: 0..MaxInstalls,
                  token: Nat, view: InstallStatus, answer: Nat]
NoProc == [alive |-> FALSE, at |-> "loop", key |-> None, token |-> None,
           view |-> "installing", answer |-> None]

TypeOK ==
  /\ row \in Row
  /\ enq \in [Install -> Request]
  /\ task \in [Install -> {"none"} \cup Active \cup Terminal]
  /\ created \in Seq(Install)
  /\ old \subseteq Install
  /\ worker \in [Install -> Execution]
  /\ reader \in Get
  /\ mode \in Modes
  /\ disk \in [key: 0..MaxInstalls, token: Nat]
  /\ proc \in [Process -> RunnerProcess]
  /\ minted \in Nat
  /\ queued \in 0..MaxInstalls
  /\ hurt \in BOOLEAN

Init ==
  /\ row = NoRow
  /\ enq = [i \in Install |-> Idle]
  /\ task = [i \in Install |-> "none"]
  /\ created = <<>>
  /\ old = {}
  /\ worker = [i \in Install |-> NoWorker]
  /\ reader = NoReader
  /\ mode \in Modes
  /\ disk = [key |-> None, token |-> None]
  /\ proc = [p \in Process |-> NoProc]
  /\ minted = 0
  /\ queued = None
  /\ hurt = FALSE

-----------------------------------------------------------------------------
(* The row *)

(***************************************************************************)
(* What a transaction leaves in a column it read as before and assigned    *)
(* new: SQLAlchemy writes a column only when the two differ.  Steps keep   *)
(* what was read of the columns for which this matters.                    *)
(***************************************************************************)
Column(before, new, now) == IF new # before THEN new ELSE now

(* Mutation: last_seen_at taken as evidence of a registration. *)
RegisteredIfSeen(r) == r.seen

(* A runner is registered as long as the row holds the hash of its token. *)
Registered(r) == r.token # None

-----------------------------------------------------------------------------
(* The request that queues an install. *)

EnqueueBegin(i) ==
  /\ enq[i].at = "idle"
  /\ \A j \in 1..(i - 1) : enq[j].at # "idle"
  /\ enq' = [enq EXCEPT ![i] = [at |-> "commit", view |-> row]]
  /\ UNCHANGED <<row, reader, taskVars, hostVars, queued, hurt>>

(***************************************************************************)
(* A new key, no token, installing.  The first install inserts the row and *)
(* fails when another request inserted it meanwhile.                       *)
(***************************************************************************)
EnqueueCommit(i) ==
  LET view == enq[i].view
      clash == row.exists /\ ~view.exists
  IN  /\ enq[i].at = "commit"
      /\ row' = IF clash THEN row
                ELSE [row EXCEPT !.exists = TRUE, !.key = i,
                        !.token = Column(view.token, None, @),
                        !.install = Column(view.install, "installing", @)]
      /\ queued' = IF clash THEN queued ELSE i
      /\ enq' = [enq EXCEPT ![i] = [Idle EXCEPT !.at = IF clash THEN "done" ELSE "create"]]
      /\ UNCHANGED <<reader, taskVars, hostVars, hurt>>

CreateTaskRun(i) ==
  /\ enq[i].at = "create"
  /\ task' = [task EXCEPT ![i] = "PENDING"]
  /\ created' = Append(created, i)
  /\ enq' = [enq EXCEPT ![i].at = "send"]
  /\ UNCHANGED <<row, reader, old, worker, hostVars, queued, hurt>>

Delay(i) ==
  /\ enq[i].at = "send"
  /\ worker' = [worker EXCEPT ![i].at = "start"]
  /\ enq' = [enq EXCEPT ![i].at = "done"]
  /\ UNCHANGED <<row, reader, task, created, old, hostVars, queued, hurt>>

-----------------------------------------------------------------------------
(* The Celery task *)

(* A report sets a row that is there and not yet closed. *)
Report(i, new) ==
  IF task[i] \in Active
    THEN task' = [task EXCEPT ![i] = new] /\ old' = old \ {i}
    ELSE UNCHANGED <<task, old>>

Goto(i, at) == worker' = [worker EXCEPT ![i].at = at, ![i].view = "installing"]

(***************************************************************************)
(* tracked_task makes a row RUNNING that the stale check already failed;   *)
(* the checks and the progress up to the installation find it RUNNING.     *)
(***************************************************************************)
WorkerStart(i) ==
  /\ worker[i].at = "start"
  /\ IF task[i] = "CANCELED"
       THEN Goto(i, "canceled") /\ UNCHANGED <<task, old>>
       ELSE /\ Goto(i, "install")
            /\ IF task[i] = "none"
                 THEN UNCHANGED <<task, old>>
                 ELSE task' = [task EXCEPT ![i] = "RUNNING"] /\ old' = old \ {i}
  /\ UNCHANGED <<row, apiVars, created, hostVars, queued, hurt>>

(***************************************************************************)
(* SSH, the upload and the first half of install.sh: bootstrap.env is the  *)
(* new one, state.env and the PID file are gone.  All of it may fail.      *)
(***************************************************************************)
Unpack(i) ==
  /\ worker[i].at = "install"
  /\ \/ /\ task[i] = "CANCELED"
        /\ Goto(i, "canceled")
        /\ UNCHANGED disk
     \/ /\ task[i] # "CANCELED"
        /\ Goto(i, "activate")
        /\ disk' = [key |-> i, token |-> None]
     \/ /\ task[i] # "CANCELED"
        /\ Goto(i, "except")
        /\ UNCHANGED disk
  /\ UNCHANGED <<row, apiVars, task, created, old, mode, proc, minted, queued, hurt>>

Running == {p \in Process : proc[p].alive}

(* A process reads bootstrap.env and state.env once, when it starts. *)
Started == [NoProc EXCEPT !.alive = TRUE, !.key = disk.key, !.token = disk.token]

(* Mutation: the old process is killed before the PID file is removed. *)
ActivateKillsOld(i) ==
  /\ worker[i].at = "activate"
  /\ Goto(i, "wait")
  /\ proc' = [p \in Process |->
                IF p = <<i, worker[i].attempt>> THEN Started ELSE NoProc]
  /\ UNCHANGED <<row, apiVars, task, created, old, mode, disk, minted, queued, hurt>>

(***************************************************************************)
(* systemctl enable --now starts the unit when it does not run and leaves  *)
(* it alone when it does; the other modes start a process in any case,     *)
(* because the PID file that names the old one is already removed.         *)
(***************************************************************************)
Activate(i) ==
  /\ worker[i].at = "activate"
  /\ \/ /\ Goto(i, "wait")
        /\ proc' = IF mode = "systemd" /\ Running # {} THEN proc
                   ELSE [proc EXCEPT ![<<i, worker[i].attempt>>] = Started]
     \/ Goto(i, "except") /\ UNCHANGED proc
  /\ UNCHANGED <<row, apiVars, task, created, old, mode, disk, minted, queued, hurt>>

(* _wait_for_runner_registration sees the token, or gives up after 40 s. *)
WaitForRegistration(i) ==
  /\ worker[i].at = "wait"
  /\ Goto(i, IF Registered(row) /\ row.seen THEN "read" ELSE "except")
  /\ UNCHANGED <<row, apiVars, task, created, old, hostVars, queued, hurt>>

(* run_runner_install reads the row again and saves it as installed. *)
SaveBegin(i) ==
  /\ worker[i].at = "read"
  /\ IF Registered(row)
       THEN worker' = [worker EXCEPT ![i].at = "save", ![i].view = row.install]
       ELSE Goto(i, "except")
  /\ UNCHANGED <<row, apiVars, task, created, old, hostVars, queued, hurt>>

SaveCommit(i) ==
  /\ worker[i].at = "save"
  /\ row' = [row EXCEPT !.install = Column(worker[i].view, "installed", @)]
  /\ Goto(i, "finish")
  /\ UNCHANGED <<apiVars, task, created, old, hostVars, queued, hurt>>

(* ensure_task_not_canceled, the last progress and set_task_success. *)
WorkerFinish(i) ==
  /\ worker[i].at = "finish"
  /\ IF task[i] = "CANCELED"
       THEN Goto(i, "canceled") /\ UNCHANGED <<task, old>>
       ELSE Goto(i, "idle") /\ Report(i, "SUCCESS")
  /\ UNCHANGED <<row, apiVars, created, hostVars, queued, hurt>>

(* Mutation: one retry too many. *)
WorkerExceptOffByOne(i) ==
  /\ worker[i].at = "except"
  /\ IF worker[i].attempt <= MaxRetries
       THEN /\ Report(i, "RETRY")
            /\ worker' = [worker EXCEPT ![i].at = "start", ![i].attempt = @ + 1]
       ELSE Report(i, "FAILURE") /\ Goto(i, "failed")
  /\ UNCHANGED <<row, apiVars, created, hostVars, queued, hurt>>

(***************************************************************************)
(* except Exception: a report while retries are left, and the message      *)
(* again; else failure.  TaskCanceledError of the report leaves the task.  *)
(***************************************************************************)
WorkerExcept(i) ==
  /\ worker[i].at = "except"
  /\ IF task[i] = "CANCELED"
       THEN Goto(i, "idle") /\ UNCHANGED <<task, old>>
       ELSE IF worker[i].attempt < MaxRetries
         THEN /\ Report(i, "RETRY")
              /\ worker' = [worker EXCEPT ![i].at = "start", ![i].attempt = @ + 1]
         ELSE Report(i, "FAILURE") /\ Goto(i, "failed")
  /\ UNCHANGED <<row, apiVars, created, hostVars, queued, hurt>>

(* record_runner_install_failure and record_runner_install_canceled. *)
RecordOutcome(i) ==
  /\ worker[i].at \in {"failed", "canceled"}
  /\ row' = [row EXCEPT !.install = worker[i].at]
  /\ Goto(i, "idle")
  /\ UNCHANGED <<apiVars, task, created, old, hostVars, queued, hurt>>

WorkerStepOf(i) ==
  \/ WorkerStart(i) \/ Unpack(i) \/ Activate(i) \/ WaitForRegistration(i)
  \/ SaveBegin(i) \/ SaveCommit(i) \/ WorkerFinish(i) \/ WorkerExcept(i)
  \/ RecordOutcome(i)

-----------------------------------------------------------------------------
(* GET of the runner: resolve_runner_by_asset_for_read repairs the row. *)

NoTask == \A i \in Install : task[i] = "none"

(* The task row created last, of those still there. *)
IsLatestTask(t) ==
  \/ t = None /\ NoTask
  \/ \E n \in DOMAIN created :
       /\ t = created[n] /\ task[t] # "none"
       /\ \A m \in DOMAIN created : m > n => task[created[m]] = "none"

(* Mutation: a task that is silent for too long is left alone. *)
RepairedInstallNeverStale(r, t) ==
  CASE Registered(r) -> "installed"
    [] r.install # "installing" \/ t = None -> r.install
    [] task[t] = "CANCELED" -> "canceled"
    [] task[t] \in {"FAILURE", "SUCCESS"} -> "failed"
    [] OTHER -> "installing"

(* Mutation: only an install that is still open is repaired. *)
RepairedInstallOnlyOpen(r, t) ==
  CASE r.install # "installing" \/ t = None -> r.install
    [] Registered(r) -> "installed"
    [] task[t] = "CANCELED" -> "canceled"
    [] task[t] \in {"FAILURE", "SUCCESS"} \/ t \in old -> "failed"
    [] OTHER -> "installing"

(***************************************************************************)
(* What the read makes of an install that is still open: the outcome of    *)
(* its task, failed when the task ended without a registration, failed     *)
(* together with the task when nothing was heard of it for too long.       *)
(***************************************************************************)
RepairedInstall(r, t) ==
  CASE Registered(r) -> "installed"
    [] r.install # "installing" \/ t = None -> r.install
    [] task[t] = "CANCELED" -> "canceled"
    [] task[t] \in {"FAILURE", "SUCCESS"} \/ t \in old -> "failed"
    [] OTHER -> "installing"

GetBegin ==
  /\ reader.at = "idle"
  /\ row.exists
  /\ \E t \in Install \cup {None} :
       /\ IsLatestTask(t)
       /\ RepairedInstall(row, t) # row.install
       /\ reader' =
            [at |-> "commit", view |-> row.install, new |-> RepairedInstall(row, t),
             fail |-> IF ~Registered(row) /\ task[t] \in Active THEN t ELSE None]
  /\ UNCHANGED <<row, enq, taskVars, hostVars, queued, hurt>>

(* A task row deleted since the read fails the transaction. *)
GetCommit ==
  LET t == reader.fail
  IN  /\ reader.at = "commit"
      /\ reader' = NoReader
      /\ IF t # None /\ task[t] = "none"
           THEN UNCHANGED <<row, task, old>>
           ELSE /\ row' = [row EXCEPT !.install = Column(reader.view, reader.new, @)]
                /\ task' = IF t = None THEN task ELSE [task EXCEPT ![t] = "FAILURE"]
                /\ old' = old \ {t}
      /\ UNCHANGED <<enq, created, worker, hostVars, queued, hurt>>

-----------------------------------------------------------------------------
(* The processes on the host *)

(***************************************************************************)
(* register_runner: the key must be the one of the row.  A process whose   *)
(* key is refused asks again and again and changes nothing.                *)
(***************************************************************************)
RegisterBegin(p) ==
  /\ proc[p].alive
  /\ proc[p].at = "loop"
  /\ proc[p].token = None
  /\ row.exists
  /\ proc[p].key # None
  /\ proc[p].key = row.key
  /\ proc' = [proc EXCEPT ![p].at = "register", ![p].view = row.install]
  /\ UNCHANGED <<row, apiVars, taskVars, mode, disk, minted, queued, hurt>>

RegisterCommit(p) ==
  /\ proc[p].at = "register"
  /\ minted' = minted + 1
  /\ row' = [row EXCEPT !.key = None, !.token = minted + 1, !.seen = TRUE,
                        !.install = Column(proc[p].view, "installed", @)]
  /\ proc' = [proc EXCEPT ![p] = IF @.alive
                THEN [@ EXCEPT !.at = "answered", !.view = "installing",
                               !.answer = minted + 1]
                ELSE NoProc]
  /\ UNCHANGED <<apiVars, taskVars, mode, disk, queued, hurt>>

(* The process keeps its token in memory and in state.env. *)
ReceiveToken(p) ==
  /\ proc[p].alive
  /\ proc[p].at = "answered"
  /\ proc' = [proc EXCEPT ![p].at = "loop", ![p].token = proc[p].answer,
                          ![p].answer = None]
  /\ disk' = [disk EXCEPT !.token = proc[p].answer]
  /\ UNCHANGED <<row, apiVars, taskVars, mode, minted, queued, hurt>>

(* The platform knows the token: authenticate_runner. *)
Accepted(p) ==
  /\ proc[p].alive
  /\ proc[p].token # None
  /\ proc[p].token = row.token

(***************************************************************************)
(* A heartbeat and a poll: seen now.  The answer of the poll makes         *)
(* the process write state.env again.                                      *)
(***************************************************************************)
HeartbeatAndPoll(p) ==
  /\ Accepted(p)
  /\ proc[p].at = "loop"
  /\ row' = [row EXCEPT !.seen = TRUE]
  /\ proc' = [proc EXCEPT ![p].at = "polled"]
  /\ UNCHANGED <<apiVars, taskVars, mode, disk, minted, queued, hurt>>

WriteState(p) ==
  /\ proc[p].alive
  /\ proc[p].at = "polled"
  /\ proc' = [proc EXCEPT ![p].at = "loop"]
  /\ disk' = [disk EXCEPT !.token = proc[p].token]
  /\ UNCHANGED <<row, apiVars, taskVars, mode, minted, queued, hurt>>

ProcessStep(p) ==
  \/ RegisterBegin(p) \/ RegisterCommit(p) \/ ReceiveToken(p)
  \/ HeartbeatAndPoll(p) \/ WriteState(p)

-----------------------------------------------------------------------------
(* The environment.  A worker, an enqueuer or a process that dies is one    *)
(* that takes no further step: no fairness is assumed of any of them.       *)

(* cancel_task: the row; the revoke is TaskRun's. *)
Cancel(i) ==
  /\ "cancel" \in Events
  /\ task[i] \in Active
  /\ task' = [task EXCEPT ![i] = "CANCELED"]
  /\ old' = old \ {i}
  /\ UNCHANGED <<row, apiVars, created, worker, hostVars, queued, hurt>>

Clear(i) ==
  /\ "clear" \in Events
  /\ task[i] # "none"
  /\ task' = [task EXCEPT ![i] = "none"]
  /\ old' = old \ {i}
  /\ UNCHANGED <<row, apiVars, created, worker, hostVars, queued, hurt>>

(* The stale limit of a task runs out. *)
AgeTask(i) ==
  /\ task[i] \in Active
  /\ old' = old \cup {i}
  /\ UNCHANGED <<row, apiVars, task, created, worker, hostVars, queued, hurt>>

(* The answer to a registration is lost on its way: the key is gone. *)
LoseAnswer(p) ==
  /\ "lost" \in Events
  /\ proc[p].alive
  /\ proc[p].at = "answered"
  /\ proc' = [proc EXCEPT ![p].at = "loop", ![p].answer = None]
  /\ hurt' = TRUE
  /\ UNCHANGED <<row, apiVars, taskVars, mode, disk, minted, queued>>

(***************************************************************************)
(* The host reboots: the processes die, an enabled service starts again.   *)
(* A registration that reached the platform is committed all the same.     *)
(***************************************************************************)
Reboot ==
  /\ "reboot" \in Events
  /\ ~hurt
  /\ Running # {}
  /\ \E again \in (IF mode = "systemd" THEN {TRUE} ELSE BOOLEAN) :
     proc' = [p \in Process |->
                IF p = Boot /\ again THEN Started
                ELSE IF proc[p].at = "register" THEN [proc[p] EXCEPT !.alive = FALSE]
                ELSE NoProc]
  /\ hurt' = TRUE
  /\ UNCHANGED <<row, apiVars, taskVars, mode, disk, minted, queued>>

InstallStep(i) ==
  \/ EnqueueBegin(i) \/ EnqueueCommit(i) \/ CreateTaskRun(i) \/ Delay(i)
  \/ WorkerStepOf(i) \/ Cancel(i) \/ Clear(i) \/ AgeTask(i)

Next ==
  \/ \E i \in Install : InstallStep(i)
  \/ \E p \in Process : ProcessStep(p) \/ LoseAnswer(p)
  \/ GetBegin \/ GetCommit \/ Reboot

Spec == Init /\ [][Next]_vars

(***************************************************************************)
(* Clients read the runner again and again (the page polls it), a request  *)
(* that read commits, and time passes.  Nothing is assumed of the worker,  *)
(* the enqueuer or the host.                                               *)
(***************************************************************************)
Fairness ==
  /\ WF_vars(GetBegin)
  /\ WF_vars(GetCommit)
  /\ \A i \in Install : WF_vars(AgeTask(i))

FairSpec == Spec /\ Fairness

-----------------------------------------------------------------------------
(* Properties *)

(***************************************************************************)
(* Whatever token the row accepts is in the hands of a process that runs,  *)
(* or on its way to one, as long as no answer is lost and the host is not  *)
(* rebooted: attempts, retries and installs that overlap, late             *)
(* registrations and removals of state.env never lock the host out         *)
(* (register_runner, start_detached after reset_runtime_state).            *)
(***************************************************************************)
TokenIsHeld ==
  row.token # None /\ ~hurt =>
    \E p \in Process :
      /\ proc[p].alive
      /\ row.token \in {proc[p].token, proc[p].answer}

(***************************************************************************)
(* An install that succeeded and was not followed by another request left  *)
(* a registered runner: last_seen_at of an earlier install is no evidence  *)
(* and no GET, late report or other worker takes the registration away     *)
(* (_wait_for_runner_registration, run_runner_install).                    *)
(***************************************************************************)
SuccessMeansRegistered ==
  \A i \in Install : task[i] = "SUCCESS" /\ queued = i => row.token # None

Installing == row.exists /\ row.install = "installing"

(***************************************************************************)
(* A runner shown as installing does not stay so while one of the tasks    *)
(* that install it is on record, whatever happens to the enqueuer, the     *)
(* worker and the host (resolve_runner_by_asset_for_read).                 *)
(***************************************************************************)
InstallSettles == Installing ~> (~Installing \/ NoTask)

(***************************************************************************)
(* A runner that registered is shown as installed in the end, even when a  *)
(* worker that gave up or a GET that read before wrote failed or canceled. *)
(***************************************************************************)
RegisteredIsShown ==
  Registered(row) ~> (row.install = "installed" \/ ~Registered(row))

(***************************************************************************)
(* The worker waits for a registration only after the service it installed *)
(* was started: "Host Runner 服务已在目标主机启动" is the event that it    *)
(* writes at runner_service.py:2779.                                       *)
(***************************************************************************)
InstallStartsTheBundle ==
  \A i \in Install : worker[i].at = "wait" =>
    proc[<<i, worker[i].attempt>>] # NoProc \/ hurt

=============================================================================
