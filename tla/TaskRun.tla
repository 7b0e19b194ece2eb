------------------------------ MODULE TaskRun ------------------------------
(***************************************************************************)
(* The life of a task_run row and of the Celery task that works for it.    *)
(*                                                                         *)
(* Four kinds of actors share the row and none of them locks it:           *)
(*   - the enqueuer creates the row, publishes the Celery message and      *)
(*     afterwards saves the Celery id (create_task_run, delay,             *)
(*     update_task_run);                                                   *)
(*   - the worker runs the task body between the reports of task_runtime   *)
(*     (tracked_task, set_task_progress, set_task_success, set_task_retry, *)
(*     set_task_failure), each of which reads the row in one statement and *)
(*     commits it in a later one;                                          *)
(*   - API requests cancel a task or clear the list;                       *)
(*   - every GET of the task list first closes the stale active rows.      *)
(* The session has no version column and runs READ COMMITTED, so a commit  *)
(* overwrites whatever was committed since its read.  SQLAlchemy emits     *)
(* only the columns whose value differs from the one read: a report that   *)
(* read RUNNING and sets RUNNING does not write the status.                *)
(***************************************************************************)
EXTENDS Naturals, FiniteSets

CONSTANTS
  Tasks,        \* task_run ids
  Clients,      \* API requests that may be in progress at the same time
  MaxRetries,   \* max_retries of the Celery task
  Stages        \* number of body steps between tracked_task and success

ASSUME TaskRunAssumption ==
  /\ MaxRetries \in Nat
  /\ Stages \in Nat

VARIABLES
  status,       \* status[t]: the row's status; ABSENT before it is created,
                \* DELETED after the list was cleared
  celeryId,     \* celeryId[t]: the row's celery_task_id is set
  stale,        \* stale[t]: the row's updated_at is older than the cutoff
  enq,          \* enq[t]: how far the enqueuer got
  msg,          \* msg[t]: the Celery message is waiting at the broker
  attempt,      \* attempt[t]: self.request.retries of the message
  revoking,     \* revoking[t]: a revoke broadcast on its way to the workers
  revoked,      \* tasks in the workers' list of revoked ids
  worker,       \* worker[t]: the execution of t and its open transaction
  req,          \* req[c]: the API request c and the rows it read
  late          \* late[t]: body steps begun since the row reads CANCELED

rowVars == <<status, celeryId, stale, late>>
brokerVars == <<enq, msg, attempt, revoking, revoked>>
vars == <<rowVars, brokerVars, worker, req>>

Active == {"PENDING", "RUNNING", "RETRY"}
Terminal == {"SUCCESS", "FAILURE", "CANCELED"}
Status == Active \cup Terminal \cup {"ABSENT", "DELETED"}

(***************************************************************************)
(* The reports of task_runtime and the status each one sets.               *)
(***************************************************************************)
Report == {"started", "stage", "success", "retry", "failure"}
Target(r) ==
  CASE r \in {"started", "stage"} -> "RUNNING"
    [] r = "success" -> "SUCCESS"
    [] r = "retry"   -> "RETRY"
    [] r = "failure" -> "FAILURE"
InTryBlock == {"started", "stage", "success"}

Execution == [at: {"idle", "read", "commit", "log", "ensure", "work", "resend"},
              txn: Report, seen: Status, stage: 0..Stages]
Idle == [at |-> "idle", txn |-> "started", seen |-> "ABSENT", stage |-> 0]

Request == [op: {"none", "cancel", "clear", "sweep"},
            todo: SUBSET Tasks, ids: SUBSET Tasks]
NoRequest == [op |-> "none", todo |-> {}, ids |-> {}]

TypeOK ==
  /\ status \in [Tasks -> Status]
  /\ celeryId \in [Tasks -> BOOLEAN]
  /\ stale \in [Tasks -> BOOLEAN]
  /\ enq \in [Tasks -> {"none", "created", "sent", "done"}]
  /\ msg \in [Tasks -> BOOLEAN]
  /\ attempt \in [Tasks -> 0..MaxRetries]
  /\ revoking \in [Tasks -> {"none", "revoke", "terminate"}]
  /\ revoked \in SUBSET Tasks
  /\ worker \in [Tasks -> Execution]
  /\ req \in [Clients -> Request]
  /\ late \in [Tasks -> Nat]

Init ==
  /\ status = [t \in Tasks |-> "ABSENT"]
  /\ celeryId = [t \in Tasks |-> FALSE]
  /\ stale = [t \in Tasks |-> FALSE]
  /\ enq = [t \in Tasks |-> "none"]
  /\ msg = [t \in Tasks |-> FALSE]
  /\ attempt = [t \in Tasks |-> 0]
  /\ revoking = [t \in Tasks |-> "none"]
  /\ revoked = {}
  /\ worker = [t \in Tasks |-> Idle]
  /\ req = [c \in Clients |-> NoRequest]
  /\ late = [t \in Tasks |-> 0]

-----------------------------------------------------------------------------
(***************************************************************************)
(* update_task_run on the rows of S: updated_at becomes now, and status    *)
(* becomes new.  late restarts whenever the status really changes.         *)
(***************************************************************************)
SetStatus(S, new) ==
  /\ status' = [t \in Tasks |-> IF t \in S THEN new ELSE status[t]]
  /\ stale' = [t \in Tasks |-> stale[t] /\ t \notin S]
  /\ late' = [t \in Tasks |->
                IF t \in S /\ status[t] # new THEN 0 ELSE late[t]]

Touch(t) ==
  /\ stale' = [stale EXCEPT ![t] = FALSE]
  /\ UNCHANGED <<status, late>>

Delete(S) ==
  /\ status' = [t \in Tasks |-> IF t \in S THEN "DELETED" ELSE status[t]]
  /\ UNCHANGED <<celeryId, stale, late>>

Rows(S) == {t \in Tasks : status[t] \in S}

-----------------------------------------------------------------------------
(* The enqueuer. *)

CreateTaskRun(t) ==
  /\ status[t] = "ABSENT"
  /\ SetStatus({t}, "PENDING")
  /\ enq' = [enq EXCEPT ![t] = "created"]
  /\ UNCHANGED <<celeryId, msg, attempt, revoking, revoked, worker, req>>

Delay(t) ==
  /\ enq[t] = "created"
  /\ enq' = [enq EXCEPT ![t] = "sent"]
  /\ msg' = [msg EXCEPT ![t] = TRUE]
  /\ UNCHANGED <<rowVars, attempt, revoking, revoked, worker, req>>

(* Mutation: the enqueuer writes the status it read back to the row. *)
SaveCeleryIdWritesStatus(t) ==
  /\ enq[t] = "sent"
  /\ enq' = [enq EXCEPT ![t] = "done"]
  /\ IF status[t] = "DELETED"
       THEN UNCHANGED rowVars
       ELSE /\ SetStatus({t}, "PENDING")
            /\ celeryId' = [celeryId EXCEPT ![t] = TRUE]
  /\ UNCHANGED <<msg, attempt, revoking, revoked, worker, req>>

(***************************************************************************)
(* The row was read as PENDING and is set to PENDING, so the status column *)
(* is not written even when the worker has moved on meanwhile.             *)
(***************************************************************************)
SaveCeleryId(t) ==
  /\ enq[t] = "sent"
  /\ enq' = [enq EXCEPT ![t] = "done"]
  /\ IF status[t] = "DELETED"
       THEN UNCHANGED rowVars
       ELSE Touch(t) /\ celeryId' = [celeryId EXCEPT ![t] = TRUE]
  /\ UNCHANGED <<msg, attempt, revoking, revoked, worker, req>>

(* The broker refuses the message or the process dies: a row without message. *)
EnqueuerDies(t) ==
  /\ enq[t] \in {"created", "sent"}
  /\ enq' = [enq EXCEPT ![t] = "done"]
  /\ UNCHANGED <<rowVars, msg, attempt, revoking, revoked, worker, req>>

-----------------------------------------------------------------------------
(* The broker and the worker pool. *)

Deliver(t) ==
  /\ msg[t]
  /\ worker[t].at = "idle"
  /\ msg' = [msg EXCEPT ![t] = FALSE]
  /\ worker' = IF t \in revoked THEN worker
               ELSE [worker EXCEPT ![t] = [Idle EXCEPT !.at = "read"]]
  /\ UNCHANGED <<rowVars, enq, attempt, revoking, revoked, req>>

(***************************************************************************)
(* control.revoke is a broadcast: it reaches the workers some time after   *)
(* the request that sent it.  With terminate, SIGTERM ends the process     *)
(* that runs the task, and its open transaction is rolled back.            *)
(***************************************************************************)
RevokeArrives(t) ==
  /\ revoking[t] # "none"
  /\ revoked' = revoked \cup {t}
  /\ revoking' = [revoking EXCEPT ![t] = "none"]
  /\ worker' = IF revoking[t] = "terminate"
                 THEN [worker EXCEPT ![t] = Idle] ELSE worker
  /\ UNCHANGED <<rowVars, enq, msg, attempt, req>>

WorkerDies(t) ==
  /\ worker[t].at # "idle"
  /\ worker' = [worker EXCEPT ![t] = Idle]
  /\ UNCHANGED <<rowVars, brokerVars, req>>

-----------------------------------------------------------------------------
(* The worker: where it goes next. *)

Goto(t, at, txn) ==
  worker' = [worker EXCEPT ![t].at = at, ![t].txn = txn, ![t].seen = "ABSENT"]

Stop(t) == worker' = [worker EXCEPT ![t] = Idle]

(* Mutation: one retry too many. *)
RaiseOffByOne(t) ==
  IF worker[t].txn \in InTryBlock
    THEN Goto(t, "read", IF attempt[t] <= MaxRetries THEN "retry" ELSE "failure")
    ELSE Stop(t)

(***************************************************************************)
(* An exception inside the try block goes to the except branch of the      *)
(* Celery task: set_task_retry while retries are left, else                *)
(* set_task_failure.  One raised in the except branch ends the execution.  *)
(***************************************************************************)
Raise(t) ==
  IF worker[t].txn \in InTryBlock
    THEN Goto(t, "read", IF attempt[t] < MaxRetries THEN "retry" ELSE "failure")
    ELSE Stop(t)

Continue(t) ==
  CASE worker[t].txn = "started" -> Goto(t, "ensure", "started")
    [] worker[t].txn = "stage"   -> Goto(t, "work", "stage")
    [] worker[t].txn = "retry"   -> Goto(t, "resend", "retry")
    [] OTHER                     -> Stop(t)

(* Mutation: tracked_task starts a canceled row again. *)
InterruptsAfterStart(r, s) == s = "CANCELED" /\ r \in {"stage", "success"}

(***************************************************************************)
(* The read half of a report: a canceled row raises TaskCanceledError in   *)
(* the reports of the try block, which ends the execution.                 *)
(***************************************************************************)
Interrupts(r, s) == s = "CANCELED" /\ r \in InTryBlock

(* No row, or a row that is already immutable, is passed over in silence. *)
Skips(r, s) == s = "DELETED" \/ (r # "started" /\ s \in Terminal)

ReportRead(t) ==
  LET r == worker[t].txn
      s == status[t]
  IN  /\ worker[t].at = "read"
      /\ \/ Interrupts(r, s) /\ Stop(t)
         \/ ~Interrupts(r, s) /\ Skips(r, s) /\ Continue(t)
         \/ /\ ~Interrupts(r, s) /\ ~Skips(r, s)
            /\ worker' = [worker EXCEPT ![t].at = "commit", ![t].seen = s]
      /\ UNCHANGED <<rowVars, brokerVars, req>>

(***************************************************************************)
(* The commit half.  A row deleted since the read raises StaleDataError.   *)
(***************************************************************************)
ReportCommit(t) ==
  LET w == worker[t]
  IN  /\ w.at = "commit"
      /\ IF status[t] = "DELETED"
           THEN Raise(t) /\ UNCHANGED rowVars
           ELSE /\ Goto(t, "log", w.txn)
                /\ IF w.seen = Target(w.txn)
                     THEN Touch(t) ELSE SetStatus({t}, Target(w.txn))
                /\ celeryId' = [celeryId EXCEPT ![t] = @ \/ w.txn = "started"]
      /\ UNCHANGED <<brokerVars, req>>

(* The event of the report is committed by a second transaction. *)
ReportLog(t) ==
  /\ worker[t].at = "log"
  /\ IF status[t] = "DELETED" THEN Raise(t) ELSE Continue(t)
  /\ UNCHANGED <<rowVars, brokerVars, req>>

EnsureNotCanceled(t) ==
  /\ worker[t].at = "ensure"
  /\ IF status[t] = "CANCELED" THEN Stop(t)
     ELSE Goto(t, "read", IF worker[t].stage < Stages THEN "stage" ELSE "success")
  /\ UNCHANGED <<rowVars, brokerVars, req>>

(* Mutation: two steps of the body with no check between them. *)
BodyStepUnchecked(t) ==
  /\ worker[t].at = "work"
  /\ late' = [late EXCEPT ![t] = IF status[t] = "CANCELED" THEN @ + 1 ELSE @]
  /\ worker' = [worker EXCEPT ![t].stage = @ + 1,
                  ![t].at = IF worker[t].stage + 1 < Stages THEN "work" ELSE "ensure"]
  /\ UNCHANGED <<status, celeryId, stale, brokerVars, req>>

(* One step of the task body (scan, collect, execute): it may raise. *)
BodyStep(t) ==
  /\ worker[t].at = "work"
  /\ late' = [late EXCEPT ![t] = IF status[t] = "CANCELED" THEN @ + 1 ELSE @]
  /\ \/ worker' = [worker EXCEPT ![t].at = "ensure", ![t].stage = @ + 1]
     \/ Raise(t)
  /\ UNCHANGED <<status, celeryId, stale, brokerVars, req>>

(* self.retry publishes the message again and ends the execution. *)
Resend(t) ==
  /\ worker[t].at = "resend"
  /\ msg' = [msg EXCEPT ![t] = TRUE]
  /\ attempt' = [attempt EXCEPT ![t] = @ + 1]
  /\ Stop(t)
  /\ UNCHANGED <<rowVars, enq, revoking, revoked, req>>

-----------------------------------------------------------------------------
(* API requests.  Each reads rows first and writes them later. *)

Finish(c) == req' = [req EXCEPT ![c] = NoRequest]

(* The revoke sent for every row of S that has a Celery id. *)
Revoke(S) ==
  revoking' = [t \in Tasks |->
    IF t \notin S \/ ~celeryId[t] THEN revoking[t]
    ELSE IF status[t] \in {"RUNNING", "RETRY"} THEN "terminate"
    ELSE IF revoking[t] = "terminate" THEN "terminate" ELSE "revoke"]

CancelRead(c, t) ==
  /\ req[c].op = "none"
  /\ status[t] \in Active
  /\ Revoke({t})
  /\ req' = [req EXCEPT ![c] = [op |-> "cancel", todo |-> {t}, ids |-> {}]]
  /\ UNCHANGED <<rowVars, enq, msg, attempt, revoked, worker>>

(***************************************************************************)
(* DELETE /tasks?include_active=true: revoke the active rows it matched,   *)
(* cancel each of them, delete all of them.  A failed revoke ends the      *)
(* request after part of the broadcasts went out.                          *)
(***************************************************************************)
ClearFilters == {Active \cup Terminal} \cup {{s} : s \in Active \cup Terminal}

ClearRead(c) ==
  /\ req[c].op = "none"
  /\ \E F \in ClearFilters :
       /\ Rows(F) # {}
       /\ \/ /\ Revoke(Rows(F \cap Active))
             /\ req' = [req EXCEPT ![c] =
                  [op |-> "clear", todo |-> Rows(F \cap Active), ids |-> Rows(F)]]
          \/ /\ \E S \in SUBSET Rows(F \cap Active) : Revoke(S)
             /\ UNCHANGED req
  /\ UNCHANGED <<rowVars, enq, msg, attempt, revoked, worker>>

(***************************************************************************)
(* cancel_task_run: status and event in one commit.  The status it read    *)
(* is not compared again.                                                  *)
(***************************************************************************)
CancelWrite(c) ==
  /\ req[c].op \in {"cancel", "clear"}
  /\ \E t \in req[c].todo :
       IF status[t] = "DELETED"
         THEN Finish(c) /\ UNCHANGED rowVars
         ELSE /\ SetStatus({t}, "CANCELED")
              /\ IF req[c].op = "cancel" THEN Finish(c)
                 ELSE req' = [req EXCEPT ![c].todo = @ \ {t}]
              /\ UNCHANGED celeryId
  /\ UNCHANGED <<brokerVars, worker>>

ClearDelete(c) ==
  /\ req[c].op = "clear"
  /\ req[c].todo = {}
  /\ Delete(req[c].ids)
  /\ Finish(c)
  /\ UNCHANGED <<brokerVars, worker>>

(***************************************************************************)
(* DELETE /tasks without include_active: one statement, no revoke.  With a *)
(* status filter it deletes active rows too.                               *)
(***************************************************************************)
ClearTaskRuns ==
  /\ \E F \in {Terminal} \cup {{s} : s \in Active \cup Terminal} :
       Rows(F) # {} /\ Delete(Rows(F))
  /\ UNCHANGED <<brokerVars, worker, req>>

(* Time passes: an active row was not written for longer than the cutoff. *)
Age(t) ==
  /\ status[t] \in Active
  /\ ~stale[t]
  /\ stale' = [stale EXCEPT ![t] = TRUE]
  /\ UNCHANGED <<status, celeryId, late, brokerVars, worker, req>>

(* Mutation: the sweep forgets the rows that never started. *)
SweepReadRunningOnly(c) ==
  /\ req[c].op = "none"
  /\ \E t \in Rows({"RUNNING"}) : stale[t]
  /\ req' = [req EXCEPT ![c] =
       [op |-> "sweep", todo |-> {t \in Rows({"RUNNING"}) : stale[t]}, ids |-> {}]]
  /\ UNCHANGED <<rowVars, brokerVars, worker>>

SweepRead(c) ==
  /\ req[c].op = "none"
  /\ \E t \in Rows(Active) : stale[t]
  /\ req' = [req EXCEPT ![c] =
       [op |-> "sweep", todo |-> {t \in Rows(Active) : stale[t]}, ids |-> {}]]
  /\ UNCHANGED <<rowVars, brokerVars, worker>>

(* One commit for all of them; it fails as a whole if one row is gone. *)
SweepWrite(c) ==
  /\ req[c].op = "sweep"
  /\ IF \E t \in req[c].todo : status[t] = "DELETED"
       THEN UNCHANGED rowVars
       ELSE SetStatus(req[c].todo, "FAILURE") /\ UNCHANGED celeryId
  /\ Finish(c)
  /\ UNCHANGED <<brokerVars, worker>>

-----------------------------------------------------------------------------
WorkerStep(t) ==
  \/ ReportRead(t) \/ ReportCommit(t) \/ ReportLog(t)
  \/ EnsureNotCanceled(t) \/ BodyStep(t) \/ Resend(t)

RequestStep(c) == CancelWrite(c) \/ ClearDelete(c) \/ SweepWrite(c)

Next ==
  \/ \E t \in Tasks :
       \/ CreateTaskRun(t) \/ Delay(t) \/ SaveCeleryId(t) \/ EnqueuerDies(t)
       \/ Deliver(t) \/ RevokeArrives(t) \/ WorkerDies(t)
       \/ WorkerStep(t) \/ Age(t)
  \/ \E c \in Clients :
       \/ \E t \in Tasks : CancelRead(c, t)
       \/ ClearRead(c) \/ SweepRead(c) \/ RequestStep(c)
  \/ ClearTaskRuns

Spec == Init /\ [][Next]_vars

(***************************************************************************)
(* The enqueuer and the workers run until they die, requests end, rows get *)
(* old, and the clients keep polling the task list.                        *)
(***************************************************************************)
Fairness ==
  /\ \A t \in Tasks :
       /\ WF_vars(Delay(t)) /\ WF_vars(SaveCeleryId(t))
       /\ WF_vars(Deliver(t)) /\ WF_vars(WorkerStep(t))
       /\ WF_vars(Age(t))
  /\ \A c \in Clients : WF_vars(RequestStep(c)) /\ WF_vars(SweepRead(c))

FairSpec == Spec /\ Fairness

-----------------------------------------------------------------------------
(* Properties *)

(***************************************************************************)
(* Once the row reads CANCELED, the worker begins at most the one body     *)
(* step it had already been cleared for: ensure_task_not_canceled and the  *)
(* guards of the reports stop it before the next one.                      *)
(***************************************************************************)
AtMostOneLateStep == \A t \in Tasks : late[t] <= 1

(* A transaction on t is open whose read is older than the cancel. *)
ReadBeforeCancel(t) ==
  \/ worker[t].at = "commit" /\ worker[t].seen # "CANCELED"
  \/ \E c \in Clients : req[c].op = "sweep" /\ t \in req[c].todo

(***************************************************************************)
(* The only way to lose a cancel is a transaction that read the row before *)
(* it: no report and no sweep that starts afterwards brings the row back.  *)
(***************************************************************************)
CancelLostOnlyToEarlierRead ==
  [][\A t \in Tasks :
       status[t] = "CANCELED" /\ status'[t] \notin {"CANCELED", "DELETED"}
         => ReadBeforeCancel(t)]_vars

(***************************************************************************)
(* The contract of TaskLifecycle.                                          *)
(***************************************************************************)
Lifecycle == INSTANCE TaskLifecycle WITH
  life <- [t \in Tasks |->
             IF status[t] \in Active THEN "open"
             ELSE IF status[t] \in Terminal THEN "closed"
             ELSE IF status[t] = "ABSENT" THEN "absent" ELSE "gone"],
  live <- [t \in Tasks |->
             enq[t] = "created" \/ msg[t] \/ worker[t].at # "idle"]

(***************************************************************************)
(* A row that nothing can run any more never leaves its closed status.     *)
(***************************************************************************)
ImplementsLifecycle == Lifecycle!Spec

(***************************************************************************)
(* No row stays PENDING, RUNNING or RETRY for ever: messages lost, workers *)
(* killed and requests that failed half-way are repaired by the sweep.     *)
(***************************************************************************)
EveryTaskSettles == Lifecycle!Settles
=============================================================================
