--------------------------- MODULE TaskRunProofs ---------------------------
(***************************************************************************)
(* Theorems about TaskRun, for any set of tasks and of API requests, any   *)
(* number of retries and of body stages.                                   *)
(*                                                                         *)
(* IInv is the inductive invariant.  RowBeforeWork is what the refinement  *)
(* needs: nothing acts for a row that was not created.  WorkerInv says     *)
(* where the execution can be for each report, and that an open            *)
(* transaction never read CANCELED.  LateInv is AtMostOneLateStep made     *)
(* inductive: a worker that already began a step on a canceled row is not  *)
(* on the path to another one.                                             *)
(***************************************************************************)
EXTENDS TaskRun, TLAPS

RowBeforeWork == \A t \in Tasks :
  status[t] = "ABSENT" =>
    /\ enq[t] = "none" /\ ~msg[t] /\ worker[t].at = "idle"
    /\ \A c \in Clients : t \notin req[c].todo /\ t \notin req[c].ids

WorkerInv == \A t \in Tasks :
  /\ worker[t].at = "commit" => worker[t].seen \notin {"CANCELED", "DELETED"}
  /\ worker[t].at = "work" => worker[t].txn = "stage"
  /\ worker[t].at = "resend" => worker[t].txn = "retry"
  /\ worker[t].txn = "stage" /\ worker[t].at # "ensure" => worker[t].stage < Stages
  /\ worker[t].txn = "retry" => attempt[t] < MaxRetries

LateInv == \A t \in Tasks :
  /\ late[t] <= 1
  /\ late[t] = 1 /\ status[t] = "CANCELED"
       => worker[t].at \in {"idle", "ensure", "read", "resend"}

IInv == TypeOK /\ RowBeforeWork /\ WorkerInv /\ LateInv

-----------------------------------------------------------------------------
LEMMA TargetType == \A r \in Report : Target(r) \in {"RUNNING", "SUCCESS", "RETRY", "FAILURE"}
  BY DEF Report, Target

LEMMA IdleType == Idle \in Execution
  BY TaskRunAssumption DEF Idle, Execution, Report, Status, Active, Terminal

LEMMA InitIInv == Init => IInv
  BY TaskRunAssumption, IdleType DEF Init, IInv, TypeOK, RowBeforeWork,
     WorkerInv, LateInv, Status, Active, Terminal, Idle, Request, NoRequest

(* An enqueuer step keeps the invariant. *)
LEMMA EnqueuerStep ==
  ASSUME IInv, NEW t \in Tasks,
         CreateTaskRun(t) \/ Delay(t) \/ SaveCeleryId(t) \/ EnqueuerDies(t)
  PROVE  IInv'
<1>1. CASE CreateTaskRun(t)
  BY <1>1 DEF CreateTaskRun, SetStatus, IInv, TypeOK, RowBeforeWork,
     WorkerInv, LateInv, Status, Active, Terminal
<1>2. CASE Delay(t)
  BY <1>2 DEF Delay, rowVars, IInv, TypeOK, RowBeforeWork,
     WorkerInv, LateInv
<1>3. CASE SaveCeleryId(t)
  BY <1>3, SMTT(30), ZenonT(30) DEF SaveCeleryId, Touch, rowVars, IInv, TypeOK, RowBeforeWork,
     WorkerInv, LateInv
<1>4. CASE EnqueuerDies(t)
  BY <1>4 DEF EnqueuerDies, rowVars, IInv, TypeOK, RowBeforeWork,
     WorkerInv, LateInv
<1>5. QED BY <1>1, <1>2, <1>3, <1>4

(* A step of the broker or of the worker pool keeps the invariant. *)
LEMMA PoolStep ==
  ASSUME IInv, NEW t \in Tasks,
         Deliver(t) \/ RevokeArrives(t) \/ WorkerDies(t)
  PROVE  IInv'
<1> USE IdleType
<1>1. CASE Deliver(t)
  <2>1. [Idle EXCEPT !.at = "read"] \in Execution
    BY DEF Idle, Execution
  <2>2. QED
    BY <1>1, <2>1 DEF Deliver, rowVars, IInv, TypeOK, RowBeforeWork,
       WorkerInv, LateInv, Idle
<1>2. CASE RevokeArrives(t)
  BY <1>2 DEF RevokeArrives, rowVars, IInv, TypeOK, RowBeforeWork,
     WorkerInv, LateInv, Idle
<1>3. CASE WorkerDies(t)
  BY <1>3 DEF WorkerDies, rowVars, brokerVars, IInv, TypeOK, RowBeforeWork,
     WorkerInv, LateInv, Idle
<1>4. QED BY <1>1, <1>2, <1>3
(***************************************************************************)
(* Where the worker may go: these facts about Goto, Stop, Raise and        *)
(* Continue are all that the steps of the worker need.                     *)
(***************************************************************************)
WorkerOK(w, n) ==
  /\ w \in Execution
  /\ w.at = "commit" => w.seen \notin {"CANCELED", "DELETED"}
  /\ w.at = "work" => w.txn = "stage"
  /\ w.at = "resend" => w.txn = "retry"
  /\ w.txn = "stage" /\ w.at # "ensure" => w.stage < Stages
  /\ w.txn = "retry" => n < MaxRetries

(* Only the execution of t changes, and it stays well formed. *)
Moves(t) ==
  /\ worker' = [worker EXCEPT ![t] = worker'[t]]
  /\ WorkerOK(worker'[t], attempt[t])

LEMMA WorkerWellFormed ==
  ASSUME IInv, NEW t \in Tasks
  PROVE  WorkerOK(worker[t], attempt[t])
  BY DEF IInv, TypeOK, WorkerInv, WorkerOK

LEMMA GotoMoves ==
  ASSUME IInv, NEW t \in Tasks, NEW at, NEW txn,
         at \in {"read", "log", "ensure", "work", "resend"}, txn \in Report,
         at = "work" => txn = "stage",
         at = "resend" => txn = "retry",
         txn = "stage" /\ at # "ensure" => worker[t].stage < Stages,
         txn = "retry" => attempt[t] < MaxRetries,
         Goto(t, at, txn)
  PROVE  Moves(t) /\ worker'[t].at = at
<1>1. worker'[t] = [worker[t] EXCEPT !.at = at, !.txn = txn, !.seen = "ABSENT"]
  BY DEF Goto, IInv, TypeOK
<1>2. worker[t] \in Execution /\ "ABSENT" \in Status
  BY DEF IInv, TypeOK, Status
<1>3. worker'[t] \in Execution
  BY <1>1, <1>2 DEF Execution
<1>4. /\ worker'[t].at = at /\ worker'[t].txn = txn
      /\ worker'[t].stage = worker[t].stage
  BY <1>1, <1>2 DEF Execution
<1>5. worker' = [worker EXCEPT ![t] = worker'[t]]
  BY DEF Goto, IInv, TypeOK
<1>6. QED BY <1>3, <1>4, <1>5 DEF Moves, WorkerOK

LEMMA StopMoves ==
  ASSUME IInv, NEW t \in Tasks, Stop(t)
  PROVE  Moves(t) /\ worker'[t].at = "idle"
<1>1. worker'[t] = Idle /\ worker' = [worker EXCEPT ![t] = worker'[t]]
  BY DEF Stop, IInv, TypeOK
<1>2. Idle.at = "idle" /\ Idle.txn = "started"
  BY DEF Idle
<1>3. QED BY <1>1, <1>2, IdleType DEF Moves, WorkerOK

LEMMA RaiseMoves ==
  ASSUME IInv, NEW t \in Tasks, Raise(t)
  PROVE  Moves(t) /\ worker'[t].at \in {"read", "idle"}
<1>1. CASE worker[t].txn \in InTryBlock /\ attempt[t] < MaxRetries
  BY <1>1, GotoMoves DEF Raise, Report
<1>2. CASE worker[t].txn \in InTryBlock /\ ~(attempt[t] < MaxRetries)
  BY <1>2, GotoMoves DEF Raise, Report
<1>3. CASE worker[t].txn \notin InTryBlock
  BY <1>3, StopMoves DEF Raise
<1>4. QED BY <1>1, <1>2, <1>3

LEMMA ContinueMoves ==
  ASSUME IInv, NEW t \in Tasks, Continue(t), worker[t].at \in {"read", "log"}
  PROVE  /\ Moves(t)
         /\ worker'[t].at \in {"ensure", "work", "resend", "idle"}
         /\ worker'[t].at = "work" => worker[t].txn = "stage"
<1> DEFINE x == worker[t].txn
<1>0. WorkerOK(worker[t], attempt[t])
  BY WorkerWellFormed
<1>1. CASE x = "started"
  BY <1>1, GotoMoves DEF Continue, Report
<1>2. CASE x = "stage"
  BY <1>0, <1>2, GotoMoves DEF Continue, Report, WorkerOK
<1>3. CASE x = "retry"
  BY <1>0, <1>3, GotoMoves DEF Continue, Report, WorkerOK
<1>4. CASE x \notin {"started", "stage", "retry"}
  BY <1>4, StopMoves DEF Continue
<1>5. QED BY <1>1, <1>2, <1>3, <1>4

(***************************************************************************)
(* A worker step that moves the execution of t to a well-formed place and  *)
(* leaves the row alone keeps the invariant, if a canceled row with a late *)
(* step does not get back on the path to the body.                         *)
(***************************************************************************)
LEMMA QuietMove ==
  ASSUME IInv, NEW t \in Tasks, Moves(t), worker[t].at # "idle",
         UNCHANGED <<rowVars, brokerVars, req>>,
         late[t] = 1 /\ status[t] = "CANCELED"
           => worker'[t].at \in {"idle", "ensure", "read", "resend"}
  PROVE  IInv'
  BY DEF Moves, WorkerOK, rowVars, brokerVars, IInv, TypeOK, RowBeforeWork,
     WorkerInv, LateInv

LEMMA WorkerStepIInv ==
  ASSUME IInv, NEW t \in Tasks, WorkerStep(t)
  PROVE  IInv'
<1> DEFINE w == worker[t]
<1>0. WorkerOK(w, attempt[t]) /\ w \in Execution
  BY WorkerWellFormed DEF WorkerOK
<1>1. CASE ReportRead(t)
  <2>0. w.at = "read" /\ UNCHANGED <<rowVars, brokerVars, req>>
    BY <1>1 DEF ReportRead
  <2>1. CASE Interrupts(w.txn, status[t]) /\ Stop(t)
    BY <2>0, <2>1, StopMoves, QuietMove
  <2>2. CASE ~Interrupts(w.txn, status[t]) /\ Skips(w.txn, status[t]) /\ Continue(t)
    <3>1. status[t] = "CANCELED" => w.txn # "stage"
      BY <2>2 DEF Interrupts, InTryBlock
    <3>2. QED BY <2>0, <2>2, <3>1, ContinueMoves, QuietMove
  <2>3. CASE /\ ~Interrupts(w.txn, status[t]) /\ ~Skips(w.txn, status[t])
             /\ worker' = [worker EXCEPT ![t].at = "commit", ![t].seen = status[t]]
    <3>1. status[t] \in Status /\ status[t] \notin {"CANCELED", "DELETED"}
      BY <2>3 DEF Interrupts, Skips, InTryBlock, IInv, TypeOK, Terminal
    <3>2. worker'[t] = [w EXCEPT !.at = "commit", !.seen = status[t]]
      BY <2>3 DEF IInv, TypeOK
    <3>3. worker'[t] \in Execution
      BY <1>0, <3>1, <3>2 DEF Execution
    <3>4. /\ worker'[t].at = "commit" /\ worker'[t].seen = status[t]
          /\ worker'[t].txn = w.txn /\ worker'[t].stage = w.stage
      BY <1>0, <3>2 DEF Execution
    <3>5. Moves(t)
      BY <1>0, <2>0, <2>3, <3>1, <3>3, <3>4 DEF Moves, WorkerOK, IInv, TypeOK
    <3>6. QED BY <2>0, <3>1, <3>5, QuietMove
  <2>4. QED BY <1>1, <2>1, <2>2, <2>3 DEF ReportRead
<1>2. CASE ReportCommit(t)
  <2>0. w.at = "commit" /\ UNCHANGED <<brokerVars, req>>
    BY <1>2 DEF ReportCommit
  <2>1. CASE status[t] = "DELETED"
    BY <1>2, <2>0, <2>1, RaiseMoves, QuietMove DEF ReportCommit
  <2>2. CASE status[t] # "DELETED"
    <3>1. Moves(t) /\ worker'[t].at = "log"
      BY <1>0, <1>2, <2>0, <2>2, GotoMoves DEF ReportCommit, WorkerOK, Execution
    <3>2. late[t] # 1 \/ status[t] # "CANCELED"
      BY <2>0 DEF IInv, LateInv
    <3>3. Target(w.txn) \in {"RUNNING", "SUCCESS", "RETRY", "FAILURE"}
      BY <1>0, TargetType DEF Execution
    <3>4. Touch(t) \/ SetStatus({t}, Target(w.txn))
      BY <1>2, <2>2 DEF ReportCommit
    <3>5. celeryId' \in [Tasks -> BOOLEAN]
      BY <1>2, <2>2 DEF ReportCommit, IInv, TypeOK
    <3>6. CASE Touch(t)
      BY <2>0, <3>1, <3>2, <3>5, <3>6 DEF Touch, Moves, WorkerOK, brokerVars,
         IInv, TypeOK, RowBeforeWork, WorkerInv, LateInv
    <3>7. CASE SetStatus({t}, Target(w.txn))
      <4>1. TypeOK'
        <5>1. status' \in [Tasks -> Status]
          BY <3>3, <3>7 DEF SetStatus, IInv, TypeOK, Status, Active, Terminal
        <5>2. stale' \in [Tasks -> BOOLEAN]
          BY <3>7 DEF SetStatus, IInv, TypeOK
        <5>3. late' \in [Tasks -> Nat]
          BY <3>7 DEF SetStatus, IInv, TypeOK
        <5>4. worker' \in [Tasks -> Execution]
          BY <3>1 DEF Moves, WorkerOK, IInv, TypeOK
        <5>5. QED
          BY <2>0, <3>5, <5>1, <5>2, <5>3, <5>4 DEF brokerVars, IInv, TypeOK
      <4>2. RowBeforeWork' /\ WorkerInv'
        BY <2>0, <3>1, <3>3, <3>7 DEF SetStatus, Moves, WorkerOK,
           brokerVars, IInv, TypeOK, RowBeforeWork, WorkerInv
      <4>3. LateInv'
        BY <2>0, <3>1, <3>2, <3>3, <3>7 DEF SetStatus, Moves,
           IInv, TypeOK, LateInv
      <4>4. QED BY <4>1, <4>2, <4>3 DEF IInv
    <3>8. QED BY <3>4, <3>6, <3>7
  <2>3. QED BY <2>1, <2>2
<1>3. CASE ReportLog(t)
  <2>0. w.at = "log" /\ UNCHANGED <<rowVars, brokerVars, req>>
    BY <1>3 DEF ReportLog
  <2>1. ~(late[t] = 1 /\ status[t] = "CANCELED")
    BY <2>0 DEF IInv, LateInv
  <2>2. Moves(t)
    BY <1>3, <2>0, RaiseMoves, ContinueMoves DEF ReportLog
  <2>3. QED BY <2>0, <2>1, <2>2, QuietMove
<1>4. CASE EnsureNotCanceled(t)
  <2>0. w.at = "ensure" /\ UNCHANGED <<rowVars, brokerVars, req>>
    BY <1>4 DEF EnsureNotCanceled
  <2>1. CASE Stop(t)
    BY <2>0, <2>1, StopMoves, QuietMove
  <2>2. CASE Goto(t, "read", IF w.stage < Stages THEN "stage" ELSE "success")
    <3>1. CASE w.stage < Stages
      BY <2>0, <2>2, <3>1, GotoMoves, QuietMove DEF Report
    <3>2. CASE ~(w.stage < Stages)
      BY <2>0, <2>2, <3>2, GotoMoves, QuietMove DEF Report
    <3>3. QED BY <3>1, <3>2
  <2>3. QED BY <1>4, <2>1, <2>2 DEF EnsureNotCanceled
<1>5. CASE BodyStep(t)
  <2>0. /\ w.at = "work" /\ w.txn = "stage" /\ w.stage < Stages
        /\ UNCHANGED <<status, celeryId, stale, brokerVars, req>>
        /\ late' = [late EXCEPT ![t] = IF status[t] = "CANCELED" THEN @ + 1 ELSE @]
    BY <1>0, <1>5 DEF BodyStep, WorkerOK
  <2>1. late[t] # 1 \/ status[t] # "CANCELED"
    BY <2>0 DEF IInv, LateInv
  <2>2. Moves(t) /\ worker'[t].at \in {"ensure", "read", "idle"}
    <3>1. CASE worker' = [worker EXCEPT ![t].at = "ensure", ![t].stage = @ + 1]
      <4>1. worker'[t] = [w EXCEPT !.at = "ensure", !.stage = @ + 1]
        BY <3>1 DEF IInv, TypeOK
      <4>0. w.stage \in 0..Stages /\ w.stage + 1 \in 0..Stages
        BY <1>0, <2>0, TaskRunAssumption DEF Execution
      <4>2. worker'[t] \in Execution
        BY <1>0, <4>0, <4>1 DEF Execution
      <4>3. /\ worker'[t].at = "ensure" /\ worker'[t].txn = w.txn
        BY <1>0, <4>1 DEF Execution
      <4>4. QED BY <2>0, <3>1, <4>2, <4>3 DEF Moves, WorkerOK, IInv, TypeOK
    <3>2. QED BY <1>5, <3>1, RaiseMoves DEF BodyStep
  <2>3. QED
    BY <2>0, <2>1, <2>2, SMTT(30), ZenonT(30) DEF Moves, WorkerOK, brokerVars, IInv, TypeOK,
       RowBeforeWork, WorkerInv, LateInv
<1>6. CASE Resend(t)
  <2>0. w.at = "resend" /\ attempt[t] < MaxRetries
    BY <1>0, <1>6 DEF Resend, WorkerOK
  <2>1. attempt' \in [Tasks -> 0..MaxRetries]
    BY <1>6, <2>0, TaskRunAssumption DEF Resend, IInv, TypeOK
  <2>2. worker'[t] = Idle /\ worker' = [worker EXCEPT ![t] = Idle]
    BY <1>6 DEF Resend, Stop, IInv, TypeOK
  <2>3. Idle.at = "idle" /\ Idle.txn = "started"
    BY DEF Idle
  <2>4. QED
    BY <1>6, <2>0, <2>1, <2>2, <2>3, IdleType DEF Resend, rowVars, IInv, TypeOK,
       RowBeforeWork, WorkerInv, LateInv
<1>7. QED BY <1>1, <1>2, <1>3, <1>4, <1>5, <1>6 DEF WorkerStep
(* A step of an API request keeps the invariant. *)
LEMMA SetStatusKeeps ==
  ASSUME IInv, NEW S \in SUBSET Tasks, NEW new \in {"FAILURE", "CANCELED"},
         \A t \in S : status[t] # "ABSENT",
         SetStatus(S, new)
  PROVE  /\ status' \in [Tasks -> Status] /\ stale' \in [Tasks -> BOOLEAN]
         /\ late' \in [Tasks -> Nat]
         /\ \A t \in Tasks : status'[t] = "ABSENT" => status[t] = "ABSENT"
         /\ \A t \in Tasks :
              /\ late'[t] <= 1
              /\ late'[t] = 1 /\ status'[t] = "CANCELED"
                   => late[t] = 1 /\ status[t] = "CANCELED"
  BY DEF SetStatus, IInv, TypeOK, LateInv, Status, Active, Terminal

LEMMA DeleteKeeps ==
  ASSUME IInv, NEW S, \A t \in Tasks \cap S : status[t] # "ABSENT", Delete(S)
  PROVE  /\ status' \in [Tasks -> Status]
         /\ \A t \in Tasks : status'[t] = "ABSENT" => status[t] = "ABSENT"
         /\ \A t \in Tasks : status'[t] = "CANCELED" => status[t] = "CANCELED"
  BY DEF Delete, IInv, TypeOK, Status

LEMMA RequestReads ==
  ASSUME IInv, NEW c \in Clients,
         (\E t \in Tasks : CancelRead(c, t)) \/ ClearRead(c) \/ SweepRead(c)
  PROVE  IInv'
<1>1. \A S : Revoke(S) => revoking' \in [Tasks -> {"none", "revoke", "terminate"}]
  BY DEF Revoke, IInv, TypeOK
<1>2. \A F \in SUBSET (Active \cup Terminal) :
        Rows(F) \in SUBSET Tasks /\ \A t \in Rows(F) : status[t] # "ABSENT"
  BY DEF Rows, Active, Terminal
<1>3. ASSUME NEW t \in Tasks, CancelRead(c, t) PROVE IInv'
  BY <1>1, <1>3 DEF CancelRead, rowVars, IInv, TypeOK, RowBeforeWork,
     WorkerInv, LateInv, Request, Active
<1>4. CASE ClearRead(c)
  <2>1. PICK F \in ClearFilters :
          \/ /\ Revoke(Rows(F \cap Active))
             /\ req' = [req EXCEPT ![c] =
                  [op |-> "clear", todo |-> Rows(F \cap Active), ids |-> Rows(F)]]
          \/ /\ \E S \in SUBSET Rows(F \cap Active) : Revoke(S)
             /\ UNCHANGED req
    BY <1>4 DEF ClearRead
  <2>2. F \in SUBSET (Active \cup Terminal) /\ F \cap Active \in SUBSET (Active \cup Terminal)
    BY DEF ClearFilters
  <2>3. revoking' \in [Tasks -> {"none", "revoke", "terminate"}]
    BY <1>1, <2>1
  <2>4. [op |-> "clear", todo |-> Rows(F \cap Active), ids |-> Rows(F)] \in Request
    BY <1>2, <2>2 DEF Request
  <2>5. UNCHANGED <<rowVars, enq, msg, attempt, revoked, worker>>
    BY <1>4 DEF ClearRead
  <2>6. CASE UNCHANGED req
    BY <2>3, <2>5, <2>6 DEF rowVars, IInv, TypeOK, RowBeforeWork, WorkerInv, LateInv
  <2>7. CASE req' = [req EXCEPT ![c] =
                  [op |-> "clear", todo |-> Rows(F \cap Active), ids |-> Rows(F)]]
    BY <1>2, <2>2, <2>3, <2>4, <2>5, <2>7 DEF rowVars, IInv, TypeOK,
       RowBeforeWork, WorkerInv, LateInv
  <2>8. QED BY <2>1, <2>6, <2>7
<1>5. CASE SweepRead(c)
  <2> DEFINE S == {t \in Rows(Active) : stale[t]}
  <2>1. S \in SUBSET Tasks /\ \A t \in S : status[t] # "ABSENT"
    BY <1>2
  <2>2. [op |-> "sweep", todo |-> S, ids |-> {}] \in Request
    BY <2>1 DEF Request
  <2>3. /\ req' = [req EXCEPT ![c] = [op |-> "sweep", todo |-> S, ids |-> {}]]
        /\ UNCHANGED <<rowVars, brokerVars, worker>>
    BY <1>5 DEF SweepRead
  <2> HIDE DEF S
  <2>4. QED
    BY <2>1, <2>2, <2>3 DEF rowVars, brokerVars, IInv, TypeOK,
       RowBeforeWork, WorkerInv, LateInv
<1>6. QED BY <1>3, <1>4, <1>5

LEMMA RequestWrites ==
  ASSUME IInv, NEW c \in Clients, RequestStep(c)
  PROVE  IInv'
<1>0. /\ req[c].todo \in SUBSET Tasks /\ req[c].ids \in SUBSET Tasks
      /\ \A t \in req[c].todo \cup req[c].ids : status[t] # "ABSENT"
  BY DEF IInv, TypeOK, RowBeforeWork, Request
<1>1. NoRequest \in Request
  BY DEF NoRequest, Request
<1>2. CASE CancelWrite(c)
  <2>1. PICK t \in req[c].todo :
          IF status[t] = "DELETED"
            THEN Finish(c) /\ UNCHANGED rowVars
            ELSE /\ SetStatus({t}, "CANCELED")
                 /\ IF req[c].op = "cancel" THEN Finish(c)
                    ELSE req' = [req EXCEPT ![c].todo = @ \ {t}]
                 /\ UNCHANGED celeryId
    BY <1>2 DEF CancelWrite
  <2>2. UNCHANGED <<brokerVars, worker>>
    BY <1>2 DEF CancelWrite
  <2>3. /\ req' \in [Clients -> Request]
        /\ \A d \in Clients : /\ req'[d].todo \subseteq req[d].todo
                             /\ req'[d].ids \subseteq req[d].ids
    <3>1. CASE Finish(c)
      BY <1>1, <3>1 DEF Finish, NoRequest, IInv, TypeOK
    <3>2. CASE req' = [req EXCEPT ![c].todo = @ \ {t}]
      BY <3>2 DEF Request, IInv, TypeOK
    <3>3. QED BY <2>1, <3>1, <3>2
  <2>4. CASE status[t] = "DELETED"
    BY <2>1, <2>2, <2>3, <2>4 DEF rowVars, brokerVars, IInv, TypeOK,
       RowBeforeWork, WorkerInv, LateInv
  <2>5. CASE status[t] # "DELETED"
    <3>1. SetStatus({t}, "CANCELED") /\ UNCHANGED celeryId
      BY <2>1, <2>5
    <3>2. {t} \in SUBSET Tasks /\ \A u \in {t} : status[u] # "ABSENT"
      BY <1>0
    <3>3. QED
      BY <2>2, <2>3, <3>1, <3>2, SetStatusKeeps DEF brokerVars, IInv, TypeOK,
         RowBeforeWork, WorkerInv, LateInv
  <2>6. QED BY <2>4, <2>5
<1>3. CASE ClearDelete(c)
  <2>1. /\ Delete(req[c].ids) /\ UNCHANGED <<celeryId, stale, late, brokerVars, worker>>
        /\ req' = [req EXCEPT ![c] = NoRequest]
    BY <1>3 DEF ClearDelete, Delete, Finish
  <2>2. QED
    BY <1>0, <1>1, <2>1, DeleteKeeps DEF brokerVars, NoRequest, IInv, TypeOK,
       RowBeforeWork, WorkerInv, LateInv
<1>4. CASE SweepWrite(c)
  <2>1. /\ UNCHANGED <<celeryId, brokerVars, worker>>
        /\ req' = [req EXCEPT ![c] = NoRequest]
    BY <1>4 DEF SweepWrite, Finish, rowVars
  <2>2. CASE UNCHANGED rowVars
    BY <1>1, <2>1, <2>2 DEF rowVars, brokerVars, NoRequest, IInv, TypeOK,
       RowBeforeWork, WorkerInv, LateInv
  <2>3. CASE SetStatus(req[c].todo, "FAILURE")
    BY <1>0, <1>1, <2>1, <2>3, SetStatusKeeps DEF brokerVars, NoRequest, IInv,
       TypeOK, RowBeforeWork, WorkerInv, LateInv
  <2>4. QED BY <1>4, <2>2, <2>3 DEF SweepWrite
<1>5. QED BY <1>2, <1>3, <1>4 DEF RequestStep

LEMMA ClearTaskRunsIInv ==
  ASSUME IInv, ClearTaskRuns
  PROVE  IInv'
<1>1. PICK F \in {Terminal} \cup {{s} : s \in Active \cup Terminal} : Delete(Rows(F))
  BY DEF ClearTaskRuns
<1>2. "ABSENT" \notin F
  BY DEF Active, Terminal
<1>3. \A t \in Tasks \cap Rows(F) : status[t] # "ABSENT"
  BY <1>2 DEF Rows
<1>4. UNCHANGED <<celeryId, stale, late, brokerVars, worker, req>>
  BY <1>1 DEF ClearTaskRuns, Delete
<1>5. QED
  BY <1>1, <1>3, <1>4, DeleteKeeps DEF brokerVars, IInv, TypeOK, RowBeforeWork,
     WorkerInv, LateInv

LEMMA AgeIInv ==
  ASSUME IInv, NEW t \in Tasks, Age(t)
  PROVE  IInv'
  BY DEF Age, brokerVars, IInv, TypeOK, RowBeforeWork, WorkerInv, LateInv

-----------------------------------------------------------------------------
LEMMA StepIInv == IInv /\ [Next]_vars => IInv'
<1> SUFFICES ASSUME IInv, [Next]_vars PROVE IInv'
  OBVIOUS
<1>1. CASE UNCHANGED vars
  BY <1>1 DEF vars, rowVars, brokerVars, IInv, TypeOK, RowBeforeWork,
     WorkerInv, LateInv
<1>2. ASSUME NEW t \in Tasks,
             CreateTaskRun(t) \/ Delay(t) \/ SaveCeleryId(t) \/ EnqueuerDies(t)
      PROVE  IInv'
  BY <1>2, EnqueuerStep
<1>3. ASSUME NEW t \in Tasks, Deliver(t) \/ RevokeArrives(t) \/ WorkerDies(t)
      PROVE  IInv'
  BY <1>3, PoolStep
<1>4. ASSUME NEW t \in Tasks, WorkerStep(t) PROVE IInv'
  BY <1>4, WorkerStepIInv
<1>5. ASSUME NEW t \in Tasks, Age(t) PROVE IInv'
  BY <1>5, AgeIInv
<1>6. ASSUME NEW c \in Clients,
             (\E t \in Tasks : CancelRead(c, t)) \/ ClearRead(c) \/ SweepRead(c)
      PROVE  IInv'
  BY <1>6, RequestReads
<1>7. ASSUME NEW c \in Clients, RequestStep(c) PROVE IInv'
  BY <1>7, RequestWrites
<1>8. CASE ClearTaskRuns
  BY <1>8, ClearTaskRunsIInv
<1>9. QED BY <1>1, <1>2, <1>3, <1>4, <1>5, <1>6, <1>7, <1>8 DEF Next

LEMMA Invariance == Spec => []IInv
<1>1. QED BY InitIInv, StepIInv, PTL DEF Spec

(***************************************************************************)
(* Every variable keeps its type: no status, report or stage outside the   *)
(* ones the code knows, and never more retries than max_retries.           *)
(***************************************************************************)
THEOREM TypeCorrect == Spec => []TypeOK
<1>1. IInv => TypeOK
  BY DEF IInv
<1>2. QED BY <1>1, Invariance, PTL

(***************************************************************************)
(* After a cancel the worker begins at most one more step of the body,     *)
(* however reports, retries, sweeps and other requests are interleaved.    *)
(***************************************************************************)
THEOREM LateStepBound == Spec => []AtMostOneLateStep
<1>1. IInv => AtMostOneLateStep
  BY DEF IInv, LateInv, AtMostOneLateStep
<1>2. QED BY <1>1, Invariance, PTL
(***************************************************************************)
(* A cancel is undone only by a transaction that was open when it was      *)
(* committed: a report that had read an active row, or a sweep.            *)
(***************************************************************************)
LEMMA CancelStep ==
  ASSUME IInv, [Next]_vars, NEW t \in Tasks, status[t] = "CANCELED",
         status'[t] \notin {"CANCELED", "DELETED"}
  PROVE  ReadBeforeCancel(t)
<1>1. CASE \E u \in Tasks : ReportCommit(u)
  <2>1. PICK u \in Tasks : ReportCommit(u)
    BY <1>1
  <2>2. u = t
    BY <2>1 DEF ReportCommit, Touch, SetStatus, rowVars, IInv, TypeOK
  <2>3. worker[t].at = "commit"
    BY <2>1, <2>2 DEF ReportCommit
  <2>4. QED BY <2>3 DEF ReadBeforeCancel, IInv, WorkerInv
<1>2. CASE \E c \in Clients : SweepWrite(c)
  <2>1. PICK c \in Clients : SweepWrite(c)
    BY <1>2
  <2>2. t \in req[c].todo /\ req[c].op = "sweep"
    BY <2>1 DEF SweepWrite, SetStatus, rowVars
  <2>3. QED BY <2>2 DEF ReadBeforeCancel
<1>3. ASSUME NEW S, Delete(S) PROVE FALSE
  BY <1>3 DEF Delete
<1>4. CASE \E c \in Clients : CancelWrite(c) \/ ClearDelete(c)
  BY <1>3, <1>4 DEF CancelWrite, ClearDelete, SetStatus, rowVars
<1>5. CASE ClearTaskRuns
  BY <1>3, <1>5 DEF ClearTaskRuns
<1>6. CASE UNCHANGED status
  BY <1>6
<1>7. CASE \E u \in Tasks : CreateTaskRun(u)
  BY <1>7 DEF CreateTaskRun, SetStatus
<1>8. ASSUME NEW u \in Tasks,
             \/ Delay(u) \/ SaveCeleryId(u) \/ EnqueuerDies(u)
             \/ Deliver(u) \/ RevokeArrives(u) \/ WorkerDies(u) \/ Age(u)
      PROVE  UNCHANGED status
  BY <1>8 DEF Delay, SaveCeleryId, EnqueuerDies, Deliver, RevokeArrives,
     WorkerDies, Age, Touch, rowVars
<1>9. ASSUME NEW u \in Tasks,
             \/ ReportRead(u) \/ ReportLog(u) \/ EnsureNotCanceled(u)
             \/ BodyStep(u) \/ Resend(u)
      PROVE  UNCHANGED status
  BY <1>9 DEF ReportRead, ReportLog, EnsureNotCanceled, BodyStep, Resend, rowVars
<1>10. ASSUME NEW c \in Clients,
              \/ \E u \in Tasks : CancelRead(c, u)
              \/ ClearRead(c) \/ SweepRead(c)
       PROVE  UNCHANGED status
  BY <1>10 DEF CancelRead, ClearRead, SweepRead, rowVars
<1>11. CASE UNCHANGED vars
  BY <1>11 DEF vars, rowVars
<1>12. QED
  BY <1>1, <1>2, <1>4, <1>5, <1>6, <1>7, <1>8, <1>9, <1>10, <1>11
     DEF Next, WorkerStep, RequestStep

THEOREM CancelHonoured == Spec => CancelLostOnlyToEarlierRead
<1>1. IInv /\ [Next]_vars
        => [\A t \in Tasks :
              status[t] = "CANCELED" /\ status'[t] \notin {"CANCELED", "DELETED"}
                => ReadBeforeCancel(t)]_vars
  BY CancelStep
<1>2. QED BY <1>1, Invariance, PTL DEF Spec, CancelLostOnlyToEarlierRead

-----------------------------------------------------------------------------
(* The refinement of TaskLifecycle, one task at a time. *)

Live(t) == enq[t] = "created" \/ msg[t] \/ worker[t].at # "idle"

TaskMoves(t) ==
  \/ /\ status[t] = "ABSENT" /\ status'[t] \in Active /\ Live(t)'
  \/ /\ status[t] \in Active \cup Terminal /\ status'[t] \in Terminal \cup {"DELETED"}
     /\ Live(t)' = Live(t)
  \/ /\ status[t] \in Active \cup Terminal /\ status'[t] \in Active
     /\ Live(t) /\ Live(t)'
  \/ /\ status'[t] = status[t]
     /\ Live(t)' => Live(t)

LEMMA MoveIsLifecycle ==
  ASSUME TypeOK, TypeOK', \A t \in Tasks : TaskMoves(t)
  PROVE  Lifecycle!Next
<1> SUFFICES ASSUME NEW t \in Tasks
             PROVE \/ Lifecycle!Open(t) \/ Lifecycle!Close(t) \/ Lifecycle!Reopen(t)
                   \/ Lifecycle!Remove(t) \/ Lifecycle!Retire(t) \/ Lifecycle!Idle(t)
  BY DEF Lifecycle!Next
<1>1. TaskMoves(t) /\ status[t] \in Status /\ status'[t] \in Status
  BY DEF TypeOK
<1> USE DEF Status, Active, Terminal, Live
<1>2. CASE status[t] = "ABSENT" /\ status'[t] \in Active /\ Live(t)'
  BY <1>2 DEF Lifecycle!Open
<1>3. CASE /\ status[t] \in Active \cup Terminal
           /\ status'[t] \in Terminal \cup {"DELETED"} /\ Live(t)' = Live(t)
  BY <1>3 DEF Lifecycle!Close, Lifecycle!Remove, Lifecycle!Idle
<1>4. CASE /\ status[t] \in Active \cup Terminal /\ status'[t] \in Active
           /\ Live(t) /\ Live(t)'
  BY <1>4 DEF Lifecycle!Reopen, Lifecycle!Idle
<1>5. CASE status'[t] = status[t] /\ (Live(t)' => Live(t))
  BY <1>5 DEF Lifecycle!Retire, Lifecycle!Idle
<1>6. QED BY <1>1, <1>2, <1>3, <1>4, <1>5 DEF TaskMoves
LEMMA StepMoves ==
  ASSUME IInv, Next, NEW t \in Tasks
  PROVE  TaskMoves(t)
<1> USE DEF TaskMoves, Live
<1>a. status[t] \in Active \cup Terminal \cup {"ABSENT", "DELETED"}
  BY DEF IInv, TypeOK, Status
<1>b. status[t] = "ABSENT" => \A c \in Clients : t \notin req[c].todo /\ t \notin req[c].ids
  BY DEF IInv, RowBeforeWork
<1>1. ASSUME NEW u \in Tasks, CreateTaskRun(u) PROVE TaskMoves(t)
  BY <1>1 DEF CreateTaskRun, SetStatus, IInv, TypeOK, Active
<1>2. ASSUME NEW u \in Tasks, Delay(u) \/ SaveCeleryId(u) \/ EnqueuerDies(u)
      PROVE  TaskMoves(t)
  BY <1>2 DEF Delay, SaveCeleryId, EnqueuerDies, Touch, rowVars, IInv, TypeOK
<1>3. ASSUME NEW u \in Tasks, Deliver(u) \/ RevokeArrives(u) \/ WorkerDies(u)
      PROVE  TaskMoves(t)
  BY <1>3, IdleType DEF Deliver, RevokeArrives, WorkerDies, rowVars, brokerVars,
     IInv, TypeOK, Idle
<1>4. ASSUME NEW u \in Tasks, ReportCommit(u) PROVE TaskMoves(t)
  <2>1. worker[u].at = "commit" /\ UNCHANGED <<brokerVars, req>>
    BY <1>4 DEF ReportCommit
  <2>2. status[u] # "ABSENT"
    BY <2>1 DEF IInv, RowBeforeWork
  <2>3. CASE status[u] = "DELETED"
    <3>1. UNCHANGED status /\ Moves(u)
      BY <1>4, <2>3, RaiseMoves DEF ReportCommit, rowVars
    <3>2. QED BY <2>1, <3>1 DEF Moves, brokerVars, IInv, TypeOK
  <2>4. CASE status[u] # "DELETED"
    <3>1. Goto(u, "log", worker[u].txn)
      BY <1>4, <2>4 DEF ReportCommit
    <3>2. worker'[u].at = "log" /\ (t # u => worker'[t] = worker[t])
      BY <3>1 DEF Goto, IInv, TypeOK, Execution
    <3>3. Target(worker[u].txn) \in {"RUNNING", "SUCCESS", "RETRY", "FAILURE"}
      BY TargetType DEF IInv, TypeOK, Execution
    <3>4. Touch(u) \/ SetStatus({u}, Target(worker[u].txn))
      BY <1>4, <2>4 DEF ReportCommit
    <3>5. CASE Touch(u)
      BY <2>1, <3>2, <3>5 DEF Touch, brokerVars
    <3>6. CASE SetStatus({u}, Target(worker[u].txn))
      <4>1. CASE t # u
        BY <2>1, <3>2, <3>6, <4>1 DEF SetStatus, brokerVars
      <4>2. CASE t = u
        BY <1>a, <2>1, <2>2, <2>4, <3>2, <3>3, <3>6, <4>2
           DEF SetStatus, brokerVars, Active, Terminal
      <4>3. QED BY <4>1, <4>2
    <3>7. QED BY <3>4, <3>5, <3>6
  <2>5. QED BY <2>3, <2>4
<1>5. ASSUME NEW u \in Tasks,
             \/ ReportRead(u) \/ ReportLog(u) \/ EnsureNotCanceled(u)
             \/ BodyStep(u)
      PROVE  TaskMoves(t)
  <2>1. UNCHANGED <<status, enq, msg>>
    BY <1>5 DEF ReportRead, ReportLog, EnsureNotCanceled, BodyStep, rowVars, brokerVars
  <2>2. worker[u].at # "idle"
    BY <1>5 DEF ReportRead, ReportLog, EnsureNotCanceled, BodyStep
  <2>3. t # u => worker'[t] = worker[t]
    BY <1>5 DEF ReportRead, ReportLog, EnsureNotCanceled, BodyStep, Raise, Continue,
       Goto, Stop, IInv, TypeOK
  <2>4. QED BY <2>1, <2>2, <2>3
<1>6. ASSUME NEW u \in Tasks, Resend(u) PROVE TaskMoves(t)
  BY <1>6 DEF Resend, Stop, rowVars, IInv, TypeOK
<1>7. ASSUME NEW u \in Tasks, Age(u) PROVE TaskMoves(t)
  BY <1>7 DEF Age, brokerVars
<1>8. ASSUME NEW c \in Clients,
             (\E u \in Tasks : CancelRead(c, u)) \/ ClearRead(c) \/ SweepRead(c)
      PROVE  TaskMoves(t)
  BY <1>8 DEF CancelRead, ClearRead, SweepRead, rowVars, brokerVars
<1>9. ASSUME NEW S, Delete(S), UNCHANGED <<brokerVars, worker>>,
             t \in S => status[t] # "ABSENT"
      PROVE  TaskMoves(t)
  BY <1>9, <1>a DEF Delete, brokerVars, IInv, TypeOK
<1>10. ASSUME NEW S, NEW new \in Terminal, SetStatus(S, new),
              UNCHANGED <<brokerVars, worker>>,
              t \in S => status[t] \notin {"ABSENT", "DELETED"}
       PROVE  TaskMoves(t)
  BY <1>10, <1>a DEF SetStatus, brokerVars, IInv, TypeOK
<1>11. ASSUME NEW c \in Clients, RequestStep(c) PROVE TaskMoves(t)
  <2>1. UNCHANGED <<brokerVars, worker>>
    BY <1>11 DEF RequestStep, CancelWrite, ClearDelete, SweepWrite
  <2>2. CASE UNCHANGED status
    BY <2>1, <2>2 DEF brokerVars
  <2>3. CASE CancelWrite(c)
    <3>1. PICK u \in req[c].todo :
            \/ UNCHANGED rowVars
            \/ status[u] # "DELETED" /\ SetStatus({u}, "CANCELED")
      BY <2>3 DEF CancelWrite
    <3>2. QED BY <1>b, <1>10, <2>1, <2>2, <3>1 DEF rowVars, Terminal
  <2>4. CASE ClearDelete(c)
    BY <1>b, <1>9, <2>1, <2>4 DEF ClearDelete
  <2>5. CASE SweepWrite(c)
    <3>1. \/ UNCHANGED rowVars
          \/ /\ \A u \in req[c].todo : status[u] # "DELETED"
             /\ SetStatus(req[c].todo, "FAILURE")
      BY <2>5 DEF SweepWrite
    <3>2. QED BY <1>b, <1>10, <2>1, <2>2, <3>1 DEF rowVars, Terminal
  <2>6. QED BY <1>11, <2>3, <2>4, <2>5 DEF RequestStep
<1>12. CASE ClearTaskRuns
  BY <1>9, <1>12 DEF ClearTaskRuns, Rows, Active, Terminal
<1>13. QED
  BY <1>1, <1>2, <1>3, <1>4, <1>5, <1>6, <1>7, <1>8, <1>11, <1>12
     DEF Next, WorkerStep

(***************************************************************************)
(* TaskRun implements TaskLifecycle: a row that no message, worker or      *)
(* enqueuer can act for any more never becomes active again.               *)
(***************************************************************************)
THEOREM Refinement == Spec => ImplementsLifecycle
<1>1. Init => Lifecycle!Init
  <2> SUFFICES ASSUME Init PROVE Lifecycle!Init
    OBVIOUS
  <2>1. \A t \in Tasks : status[t] = "ABSENT"
    BY DEF Init
  <2>2. \A t \in Tasks : (enq[t] = "created" \/ msg[t] \/ worker[t].at # "idle") = FALSE
    <3>1. Idle.at = "idle"
      BY DEF Idle
    <3>2. \A t \in Tasks : enq[t] = "none" /\ msg[t] = FALSE /\ worker[t] = Idle
      BY DEF Init
    <3>3. QED BY <3>1, <3>2
  <2>3. QED BY <2>1, <2>2 DEF Lifecycle!Init, Active, Terminal
<1>2. IInv /\ IInv' /\ [Next]_vars => [Lifecycle!Next]_(Lifecycle!vars)
  <2> SUFFICES ASSUME IInv, IInv', [Next]_vars
               PROVE  [Lifecycle!Next]_(Lifecycle!vars)
    OBVIOUS
  <2>1. CASE Next
    BY <2>1, StepMoves, MoveIsLifecycle DEF IInv
  <2>2. CASE UNCHANGED vars
    BY <2>2 DEF vars, rowVars, brokerVars, Lifecycle!vars
  <2>3. QED BY <2>1, <2>2
<1>3. QED
  BY <1>1, <1>2, Invariance, PTL DEF Spec, Lifecycle!Spec, ImplementsLifecycle
=============================================================================
