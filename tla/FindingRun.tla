----------------------------- MODULE FindingRun -----------------------------
(***************************************************************************)
(* The remediation of one finding over SSH: the request, the worker with   *)
(* its retry, the steps on the host, and the re-verification that gives    *)
(* the run its verdict (api/v1/endpoints/remediation.py,                   *)
(* tasks/remediation_tasks.py, services/remediation_executor.py,           *)
(* services/remediation_business_service.py).                              *)
(***************************************************************************)
EXTENDS Naturals

CONSTANTS
  LastStep,       \* the steps of the plan are 1..LastStep
  StopsOnFailure, \* REMEDIATION_STOP_ON_FAILURE
  MaxAgain        \* max_retries of run_remediation_execute_task

FindingRunAssumption == LastStep \in Nat \ {0} /\ MaxAgain \in Nat /\ StopsOnFailure \in BOOLEAN

VARIABLES
  entry,          \* the task row: mode, status and result
  worker,         \* the run: where it is, the steps it was given and their outcome
  verifier,       \* the re-verification that each attempt may queue
  overtaken       \* attempts whose verdict the run itself wrote over

vars == <<entry, worker, verifier, overtaken>>

Steps == 1..LastStep
Attempts == 0..MaxAgain
Verdicts == {"closed", "partial", "failed"}
Businesses == Verdicts \cup {"none", "pending"}

(* What the result of a task says: whether the steps ran, and what became   *)
(* of the risk according to which re-verification (0: none).               *)
Results == [execution : {"preview", "pending", "succeeded", "failed"}, business : Businesses, by : 0..MaxAgain + 1]
Nothing == [execution |-> "pending", business |-> "none", by |-> 0]

Init ==
  /\ entry = [mode |-> "none", status |-> "none", result |-> Nothing]
  /\ worker = [at |-> "idle", attempt |-> 0, chosen |-> {}, next |-> 1, ok |-> {}, bad |-> {}, result |-> Nothing]
  /\ verifier = [a \in Attempts |-> [at |-> "none", verdict |-> "none", read |-> Nothing]]
  /\ overtaken = {}

Ended == {"SUCCESS", "FAILURE", "CANCELED"}

-----------------------------------------------------------------------------
(* execute_remediation_plan: some of the steps that are ready; a preview    *)
(* ends with the request.                                                  *)
Execute(chosen) ==
  /\ entry.mode = "none"
  /\ entry' = [entry EXCEPT !.mode = "apply", !.status = "PENDING"]
  /\ worker' = [worker EXCEPT !.at = "queued", !.chosen = chosen]
  /\ UNCHANGED <<verifier, overtaken>>

Preview ==
  /\ entry.mode = "none"
  /\ entry' = [mode |-> "dry_run", status |-> "SUCCESS", result |-> [Nothing EXCEPT !.execution = "preview"]]
  /\ UNCHANGED <<worker, verifier, overtaken>>

Cancel ==
  /\ entry.mode = "apply" /\ entry.status \notin Ended
  /\ entry' = [entry EXCEPT !.status = "CANCELED"]
  /\ UNCHANGED <<worker, verifier, overtaken>>

-----------------------------------------------------------------------------
Goes(at) == worker' = [worker EXCEPT !.at = at]

(* A check finds the task canceled: the worker returns. *)
Stops ==
  /\ worker.at \notin {"idle", "stepped"}
  /\ entry.status = "CANCELED"
  /\ Goes("idle")
  /\ UNCHANGED <<entry, verifier, overtaken>>

(* set_task_progress and set_task_success leave an ended task alone; the    *)
(* result replaces the one of the row.                                     *)
Report(status, result) ==
  entry' = IF entry.status \in Ended THEN entry ELSE [entry EXCEPT !.status = status, !.result = result]

Proceeds == entry.status # "CANCELED"

Begin ==
  /\ worker.at = "queued" /\ Proceeds
  /\ entry' = [entry EXCEPT !.status = "RUNNING"]
  /\ Goes("loading")
  /\ UNCHANGED <<verifier, overtaken>>

(* Five reports before the steps: each reads the result and writes it back. *)
CopyResult ==
  /\ worker.at = "loading"
  /\ worker' = [worker EXCEPT !.at = "copied", !.result = entry.result]
  /\ UNCHANGED <<entry, verifier, overtaken>>

WriteBack ==
  /\ worker.at = "copied" /\ Proceeds
  /\ Report("RUNNING", worker.result)
  /\ \E more \in BOOLEAN :
       worker' = [worker EXCEPT !.at = IF more THEN "loading" ELSE "stepping", !.next = 1, !.ok = {}, !.bad = {}]
  /\ UNCHANGED <<verifier, overtaken>>

(* AsyncSSHRemediationExecutor.execute: the next step that was submitted. *)
Step(works) ==
  LET after == worker.next + 1
      stop == ~works /\ StopsOnFailure
  IN /\ worker.at = "stepping" /\ Proceeds
     /\ worker.next \in worker.chosen
     /\ worker' = [worker EXCEPT !.next = after,
                                 !.at = IF stop \/ after > LastStep THEN "stepped" ELSE "stepping",
                                 !.ok = IF works THEN @ \cup {worker.next} ELSE @,
                                 !.bad = IF works THEN @ ELSE @ \cup {worker.next}]
     /\ UNCHANGED <<entry, verifier, overtaken>>

PassOver ==
  /\ worker.at = "stepping" /\ Proceeds
  /\ worker.next \in Steps \ worker.chosen
  /\ worker' = [worker EXCEPT !.next = @ + 1, !.at = IF worker.next = LastStep THEN "stepped" ELSE "stepping"]
  /\ UNCHANGED <<entry, verifier, overtaken>>

-----------------------------------------------------------------------------
(* Mutation: a run has failed when none of its steps worked. *)
NothingWorked == worker.ok = {}

(* failed_count > 0 *)
StepFailed ==
  worker.bad # {}

(* The result of the steps; the re-verification is queued if some worked    *)
(* and the setting asks for it (REMEDIATION_AUTO_REVERIFY_ENABLED).        *)
Conclude(verifies) ==
  LET triggered == verifies /\ worker.ok # {}
      result == [execution |-> IF StepFailed THEN "failed" ELSE "succeeded",
                 business |-> IF StepFailed THEN "failed" ELSE IF triggered THEN "pending" ELSE "none",
                 by |-> IF triggered THEN worker.attempt + 1 ELSE 0]
  IN /\ worker.at = "stepped"
     /\ worker' = [worker EXCEPT !.at = "reporting", !.result = result]
     /\ verifier' = IF triggered THEN [verifier EXCEPT ![worker.attempt].at = "queued"] ELSE verifier
     /\ UNCHANGED <<entry, overtaken>>

(* The verdict of this attempt is there already and goes. *)
WritesOver ==
  overtaken' = IF verifier[worker.attempt].at = "done" THEN overtaken \cup {worker.attempt} ELSE overtaken

PostValidate ==
  /\ worker.at = "reporting" /\ Proceeds
  /\ Report("RUNNING", worker.result) /\ WritesOver
  /\ Goes("closing")
  /\ UNCHANGED verifier

(* set_task_failure keeps the result of the row. *)
Close ==
  /\ worker.at = "closing" /\ Proceeds
  /\ IF worker.result.execution = "failed"
     THEN Report("FAILURE", entry.result) /\ UNCHANGED overtaken
     ELSE Report("SUCCESS", worker.result) /\ WritesOver
  /\ Goes("idle")
  /\ UNCHANGED verifier

(* Any exception: no login, a lost connection, a failed report. One retry   *)
(* runs everything again.                                                  *)
Break ==
  /\ worker.at \notin {"idle", "queued"}
  /\ IF worker.attempt < MaxAgain
     THEN /\ worker' = [worker EXCEPT !.at = "queued", !.attempt = @ + 1]
          /\ Report("RETRY", entry.result)
     ELSE /\ Goes("idle")
          /\ Report("FAILURE", entry.result)
  /\ UNCHANGED <<verifier, overtaken>>

(* The worker's process dies; the message was acknowledged. *)
Die ==
  /\ worker.at \notin {"idle", "queued"}
  /\ Goes("idle")
  /\ UNCHANGED <<entry, verifier, overtaken>>

-----------------------------------------------------------------------------
(* run_remediation_reverify_task: scan, collection and evaluation, or the   *)
(* error of one of them; canceled at a check or killed it says nothing.    *)
Verify(a, verdict) ==
  /\ verifier[a].at = "queued"
  /\ verifier' = [verifier EXCEPT ![a] = [at |-> "judged", verdict |-> verdict, read |-> entry.result]]
  /\ UNCHANGED <<entry, worker, overtaken>>

VerifierLost(a) ==
  /\ verifier[a].at \in {"queued", "judged"}
  /\ verifier' = [verifier EXCEPT ![a].at = "lost"]
  /\ UNCHANGED <<entry, worker, overtaken>>

(* finalize_remediation_business_outcome: the verdict into the result it    *)
(* read, whatever the status.                                              *)
Finalize(a) ==
  /\ verifier[a].at = "judged"
  /\ entry' = [entry EXCEPT !.result = [verifier[a].read EXCEPT !.business = verifier[a].verdict, !.by = a + 1]]
  /\ verifier' = [verifier EXCEPT ![a].at = "done"]
  /\ UNCHANGED <<worker, overtaken>>

Next ==
  \/ \E chosen \in SUBSET Steps \ {{}} : Execute(chosen)
  \/ Preview \/ Cancel
  \/ Stops \/ Begin \/ CopyResult \/ WriteBack
  \/ \E works \in BOOLEAN : Step(works)
  \/ PassOver
  \/ \E verifies \in BOOLEAN : Conclude(verifies)
  \/ PostValidate \/ Close \/ Break \/ Die
  \/ \E a \in Attempts : VerifierLost(a) \/ Finalize(a) \/ \E verdict \in Verdicts : Verify(a, verdict)

Spec == Init /\ [][Next]_vars

-----------------------------------------------------------------------------
TypeOK ==
  /\ entry \in [mode : {"none", "apply", "dry_run"}, result : Results,
                status : {"none", "PENDING", "RUNNING", "RETRY", "SUCCESS", "FAILURE", "CANCELED"}]
  /\ worker \in [at : {"idle", "queued", "loading", "copied", "stepping", "stepped", "reporting", "closing"},
                 attempt : Attempts, chosen : SUBSET Steps, next : 1..LastStep + 1,
                 ok : SUBSET Steps, bad : SUBSET Steps, result : Results]
  /\ verifier \in [Attempts -> [at : {"none", "queued", "judged", "done", "lost"},
                                verdict : Verdicts \cup {"none"}, read : Results]]
  /\ overtaken \subseteq Attempts

(* A run shown as a success is backed: every step that was asked for ran    *)
(* well in its last attempt, and the verdict the run still waits for is on *)
(* its way, unless the re-verification was canceled or killed, or was so   *)
(* quick that the run's own report replaced its verdict                    *)
(* (remediation_executor.py:518, remediation_tasks.py:84).                 *)
SuccessIsBacked ==
  entry.mode = "apply" /\ entry.status = "SUCCESS" =>
    /\ worker.ok = worker.chosen
    /\ entry.result.business = "pending" =>
         \/ verifier[entry.result.by - 1].at \in {"queued", "judged", "lost"}
         \/ entry.result.by - 1 \in overtaken
=============================================================================
