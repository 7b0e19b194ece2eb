----------------------------- MODULE HostScript -----------------------------
(***************************************************************************)
(* The shell script a host runner is given for one stage of a plan: its    *)
(* steps one after the other, the backup before each, the time limit, the  *)
(* results and the report to the platform                                  *)
(* (services/runner_service.py, _build_assignment_execution_script).       *)
(*                                                                         *)
(* The steps change one file of the host, which is where they can get in   *)
(* each other's way.  A script has only steps that are ready: an approval  *)
(* submits no others.  Its events are lost or not and decide nothing.      *)
(***************************************************************************)
EXTENDS Naturals, Sequences

CONSTANTS
  MaxSteps,   \* bound: steps of the stage
  Seconds     \* bound: the clock that names the backups

HostScriptAssumption == MaxSteps \in Nat \ {0} /\ Seconds \in Nat

VARIABLES
  plan,       \* how each step is backed up: "copy", "snapshot" or "none"
  script,     \* where the script is, the backup of its step, its results
  target,     \* the file of the host: the last write to it
  copies,     \* copies[s]: the backup file named after second s
  clock,
  left,       \* steps that were killed, with child processes that go on
  received,   \* the report, once the platform has it
  before,     \* history: before[i]: the file when step i was backed up
  second      \* history: second[i]: when that was

vars == <<plan, script, target, copies, clock, left, received, before, second>>

Steps == 1..MaxSteps
Original == <<0, "done">>
Contents == {Original} \cup (Steps \X {"part", "done"})
Kinds == {"copy", "snapshot", "none"}

(* A copy is known by its name, a snapshot by what it says. *)
NoBackup == <<"none">>
Backups == {NoBackup} \cup ({"copy"} \X (0..Seconds)) \cup ({"snapshot"} \X Contents)
Status == {"success", "failure"}
NoReport == [status |-> "none", results |-> <<>>]

Init ==
  /\ plan \in UNION {[1..n -> Kinds] : n \in Steps}
  /\ script = [at |-> "backup", backup |-> NoBackup, results |-> <<>>, status |-> "success"]
  /\ target = Original /\ clock = 0 /\ left = {}
  /\ copies = [s \in 0..Seconds |-> Original]
  /\ received = NoReport
  /\ before = [i \in Steps |-> Original] /\ second = [i \in Steps |-> 0]

-----------------------------------------------------------------------------
(* The script *)

Step == Len(script.results) + 1

(* Mutant: all copies have one name. *)
OneName == 0

(* The name of a copy: "%Y%m%d%H%M%S". *)
Name == clock

(* build_backup_paths_json, capture_package_context_raw: a copy is written  *)
(* over the copy of the same name; a snapshot is part of the result.       *)
Prepare ==
  /\ script.at = "backup" /\ Step <= Len(plan)
  /\ script' = [script EXCEPT !.at = "run",
       !.backup = CASE plan[Step] = "copy" -> <<"copy", Name>>
                    [] plan[Step] = "snapshot" -> <<"snapshot", target>>
                    [] plan[Step] = "none" -> NoBackup]
  /\ copies' = IF plan[Step] = "copy" THEN [copies EXCEPT ![Name] = target] ELSE copies
  /\ before' = [before EXCEPT ![Step] = target] /\ second' = [second EXCEPT ![Step] = clock]
  /\ UNCHANGED <<plan, target, clock, left, received>>

(* FINAL_STATUS is set by a failure and by nothing else. *)
StatusAfter(status) == IF status = "failure" THEN "failure" ELSE script.status

(* The caller writes "|| break" after a step that failed, but there is no   *)
(* loop to leave: the next step follows whatever became of this one.       *)
Ends(status) ==
  script' = [script EXCEPT !.at = "backup", !.backup = NoBackup,
    !.results = Append(@, [status |-> status, backup |-> script.backup]),
    !.status = StatusAfter(status)]

Works ==
  /\ script.at = "run"
  /\ target' = <<Step, "done">>
  /\ Ends("success")
  /\ UNCHANGED <<plan, copies, clock, left, received, before, second>>

(* The command fails, before or after its first write. *)
Fails ==
  /\ script.at = "run"
  /\ target' \in {target, <<Step, "part">>}
  /\ Ends("failure")
  /\ UNCHANGED <<plan, copies, clock, left, received, before, second>>

(***************************************************************************)
(* run_command_with_timeout: the shell of the step is killed, not what it  *)
(* has started; and the command may have ended just when the limit was hit.*)
(***************************************************************************)
TimesOut ==
  /\ script.at = "run"
  /\ \/ target' = <<Step, "done">> /\ UNCHANGED left
     \/ target' \in {target, <<Step, "part">>} /\ left' \in {left, left \cup {Step}}
  /\ Ends("failure")
  /\ UNCHANGED <<plan, copies, clock, received, before, second>>

(* The script's last call, without a second try. *)
Send(arrives) ==
  /\ script.at = "backup" /\ Step = Len(plan) + 1
  /\ script' = [script EXCEPT !.at = "end"]
  /\ received' = IF arrives THEN [status |-> script.status, results |-> script.results]
                 ELSE received
  /\ UNCHANGED <<plan, target, copies, clock, left, before, second>>

-----------------------------------------------------------------------------
(* The host *)

Tick ==
  /\ clock < Seconds /\ clock' = clock + 1
  /\ UNCHANGED <<plan, script, target, copies, left, received, before, second>>

(* What a killed step has started comes to its end. *)
Lingers(i) ==
  /\ i \in left
  /\ left' = left \ {i}
  /\ target' \in {target, <<i, "done">>}
  /\ UNCHANGED <<plan, script, copies, clock, received, before, second>>

Reboot ==
  /\ script.at \in {"backup", "run"}
  /\ script' = [script EXCEPT !.at = "end"]
  /\ left' = {}
  /\ UNCHANGED <<plan, target, copies, clock, received, before, second>>

Next ==
  \/ Prepare \/ Works \/ Fails \/ TimesOut \/ Tick \/ Reboot
  \/ \E arrives \in BOOLEAN : Send(arrives)
  \/ \E i \in Steps : Lingers(i)

Spec == Init /\ [][Next]_vars

-----------------------------------------------------------------------------
(* Properties *)

TypeOK ==
  /\ plan \in UNION {[1..n -> Kinds] : n \in Steps}
  /\ script \in [at : {"backup", "run", "end"}, backup : Backups, status : Status,
                 results : Seq([status : Status, backup : Backups])]
  /\ Len(script.results) <= Len(plan)
  /\ target \in Contents /\ clock \in 0..Seconds /\ left \subseteq Steps
  /\ copies \in [0..Seconds -> Contents]
  /\ received = NoReport \/ received = [status |-> script.status, results |-> script.results]
  /\ before \in [Steps -> Contents] /\ second \in [Steps -> 0..Seconds]

(* What is saved in a backup, as an administrator finds it later. *)
Saved(backup) == IF backup[1] = "copy" THEN copies[backup[2]] ELSE backup[2]

(***************************************************************************)
(* Whatever failed, was killed or still goes on: putting the reported      *)
(* backup of a step back, which writes the whole file, restores what that  *)
(* step found (build_backup_paths_json), unless another copy was made in   *)
(* the same second, which overwrites it.                                   *)
(***************************************************************************)
BackupsRestore ==
  \A k \in DOMAIN received.results :
    \/ plan[k] = "none"
    \/ plan[k] = "copy" /\ \E i \in DOMAIN plan \ {k} : plan[i] = "copy" /\ second[i] = second[k]
    \/ Saved(received.results[k].backup) = before[k]

(***************************************************************************)
(* A stage reported as a success has changed the host with every step, and *)
(* nothing it started goes on (FINAL_STATUS, complete_payload).            *)
(***************************************************************************)
SuccessIsWhole ==
  received.status = "success" =>
    /\ target = <<Len(plan), "done">> /\ left = {}
    /\ \A k \in 2..Len(plan) : before[k] = <<k - 1, "done">>

(* "Stop after a failed step", as the settings page calls                  *)
(* REMEDIATION_STOP_ON_FAILURE: no step is started after one that failed.  *)
StopsAtFailure ==
  \A i \in DOMAIN script.results :
    script.results[i].status = "failure" =>
      Len(script.results) = i /\ script.at # "run"

=============================================================================
