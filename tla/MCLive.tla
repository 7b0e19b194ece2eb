------------------------------- MODULE MCLive -------------------------------
(***************************************************************************)
(* A host remediation and an installation of a host runner, one or the     *)
(* other, for TLC: what each of them must eventually do, in instances      *)
(* small enough for that question.                                         *)
(***************************************************************************)
EXTENDS Naturals, Sequences

CONSTANTS
  MaxSessions, MaxTasks, NumStages, StepStates, Clients, AutoReverify,
  Requests, Troubles,                                           \* Remediation
  MaxInstalls, MaxRetries, Modes, Accidents                     \* HostRunner

VARIABLES
  service,                                                      \* who moves
  steps, runner, sess, work, reverify, job, req,                \* Remediation
  row, enq, task, created, old, worker, reader, mode, disk, proc,
  minted, queued, hurt                                          \* HostRunner

R == INSTANCE Remediation WITH Events <- Troubles, task <- work
H == INSTANCE HostRunner WITH Events <- Accidents

ASSUME LiveAssumption == R!RemediationAssumption /\ H!HostRunnerAssumption

session == <<steps, runner, sess, work, reverify, job, req>>
install == <<row, enq, task, created, old, worker, reader, mode, disk, proc, minted, queued, hurt>>

vars == <<service, session, install>>

(* Who does not move rests in one of its initial states. *)
Init ==
  /\ service \in {"session", "install"} /\ R!Init /\ H!Init
  /\ service = "session" => mode = CHOOSE m \in Modes : TRUE
  /\ service = "install" => steps = [k \in 1..NumStages |-> CHOOSE held \in StepStates : TRUE]

Next ==
  /\ UNCHANGED service
  /\ \/ service = "session" /\ R!Next /\ UNCHANGED install
     \/ service = "install" /\ H!Next /\ UNCHANGED session

(* The fairness of each, as its module states and justifies it.  A GET      *)
(* changes the client it begins for, so its weak fairness only says that   *)
(* it is disabled again and again; so it is written, since TLC is slow to  *)
(* find out whether a GET is ENABLED.                                      *)
FairSession ==
  /\ WF_session(service = "session" /\ R!RunnerStep)
  /\ \A c \in Clients :
       /\ WF_session(service = "session" /\ R!RequestStep(c))
       /\ []<>(service # "session" \/ "get" \notin Requests \/ req[c].op # "none" \/ R!Rows = {})
  /\ \A t \in 1..MaxTasks :
       /\ WF_session(service = "session" /\ R!ReverifyStep(t))
       /\ WF_session(service = "session" /\ (t \in DOMAIN work /\ R!SweepTask(t)))

FairInstall ==
  /\ WF_install(service = "install" /\ H!GetBegin)
  /\ WF_install(service = "install" /\ H!GetCommit)
  /\ \A i \in 1..MaxInstalls : WF_install(service = "install" /\ H!AgeTask(i))

FairSpec == Init /\ [][Next]_vars /\ FairSession /\ FairInstall

(* No session stays "running" for ever, unless its last task waits for a     *)
(* verdict that nobody will give any more (host remediation).              *)
EveryRunEnds == R!EveryRunEnds

(* No runner stays "installing" while a task of it is on record. *)
InstallSettles == H!InstallSettles

(* A runner that registered is shown as installed in the end. *)
RegisteredIsShown == H!RegisteredIsShown
=============================================================================
