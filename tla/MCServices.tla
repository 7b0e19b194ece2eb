----------------------------- MODULE MCServices -----------------------------
(***************************************************************************)
(* Ten services that share no state, for TLC: the behaviours of this       *)
(* specification are those of each of them, with the others at rest.  The  *)
(* module extends the one that holds the refresh tokens, whose proofs are  *)
(* the longest, and instantiates the others.                               *)
(***************************************************************************)
EXTENDS TokenRotation, TLC

CONSTANTS
  Passive, OnMatch, OnService, Verifiers, MaxRows,
  Processes, MaxWrites,
  MaxJobs, MaxTasks, Requests, MaxRetries,
  Digits, Letters, MaxLeft, MaxRight,
  Writers, Logins, MaxSecrets,
  Channels, Urls, Wire, Json, MaxAttempts, Threshold,
  LastStep, StopsOnFailure, MaxAgain,
  Applies,
  MaxSteps, Seconds

VARIABLES
  service,                                                      \* who moves
  rows, run, alerted, overlap,                                  \* RiskFindings
  version, cache, load, unsaid, inbox, link, missed,            \* GatewayConfig
  job, task, request, port, scanned,                            \* LocalScan
  texts, part, at, result,                                      \* RpmVersion
  row, known, writer, work, confirmed, proved, mixed,           \* HostAccess
  enabled, cool, failures, learned, ask,                        \* ModelCall
  entry, worker, verifier, overtaken,                           \* FindingRun
  file, env, apply, loaded,                                     \* SettingsApply
  plan, script, target, copies, clock, left, received, before, second    \* HostScript

F == INSTANCE RiskFindings
G == INSTANCE GatewayConfig
S == INSTANCE LocalScan
R == INSTANCE RpmVersion
H == INSTANCE HostAccess
M == INSTANCE ModelCall
X == INSTANCE FindingRun
P == INSTANCE SettingsApply
C == INSTANCE HostScript

ASSUME ServicesAssumption ==
  /\ TokenRotationAssumption /\ F!RiskFindingsAssumption
  /\ G!GatewayConfigAssumption /\ S!LocalScanAssumption
  /\ R!RpmVersionAssumption /\ H!HostAccessAssumption
  /\ M!ModelCallAssumption /\ X!FindingRunAssumption /\ C!HostScriptAssumption

tokens == <<record, family, lock, call, issued, held, marked, alarm, overrun>>
findings == <<rows, run, alerted, overlap>>
gateway == <<version, cache, load, unsaid, inbox, link, missed>>
scan == <<job, task, request, port, scanned>>
versions == <<texts, part, at, result>>
access == <<row, known, writer, work, confirmed, proved, mixed>>
model == <<enabled, cool, failures, learned, ask>>
fix == <<entry, worker, verifier, overtaken>>
settings == <<file, env, apply, loaded>>
steps == <<plan, script, target, copies, clock, left, received, before, second>>

services == <<service, tokens, findings, gateway, scan, versions, access, model, fix, settings, steps>>

ServicesInit ==
  /\ service \in {"tokens", "findings", "gateway", "scan", "versions", "access", "model", "fix", "settings", "steps"}
  /\ Init /\ F!Init /\ G!Init /\ S!Init /\ H!Init /\ M!Init /\ X!Init /\ P!Init
  /\ R!Init /\ C!Init
  /\ service # "steps" => plan = <<"none">>
  /\ service # "versions" => texts = [left |-> <<"0">>, right |-> <<"0">>]

ServicesNext ==
  /\ UNCHANGED service
  /\ \/ service = "tokens" /\ Next
        /\ UNCHANGED <<findings, gateway, scan, versions, access, model, fix, settings, steps>>
     \/ service = "findings" /\ F!Next
        /\ UNCHANGED <<tokens, gateway, scan, versions, access, model, fix, settings, steps>>
     \/ service = "gateway" /\ G!Next
        /\ UNCHANGED <<tokens, findings, scan, versions, access, model, fix, settings, steps>>
     \/ service = "scan" /\ S!Next
        /\ UNCHANGED <<tokens, findings, gateway, versions, access, model, fix, settings, steps>>
     \/ service = "versions" /\ R!Next
        /\ UNCHANGED <<tokens, findings, gateway, scan, access, model, fix, settings, steps>>
     \/ service = "access" /\ H!Next
        /\ UNCHANGED <<tokens, findings, gateway, scan, versions, model, fix, settings, steps>>
     \/ service = "model" /\ M!Next
        /\ UNCHANGED <<tokens, findings, gateway, scan, versions, access, fix, settings, steps>>
     \/ service = "fix" /\ X!Next
        /\ UNCHANGED <<tokens, findings, gateway, scan, versions, access, model, settings, steps>>
     \/ service = "settings" /\ P!Next
        /\ UNCHANGED <<tokens, findings, gateway, scan, versions, access, model, fix, steps>>
     \/ service = "steps" /\ C!Next
        /\ UNCHANGED <<tokens, findings, gateway, scan, versions, access, model, fix, settings>>

ServicesSpec == ServicesInit /\ [][ServicesNext]_services

(* Values for constants: a proxy with two base URLs beside a local Ollama;  *)
(* versions of two digits and a letter.                                    *)
TwoAndOne == [proxy |-> <<"root", "v1">>, local |-> <<"host">>]
AutoAndOllama == [proxy |-> "auto", local |-> "ollama"]
ZeroAndOne == <<"0", "1">>
OnlyA == <<"a">>

(* The two callers, verifiers, processes, writers and requests of the       *)
(* instance are exchanged, all at once: only one service moves.            *)
Renamings ==
  {c @@ v @@ p @@ w @@ a : c \in Permutations(Callers), v \in Permutations(Verifiers),
     p \in Permutations(Processes), w \in Permutations(Writers), a \in Permutations(Applies)}

Exchange ==
  {r \in Renamings : (\E x \in DOMAIN r : r[x] = x) => \A x \in DOMAIN r : r[x] = x}

(* Every variable of the service that moves has its type. *)
EachTypeOK ==
  CASE service = "tokens" -> TypeOK
    [] service = "findings" -> F!TypeOK
    [] service = "gateway" -> G!TypeOK
    [] service = "scan" -> S!TypeOK
    [] service = "versions" -> R!TypeOK
    [] service = "access" -> H!TypeOK
    [] service = "model" -> M!TypeOK
    [] service = "fix" -> X!TypeOK
    [] service = "settings" -> P!TypeOK
    [] service = "steps" -> C!TypeOK

(* What an undisturbed verification leaves open is what it saw, and without *)
(* an overlap no alert is repeated while its finding is open (findings).   *)
FindingsAreSeen == F!OpenIsWhatWasSeen /\ F!AlertsAreNews

(* A process that was told everything serves no channels of an earlier version. *)
CacheFollowsDatabase == service = "gateway" => G!CacheFollowsDatabase

(* A job whose tasks all succeeded is completed and probed, and only a port *)
(* scan that found a port closed closes it (local scan).                   *)
ScansAreBelieved == service = "scan" => S!AllDoneIsComplete /\ S!ClosedOnlyByScan

(* The comparison of two versions is that of two sort keys (rule engine). *)
ComparesKeys == service = "versions" => R!ComparesKeys

(* Work on a host is done with a secret that a login there has proved, and  *)
(* whose use an administrator has confirmed (host credentials).            *)
WorkIsVouched == service = "access" => H!WorkIsProven /\ H!WorkIsConfirmed

(* A caller of the model is given text of one answer only (model calls). *)
OneWholeAnswer == service = "model" => M!OneWholeAnswer

(* The success of a finding's remediation is backed by its steps and verdict. *)
SuccessIsBacked == service = "fix" => X!SuccessIsBacked

(* Settings said to be applied were loaded by both services. *)
AppliedIsLoaded == service = "settings" => P!AppliedIsLoaded

(* A stage reported as a success has done every step, is over, and has     *)
(* backups that restore what its steps found (script on the host).         *)
ReportsAreTrue == service = "steps" => C!BackupsRestore /\ C!SuccessIsWhole
=============================================================================
