---------------------------- MODULE SettingsApply ----------------------------
(***************************************************************************)
(* Applying the platform settings: the request that renders the runtime    *)
(* environment, the helper's thread that writes it, recreates the services,*)
(* checks what they loaded and calls back                                  *)
(* (services/platform_settings_service.py, infra/settings-helper/app.py).  *)
(***************************************************************************)
EXTENDS Naturals

CONSTANTS
  Applies         \* requests; each names the values it enters

VARIABLES
  file,           \* backend/.env.runtime: the values of the form and the API key
  env,            \* what each service read when it was last created
  apply,          \* the requests with their task and thread
  loaded          \* services that had what a request changed at some moment after its write

vars == <<file, env, apply, loaded>>

Services == {"backend", "worker"}
Fields == {"form", "key"}
Values == Applies \cup {"first"}
Files == [Fields -> Values]
First == [f \in Fields |-> "first"]

New == [at |-> "none", status |-> "none", content |-> First, changed |-> {},
        read |-> First, up |-> {}, checked |-> {}, bad |-> FALSE]

Init ==
  /\ file = First
  /\ env = [s \in Services |-> First]
  /\ apply = [a \in Applies |-> New]
  /\ loaded = [a \in Applies |-> {}]

-----------------------------------------------------------------------------
(* _build_updated_env_map: every field of the form, the API key only if a   *)
(* new one was entered, on the file as it is now.                          *)
Content(a, entersKey) == [form |-> a, key |-> IF entersKey THEN a ELSE file["key"]]

Changed(content) == {f \in Fields : content[f] # file[f]}

Put(a, entersKey) ==
  /\ apply[a].at = "none"
  /\ apply' = [apply EXCEPT ![a] = [New EXCEPT !.at = "sent", !.status = "RUNNING", !.content = Content(a, entersKey),
                                               !.changed = Changed(Content(a, entersKey))]]
  /\ UNCHANGED <<file, env, loaded>>

Becomes(a, at) == apply' = [apply EXCEPT ![a].at = at]

(* The helper answers 202 and starts a thread. *)
Accept(a) ==
  /\ apply[a].at = "sent"
  /\ Becomes(a, "accepted")
  /\ UNCHANGED <<file, env, loaded>>

(* The post fails, before or after the helper took it. *)
PostFails(a) ==
  /\ apply[a].at = "sent"
  /\ \E took \in BOOLEAN :
       apply' = [apply EXCEPT ![a].status = "FAILURE", ![a].at = IF took THEN "accepted" ELSE "ended"]
  /\ UNCHANGED <<file, env, loaded>>

-----------------------------------------------------------------------------
(* A service has what a request changed. *)
Has(e, a) == \A f \in apply[a].changed : e[f] = apply[a].content[f]

Written(a) == apply[a].at \notin {"none", "sent", "accepted"}

WriteFile(a) ==
  /\ apply[a].at = "accepted"
  /\ file' = apply[a].content
  /\ Becomes(a, "written")
  /\ loaded' = [loaded EXCEPT ![a] = {s \in Services : Has(env[s], a)}]
  /\ UNCHANGED env

(* docker compose reads the file once, for all the services it creates. *)
Resolve(a) ==
  /\ apply[a].at = "written"
  /\ apply' = [apply EXCEPT ![a].at = "composing", ![a].read = file]
  /\ UNCHANGED <<file, env, loaded>>

(* docker compose up --force-recreate: each container gets what was read, *)
(* which another request may have replaced in the file by now.            *)
Recreate(a, s) ==
  /\ apply[a].at = "composing" /\ s \notin apply[a].up
  /\ env' = [env EXCEPT ![s] = apply[a].read]
  /\ apply' = [apply EXCEPT ![a].up = @ \cup {s}]
  /\ loaded' = [b \in Applies |->
                 IF Written(b) /\ Has(apply[a].read, b) THEN loaded[b] \cup {s} ELSE loaded[b]]
  /\ UNCHANGED file

(* The backend answers its health check. *)
Healthy(a) ==
  /\ apply[a].at = "composing" /\ apply[a].up = Services
  /\ Becomes(a, "checking")
  /\ UNCHANGED <<file, env, loaded>>

VerifiedServices ==
  Services

(* Mutation: one value that was loaded stands for all of them. *)
CheckAnyValue(a, s) ==
  /\ apply[a].at = "checking"
  /\ s \in VerifiedServices \ apply[a].checked
  /\ s = "worker" => "backend" \in apply[a].checked
  /\ \E matches \in BOOLEAN :
       /\ matches => \E f \in apply[a].changed : env[s][f] = apply[a].content[f]
       /\ apply' = [apply EXCEPT ![a].checked = @ \cup {s}, ![a].bad = @ \/ ~matches]
  /\ UNCHANGED <<file, env, loaded>>

(* _verify_service_runtime_sync, the backend first; it polls until it finds *)
(* the values or gives up, and the worker is looked at in either case.     *)
Check(a, s) ==
  /\ apply[a].at = "checking"
  /\ s \in VerifiedServices \ apply[a].checked
  /\ s = "worker" => "backend" \in apply[a].checked
  /\ \E matches \in BOOLEAN :
       /\ IF apply[a].changed = {} THEN matches ELSE matches => Has(env[s], a)
       /\ apply' = [apply EXCEPT ![a].checked = @ \cup {s}, ![a].bad = @ \/ ~matches]
  /\ UNCHANGED <<file, env, loaded>>

(* The success is posted and, when no answer to it arrives, a failure. *)
ReportSuccess(a) ==
  /\ apply[a].at = "checking" /\ apply[a].checked = VerifiedServices /\ ~apply[a].bad
  /\ \E answered \in BOOLEAN :
       apply' = [apply EXCEPT ![a].status = "SUCCESS", ![a].at = IF answered THEN "ended" ELSE "failing"]
  /\ UNCHANGED <<file, env, loaded>>

(* The write, compose, the health check, a verification or the callback fails. *)
Fail(a) ==
  /\ \/ apply[a].at \in {"accepted", "written", "composing"}
     \/ apply[a].at = "checking" /\ apply[a].checked = VerifiedServices
  /\ Becomes(a, "failing")
  /\ UNCHANGED <<file, env, loaded>>

(* complete_platform_settings_apply takes what it is told; the callback may *)
(* not arrive.                                                             *)
ReportFailure(a) ==
  /\ apply[a].at = "failing"
  /\ \E arrives \in BOOLEAN :
       apply' = [apply EXCEPT ![a].at = "ended", ![a].status = IF arrives THEN "FAILURE" ELSE @]
  /\ UNCHANGED <<file, env, loaded>>

(* The helper dies with its threads. *)
HelperDies ==
  /\ apply' = [a \in Applies |-> IF apply[a].at \in {"none", "sent"} THEN apply[a] ELSE [apply[a] EXCEPT !.at = "ended"]]
  /\ UNCHANGED <<file, env, loaded>>

Next ==
  \/ HelperDies
  \/ \E a \in Applies :
       \/ \E entersKey \in BOOLEAN : Put(a, entersKey)
       \/ Accept(a) \/ PostFails(a) \/ WriteFile(a) \/ Resolve(a) \/ Healthy(a)
       \/ \E s \in Services : Recreate(a, s) \/ Check(a, s)
       \/ ReportSuccess(a) \/ Fail(a) \/ ReportFailure(a)

Spec == Init /\ [][Next]_vars

-----------------------------------------------------------------------------
TypeOK ==
  /\ file \in Files /\ env \in [Services -> Files]
  /\ apply \in [Applies -> [at : {"none", "sent", "accepted", "written", "composing", "checking",
                                  "failing", "ended"},
                            status : {"none", "RUNNING", "SUCCESS", "FAILURE"}, content : Files,
                            changed : SUBSET Fields, read : Files, up : SUBSET Services, checked : SUBSET Services, bad : BOOLEAN]]
  /\ loaded \in [Applies -> SUBSET Services]

(* A task that says that backend and worker have loaded the settings tells  *)
(* the truth although another request may write the file between their     *)
(* recreations: each of them ran, at some moment since, with every value   *)
(* the request changed (infra/settings-helper/app.py:472).                 *)
AppliedIsLoaded == \A a \in Applies : apply[a].status = "SUCCESS" => loaded[a] = Services
=============================================================================
