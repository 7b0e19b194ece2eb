---------------------------- MODULE MCHostRunner ----------------------------
(* Instances of HostRunner for model checking. *)
EXTENDS HostRunner

(***************************************************************************)
(* Bound: an install that is canceled, cleared or followed by a reboot is  *)
(* the only one; two installs meet without that.                           *)
(***************************************************************************)
AccidentsMeetOneInstall ==
  (\E i \in Install : i > 1 /\ enq[i].at # "idle") =>
     /\ ~proc[Boot].alive
     /\ \A i \in Install :
          /\ task[i] # "CANCELED"
          /\ task[i] = "none" => enq[i].at # "done"
=============================================================================
