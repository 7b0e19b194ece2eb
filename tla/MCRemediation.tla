--------------------------- MODULE MCRemediation ---------------------------
(* Instances of Remediation for model checking. *)
EXTENDS Remediation

(* Bound: the host is offline only as long as nothing was approved. *)
OfflineBeforeApproval == runner = "offline" => task = <<>>
=============================================================================
