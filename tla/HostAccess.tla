----------------------------- MODULE HostAccess -----------------------------
(***************************************************************************)
(* The SSH credential of one host and the work done with it: saving,       *)
(* importing and verifying it, collections, a finding's remediation and    *)
(* the terminal (api/v1/endpoints/collection.py, tasks/collection_tasks.py,*)
(* services/data_exchange_service.py, ssh_terminal_service.py,             *)
(* remediation_executor.py).                                               *)
(***************************************************************************)
EXTENDS Naturals

CONSTANTS
  Writers,        \* requests that change the credential
  Logins,           \* tasks and terminals
  MaxSecrets      \* bound: saves and imports

HostAccessAssumption == MaxSecrets \in Nat \ {0} /\ Writers \cap Logins = {}

VARIABLES
  row,            \* the credential: its secret (0: no row), admin_authorized, last_verification_status
  known,          \* secrets entered so far
  writer,         \* requests under way
  work,           \* jobs
  confirmed,      \* secrets saved with the confirmation of an administrator
  proved,         \* secrets with which a login was seen to have privileges
  mixed           \* a writer committed over a row that had changed since it read it

vars == <<row, known, writer, work, confirmed, proved, mixed>>

Secrets == 1..MaxSecrets
Statuses == {"none", "failed", "success"}
Rows == [secret : 0..MaxSecrets, admin : BOOLEAN, status : Statuses]
Absent == [secret |-> 0, admin |-> FALSE, status |-> "none"]

Idle == [busy |-> FALSE, read |-> Absent, new |-> Absent]
Kinds == {"collect", "batch", "execute", "terminal"}
Resting == [kind |-> "none", state |-> "idle", asked |-> 0, read |-> Absent, new |-> Absent]

Init ==
  /\ row = Absent /\ known = 0
  /\ writer = [w \in Writers |-> Idle]
  /\ work = [j \in Logins |-> Resting]
  /\ confirmed = {} /\ proved = {} /\ mixed = FALSE

-----------------------------------------------------------------------------
(* Rows as writers leave them. *)
Saved(s) == [secret |-> s, admin |-> TRUE, status |-> "none"]

Imported(read, s) == [read EXCEPT !.secret = s, !.admin = FALSE]

Verified(read, ok) == [read EXCEPT !.status = IF ok THEN "success" ELSE "failed"]

(* _credential_ready_for_authorized_collection and its copies; a success   *)
(* always comes with the privilege root or sudo.                           *)
Ready(r) == r.secret # 0 /\ r.admin /\ r.status = "success"

(* A commit writes the columns whose value differs from the value read. *)
Merge(read, new) == [c \in DOMAIN row |-> IF new[c] # read[c] THEN new[c] ELSE row[c]]

Commit(read, new) ==
  /\ row' = Merge(read, new)
  /\ mixed' = (mixed \/ read # row)

(* verify_authorization: a login with the secret, which succeeds or not. *)
Login(s, ok) == proved' = IF ok THEN proved \cup {s} ELSE proved

-----------------------------------------------------------------------------
Start(w, new) ==
  /\ writer[w] = Idle
  /\ writer' = [writer EXCEPT ![w] = [busy |-> TRUE, read |-> row, new |-> new]]

(* _upsert_manual_asset_credential: the schema insists on the confirmation. *)
SaveRead(w) ==
  /\ known < MaxSecrets
  /\ known' = known + 1
  /\ Start(w, Saved(known + 1))
  /\ confirmed' = confirmed \cup {known + 1}
  /\ UNCHANGED <<row, work, proved, mixed>>

(* _upsert_password_credential of a CSV import *)
ImportRead(w) ==
  /\ known < MaxSecrets
  /\ known' = known + 1
  /\ Start(w, Imported(row, known + 1))
  /\ UNCHANGED <<row, work, confirmed, proved, mixed>>

(* _verify_manual_asset_credential and run_asset_probe: the login *)
VerifyRead(w) ==
  /\ row.secret # 0 /\ row.admin
  /\ \E ok \in BOOLEAN :
       /\ Start(w, Verified(row, ok))
       /\ Login(row.secret, ok)
  /\ UNCHANGED <<row, known, work, confirmed, mixed>>

(* The commit; a second insert of the same name is refused. *)
WriterCommit(w) ==
  /\ writer[w] # Idle
  /\ writer' = [writer EXCEPT ![w] = Idle]
  /\ IF writer[w].read.secret = 0 /\ row.secret # 0
     THEN UNCHANGED <<row, mixed>>
     ELSE Commit(writer[w].read, writer[w].new)
  /\ UNCHANGED <<known, work, confirmed, proved>>

-----------------------------------------------------------------------------
(* The request: run_collection, execute_remediation_plan and a terminal    *)
(* ticket look at the row, run_collection_batch does not.                  *)
Ask(j, kind) ==
  /\ work[j].state = "idle"
  /\ kind = "batch" \/ Ready(row)
  /\ work' = [work EXCEPT ![j] =
       [Resting EXCEPT !.kind = kind, !.state = "queued", !.asked = IF kind = "execute" THEN row.secret ELSE 0]]
  /\ UNCHANGED <<row, known, writer, confirmed, proved, mixed>>

(* The job works with the row as it is in memory. *)
Reads(j, kind, state, new) ==
  /\ work[j].state = "queued" /\ work[j].kind = kind
  /\ row.secret # 0
  /\ work' = [work EXCEPT ![j].state = state, ![j].read = row, ![j].new = new]
  /\ UNCHANGED <<row, known, writer, confirmed, mixed>>

Becomes(j, state) ==
  /\ work' = [work EXCEPT ![j].state = state]
  /\ UNCHANGED <<row, known, writer, confirmed, mixed>>

End(j) == work' = [work EXCEPT ![j] = Resting]

(* run_collection_for_asset: it logs in with the secret it reads, whatever *)
(* the row says, and then looks at the row in memory, now with its verdict.*)
CollectLogin(j) ==
  \E ok \in BOOLEAN :
    /\ Reads(j, "collect", "read", Verified(row, ok))
    /\ Login(row.secret, ok)

CollectInventory(j) ==
  /\ work[j].state = "read" /\ work[j].kind = "collect"
  /\ Ready(work[j].new)
  /\ Becomes(j, "working")
  /\ UNCHANGED proved

(* The snapshot, of a refused collection too, and the verdict are one commit. *)
CollectCommit(j) ==
  /\ work[j].kind = "collect"
  /\ work[j].state = "working" \/ (work[j].state = "read" /\ ~Ready(work[j].new))
  /\ End(j)
  /\ Commit(work[j].read, work[j].new)
  /\ UNCHANGED <<known, writer, confirmed, proved>>

(* The hosts of a batch are opened after the rows of all were read. *)
BatchRead(j) == Ready(row) /\ Reads(j, "batch", "read", row) /\ UNCHANGED proved

(* Mutation: a batch that takes the verdict of the row for its own. *)
BatchLoginByRow(s, ok) == ok /\ UNCHANGED proved

(* collect_one without an authorization_result verifies on its connection. *)
BatchLogin(s, ok) == Login(s, ok)

BatchCollect(j) ==
  /\ work[j].state = "read" /\ work[j].kind = "batch"
  /\ \E ok \in BOOLEAN :
       /\ BatchLogin(work[j].read.secret, ok)
       /\ Becomes(j, IF ok THEN "working" ELSE "refused")

(* run_remediation_execution: it verifies the secret it reads by a login,  *)
(* and does not ask whether an administrator confirmed it.                 *)
Execute(j) == Reads(j, "execute", "working", row) /\ Login(row.secret, TRUE)

(* asset_terminal_ws looks again when the ticket is used, and opens. *)
TerminalOpen(j) == Ready(row) /\ Reads(j, "terminal", "working", row) /\ UNCHANGED proved

(* The end of a job, an exception or a cancel: the rest of it is not stored; *)
(* a retry is another job.                                                   *)
JobEnds(j) ==
  /\ work[j].state # "idle"
  /\ End(j)
  /\ UNCHANGED <<row, known, writer, confirmed, proved, mixed>>

-----------------------------------------------------------------------------
Next ==
  \/ \E w \in Writers : SaveRead(w) \/ ImportRead(w) \/ VerifyRead(w) \/ WriterCommit(w)
  \/ \E j \in Logins :
       \/ \E kind \in Kinds : Ask(j, kind)
       \/ CollectLogin(j) \/ CollectInventory(j) \/ CollectCommit(j)
       \/ BatchRead(j) \/ BatchCollect(j) \/ Execute(j) \/ TerminalOpen(j)
       \/ JobEnds(j)

Spec == Init /\ [][Next]_vars

-----------------------------------------------------------------------------
(* Every variable has its type. *)
TypeOK ==
  /\ row \in Rows /\ known \in 0..MaxSecrets
  /\ \A w \in Writers :
       /\ writer[w].read \in Rows /\ writer[w].new \in Rows /\ writer[w].busy \in BOOLEAN
  /\ \A j \in Logins :
       /\ work[j].kind \in Kinds \cup {"none"} /\ work[j].asked \in 0..MaxSecrets
       /\ work[j].state \in {"idle", "queued", "read", "working", "refused"}
       /\ work[j].read \in Rows /\ work[j].new \in Rows
  /\ confirmed \subseteq Secrets /\ proved \subseteq Secrets /\ mixed \in BOOLEAN

(***************************************************************************)
(* Whatever is done on a host is done with a secret that a login has shown *)
(* to have privileges there, however saves, imports, verifications and     *)
(* jobs overlap: collections and remediations look for themselves.  Only a *)
(* terminal relies on the row, which may mix the verdict on one secret     *)
(* with another when writers overlap (collect_one, verify_authorization,   *)
(* _ensure_terminal_authorized).                                           *)
(***************************************************************************)
WorkIsProven ==
  \A j \in Logins : work[j].state = "working" =>
    work[j].read.secret \in proved \/ (work[j].kind = "terminal" /\ mixed)

(***************************************************************************)
(* It is done with a secret whose use an administrator has confirmed,      *)
(* although an import replaces it and leaves the old verdict on the row,   *)
(* and jobs wait between request and work.  Overlapping writers are        *)
(* excepted, and a finding's remediation that finds another secret than    *)
(* the one of its request: it does not look at the confirmation again      *)
(* (_upsert_password_credential, run_remediation_execution).               *)
(***************************************************************************)
WorkIsConfirmed ==
  \A j \in Logins : work[j].state = "working" =>
    \/ work[j].read.secret \in confirmed
    \/ mixed
    \/ work[j].kind = "execute" /\ work[j].read.secret # work[j].asked
=============================================================================
