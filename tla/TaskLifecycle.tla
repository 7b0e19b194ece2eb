--------------------------- MODULE TaskLifecycle ---------------------------
(***************************************************************************)
(* What the task subsystem promises to everything that reads task rows     *)
(* (the task list of the web client, the remediation sessions, the agent): *)
(* a row is opened once; it may be closed and removed at any time; it can  *)
(* be opened again only while something that may still run it is alive;    *)
(* and once nothing can run it any more it never opens again.  TaskRun     *)
(* implements this contract.                                               *)
(***************************************************************************)
CONSTANT Tasks

VARIABLES
  life,   \* life[t]: is there a row, and is it open (PENDING, RUNNING, RETRY)
          \* or closed (SUCCESS, FAILURE, CANCELED)?
  live    \* live[t]: a message, a worker or the enqueuer may still act for t

vars == <<life, live>>

Life == {"absent", "open", "closed", "gone"}

TypeOK ==
  /\ life \in [Tasks -> Life]
  /\ live \in [Tasks -> BOOLEAN]

Init ==
  /\ life = [t \in Tasks |-> "absent"]
  /\ live = [t \in Tasks |-> FALSE]

Open(t) ==
  /\ life[t] = "absent" /\ life'[t] = "open"
  /\ live'[t]

Close(t) ==
  /\ life[t] = "open" /\ life'[t] = "closed"
  /\ live'[t] = live[t]

Reopen(t) ==
  /\ life[t] = "closed" /\ life'[t] = "open"
  /\ live[t] /\ live'[t]

Remove(t) ==
  /\ life[t] \in {"open", "closed"} /\ life'[t] = "gone"
  /\ live'[t] = live[t]

Retire(t) ==
  /\ live[t] /\ ~live'[t]
  /\ life'[t] = life[t]

Idle(t) ==
  /\ life'[t] = life[t]
  /\ live'[t] = live[t]

(***************************************************************************)
(* The sweeper and the clear operation act on many rows in one             *)
(* transaction, so a step moves every task independently.                  *)
(***************************************************************************)
Next == \A t \in Tasks :
  \/ Open(t) \/ Close(t) \/ Reopen(t) \/ Remove(t) \/ Retire(t) \/ Idle(t)

Spec == Init /\ [][Next]_vars

(***************************************************************************)
(* Every row is in the end closed for good, or removed: no task stays      *)
(* open for ever, whatever crashed on the way.                             *)
(***************************************************************************)
Settles == \A t \in Tasks : <>[](life[t] # "open")
=============================================================================
