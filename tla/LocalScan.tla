----------------------------- MODULE LocalScan -----------------------------
(***************************************************************************)
(* Discovery of one network by the platform itself: the request that finds *)
(* or creates its job, the scan task that finds hosts and stores assets,   *)
(* the deep task it enqueues, which scans ports, probes services, orders   *)
(* the risk verifications and completes the job, and what a retry of       *)
(* either does to the job both of them write.                              *)
(*                                                                         *)
(* The job's summary is one JSON value: each stage reads it, works for     *)
(* minutes and replaces it as a whole.  Of the summary the model keeps how *)
(* far its hosts have come, and of the hosts one port of one of them.      *)
(* What a task run may do besides (a report that overwrites a              *)
(* cancellation, the sweep) is in TaskRun; jobs of a campus zone are in    *)
(* CampusDiscovery.                                                        *)
(***************************************************************************)
EXTENDS Naturals, FiniteSets

CONSTANTS
  MaxJobs,    \* bound: jobs of the network, in creation order
  MaxTasks,   \* bound: task runs of these jobs
  Requests,   \* requests for the network that may be under way at once
  MaxRetries  \* max_retries of both tasks

LocalScanAssumption ==
  MaxJobs \in Nat \ {0} /\ MaxTasks \in Nat \ {0} /\ MaxRetries \in Nat

Jobs == 1..MaxJobs
Tasks == 1..MaxTasks
None == 0

VARIABLES
  job,     \* job[j]: the row
  task,    \* task[t]: the task run, its message and its worker
  request, \* request[r]: a POST /discovery/jobs
  port,    \* the stored port of the host
  scanned  \* history: a port scan found the port closed

vars == <<job, task, request, port, scanned>>

(***************************************************************************)
(* A summary: how far its hosts have come, whether the port is listed for  *)
(* the host, and whether it is in the host's scan_scope.                   *)
(***************************************************************************)
Hosts == {"none", "found", "scanned", "probed"}
Summary == [hosts : Hosts, open : BOOLEAN, scope : BOOLEAN]
NoHosts == [hosts |-> "none", open |-> FALSE, scope |-> FALSE]

JobStatus == {"absent", "pending", "running", "completed"}
Job == [status : JobStatus, summary : Summary]

ScanStep == {"discover", "search", "upsert", "store", "queue"}
DeepStep == {"ports", "scan", "services", "probe", "verify", "finalize"}
(* ended: failed for good, canceled, or lost with its worker. *)
TaskStatus == {"absent", "active", "success", "ended"}
Task == [status : TaskStatus, job : Jobs, at : ScanStep \cup DeepStep \cup {"end"},
         deep : BOOLEAN, view : Summary, retries : 0..MaxRetries]
NoTask == [status |-> "absent", job |-> 1, at |-> "end", deep |-> FALSE,
           view |-> NoHosts, retries |-> 0]

RequestStep == {"idle", "create", "task", "publish"}

TypeOK ==
  /\ job \in [Jobs -> Job]
  /\ task \in [Tasks -> Task]
  /\ request \in [Requests -> [at : RequestStep, job : Jobs]]
  /\ port \in {"none", "open", "closed"}
  /\ scanned \in BOOLEAN

Init ==
  /\ job = [j \in Jobs |-> [status |-> "absent", summary |-> NoHosts]]
  /\ task = [t \in Tasks |-> NoTask]
  /\ request = [r \in Requests |-> [at |-> "idle", job |-> 1]]
  /\ port = "none" /\ scanned = FALSE

(* uq_discovery_jobs_active_cidr: at most one of them. *)
ActiveJobs == {j \in Jobs : job[j].status \in {"pending", "running"}}
TasksOf(j) == {t \in Tasks : task[t].status # "absent" /\ task[t].job = j}
Live(j) == {t \in TasksOf(j) : task[t].status = "active"}
FreeTasks == {t \in Tasks : task[t].status = "absent"}
Least(S) == CHOOSE x \in S : \A y \in S : x <= y

NewTask(j, deep) ==
  [NoTask EXCEPT !.status = "active", !.job = j, !.deep = deep,
                 !.at = IF deep THEN "ports" ELSE "discover"]

-----------------------------------------------------------------------------
(* create_discovery_job *)

RequestGoes(r, step, j) == request' = [request EXCEPT ![r] = [at |-> step, job |-> j]]

(* get_active_job_by_cidr *)
Look(r) ==
  /\ request[r].at = "idle"
  /\ \/ \E j \in ActiveJobs : RequestGoes(r, "task", j)
     \/ ActiveJobs = {} /\ RequestGoes(r, "create", request[r].job)
  /\ UNCHANGED <<job, task, port, scanned>>

(***************************************************************************)
(* create_job; the index refuses a second active one, which is reused      *)
(* then.  The creator adds what was requested to the summary at once, which *)
(* has no hosts yet: a task that another request enqueues in between takes *)
(* seconds to find some.                                                   *)
(***************************************************************************)
Create(r) ==
  /\ request[r].at = "create"
  /\ \/ /\ ActiveJobs = {}
        /\ \E j \in Jobs :
             /\ j = Least({i \in Jobs : job[i].status = "absent"} \cup {MaxJobs})
             /\ job[j].status = "absent"
             /\ job' = [job EXCEPT ![j].status = "pending"]
             /\ RequestGoes(r, "task", j)
     \/ /\ \E j \in ActiveJobs : RequestGoes(r, "task", j)
        /\ UNCHANGED job
  /\ UNCHANGED <<task, port, scanned>>

(* ensure_scan_task: a task of the job that is not over is reused. *)
LookTask(r) ==
  /\ request[r].at = "task"
  /\ RequestGoes(r, IF Live(request[r].job) # {} THEN "idle" ELSE "publish", request[r].job)
  /\ UNCHANGED <<job, task, port, scanned>>

Publish(r) ==
  /\ request[r].at = "publish" /\ FreeTasks # {}
  /\ task' = [task EXCEPT ![Least(FreeTasks)] = NewTask(request[r].job, FALSE)]
  /\ RequestGoes(r, "idle", request[r].job)
  /\ UNCHANGED <<job, port, scanned>>

(* The process dies, before it enqueued anything. *)
RequestDies(r) ==
  /\ request[r].at # "idle"
  /\ RequestGoes(r, "idle", request[r].job)
  /\ UNCHANGED <<job, task, port, scanned>>

-----------------------------------------------------------------------------
(* run_asset_scan_task *)

At(t, step) == task[t].status = "active" /\ task[t].at = step
Goes(t, step) == task' = [task EXCEPT ![t].at = step, ![t].view = NoHosts]
Reads(t, step) ==
  task' = [task EXCEPT ![t].at = step, ![t].view = job[task[t].job].summary]
SaveSummary(j, s) == job' = [job EXCEPT ![j].summary = s]

(***************************************************************************)
(* discover_hosts: RUNNING is committed first, whatever the status was;    *)
(* the index refuses it when another job of the network is active.         *)
(***************************************************************************)
Discover(t) ==
  /\ At(t, "discover")
  /\ ActiveJobs \subseteq {task[t].job}
  /\ job' = [job EXCEPT ![task[t].job].status = "running"]
  /\ Goes(t, "search")
  /\ UNCHANGED <<request, port, scanned>>

(***************************************************************************)
(* The new summary replaces what the job had; its hosts have no ports.     *)
(* There may be no hosts at all.                                           *)
(***************************************************************************)
Search(t) ==
  /\ At(t, "search")
  /\ \E h \in {"none", "found"} : SaveSummary(task[t].job, [NoHosts EXCEPT !.hosts = h])
  /\ Goes(t, "upsert")
  /\ UNCHANGED <<request, port, scanned>>

Upsert(t) ==
  /\ At(t, "upsert")
  /\ Reads(t, "store")
  /\ UNCHANGED <<job, request, port, scanned>>

(***************************************************************************)
(* _upsert_asset_ports: listed ports are open; of the other ones only      *)
(* those in the scan_scope of the host are closed.                         *)
(***************************************************************************)
UpsertPort(s) ==
  CASE s.open -> "open"
    [] ~s.open /\ s.scope /\ port = "open" -> "closed"
    [] OTHER -> port

(***************************************************************************)
(* upsert_assets writes the summary it read only if the excluded hosts are *)
(* others by now.                                                          *)
(***************************************************************************)
Store(t) ==
  /\ At(t, "store")
  /\ job' \in {job, [job EXCEPT ![task[t].job].summary = task[t].view]}
  /\ port' = UpsertPort(task[t].view)
  /\ Goes(t, "queue")
  /\ UNCHANGED <<request, scanned>>

(* Every attempt enqueues a deep task.  The mutant: only the first one. *)
QueuesOnce(t) == \A u \in TasksOf(task[t].job) : ~task[u].deep
Queues(t) == FreeTasks # {}

(* _queue_followup_asset_scan_task *)
Queue(t) ==
  LET u == Least(FreeTasks) IN
  /\ At(t, "queue") /\ FreeTasks # {}
  /\ task' = IF Queues(t)
             THEN [task EXCEPT ![t].at = "end", ![u] = NewTask(task[t].job, TRUE)]
             ELSE [task EXCEPT ![t].at = "end"]
  /\ UNCHANGED <<job, request, port, scanned>>

-----------------------------------------------------------------------------
(* run_asset_scan_followup_task *)

Ports(t) ==
  /\ At(t, "ports")
  /\ Reads(t, "scan")
  /\ UNCHANGED <<job, request, port, scanned>>

(* full_port_scan: without hosts there is nothing to scan or to store. *)
Scan(t) ==
  LET s == task[t].view IN
  /\ At(t, "scan")
  /\ \/ /\ s.hosts = "none"
        /\ SaveSummary(task[t].job, s)
        /\ UNCHANGED <<port, scanned>>
     \/ /\ s.hosts # "none"
        /\ \E open \in BOOLEAN :
             LET seen == [hosts |-> "scanned", open |-> open, scope |-> TRUE] IN
             /\ SaveSummary(task[t].job, seen)
             /\ port' = UpsertPort(seen)
             /\ scanned' = (scanned \/ ~open)
  /\ Goes(t, "services")
  /\ UNCHANGED request

Services(t) ==
  /\ At(t, "services")
  /\ Reads(t, "probe")
  /\ UNCHANGED <<job, request, port, scanned>>

(* probe_open_services: the listed ports again, with their services. *)
Probe(t) ==
  LET s == task[t].view IN
  /\ At(t, "probe")
  /\ \/ /\ s.hosts = "none"
        /\ SaveSummary(task[t].job, s)
        /\ UNCHANGED port
     \/ /\ s.hosts # "none"
        /\ SaveSummary(task[t].job, [s EXCEPT !.hosts = "probed"])
        /\ port' = UpsertPort(s)
  /\ Goes(t, "verify")
  /\ UNCHANGED <<request, scanned>>

(* evaluate_risks: see RiskFindings for what it enqueues. *)
Verify(t) ==
  /\ At(t, "verify")
  /\ Goes(t, "finalize")
  /\ UNCHANGED <<job, request, port, scanned>>

(* finalize_job *)
Finalize(t) ==
  /\ At(t, "finalize")
  /\ job' = [job EXCEPT ![task[t].job].status = "completed"]
  /\ Goes(t, "end")
  /\ UNCHANGED <<request, port, scanned>>

-----------------------------------------------------------------------------
(* What the task runtime does around the stages *)

Succeed(t) ==
  /\ At(t, "end")
  /\ task' = [task EXCEPT ![t] = [NoTask EXCEPT !.status = "success", !.job = task[t].job, !.deep = task[t].deep]]
  /\ UNCHANGED <<job, request, port, scanned>>

(* The mutant: the attempts are not counted. *)
MayAlwaysRetry(t) == task[t].status = "active"
MayRetry(t) == task[t].status = "active" /\ task[t].retries < MaxRetries

(* An exception at any stage, the last report included. *)
Retry(t) ==
  /\ MayRetry(t)
  /\ task' = [task EXCEPT ![t] =
       [NewTask(task[t].job, task[t].deep) EXCEPT !.retries = task[t].retries + 1]]
  /\ UNCHANGED <<job, request, port, scanned>>

(***************************************************************************)
(* The last attempt fails, the task is canceled (the worker notices at its *)
(* next report), or the worker dies and the task times out.                *)
(***************************************************************************)
End(t) ==
  /\ task[t].status = "active"
  /\ task' = [task EXCEPT ![t] = [NoTask EXCEPT !.status = "ended", !.job = task[t].job, !.deep = task[t].deep]]
  /\ UNCHANGED <<job, request, port, scanned>>

Next ==
  \/ \E r \in Requests : Look(r) \/ Create(r) \/ LookTask(r) \/ Publish(r) \/ RequestDies(r)
  \/ \E t \in Tasks :
       \/ Discover(t) \/ Search(t) \/ Upsert(t) \/ Store(t) \/ Queue(t)
       \/ Ports(t) \/ Scan(t) \/ Services(t) \/ Probe(t) \/ Verify(t) \/ Finalize(t)
       \/ Succeed(t) \/ Retry(t) \/ End(t)

Spec == Init /\ [][Next]_vars

-----------------------------------------------------------------------------
(* Properties *)

(***************************************************************************)
(* When every task of a job has succeeded, the job is COMPLETED and its    *)
(* hosts, if it has any, are probed: however retries, second requests and  *)
(* deep tasks overlapped on the summary and the status, the last word is   *)
(* the probe's and the finalize_job's of the last deep task                *)
(* (run_asset_scan_task, run_asset_scan_followup_task).                    *)
(***************************************************************************)
AllDoneIsComplete ==
  \A j \in Jobs :
    TasksOf(j) # {} /\ (\A t \in TasksOf(j) : task[t].status = "success") =>
      job[j].status = "completed" /\ job[j].summary.hosts \in {"probed", "none"}

(***************************************************************************)
(* A stored port is closed only after a port scan found it closed, never   *)
(* because a stage stored hosts whose ports nobody had scanned yet, a      *)
(* retried discovery included (_upsert_asset_ports, scan_scope).           *)
(***************************************************************************)
ClosedOnlyByScan == port = "closed" => scanned
=============================================================================
