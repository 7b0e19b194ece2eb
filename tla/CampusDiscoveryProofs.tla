----------------------- MODULE CampusDiscoveryProofs -----------------------
(***************************************************************************)
(* Proofs about CampusDiscovery, for every set of zones: type correctness, *)
(* that a completed job holds the hosts of every zone that succeeded, that *)
(* only a report its runner gave up on, or the baseline of a zone without  *)
(* an execution, makes it active again, and that a job that did not end    *)
(* always has a step to take.                                              *)
(***************************************************************************)
EXTENDS CampusDiscovery, TLAPS

(***************************************************************************)
(* The inductive invariant.  Its idea: each phase of a zone is fetched at  *)
(* most once, its report comes after that, and a deep phase exists only    *)
(* when its baseline is over.  So when a final aggregation found every     *)
(* execution ended, no runner has anything left that could open one again. *)
(***************************************************************************)

(* Phase p of zone z waits to be fetched, or is run and not yet reported.  *)
Ahead(z, p) ==
  \/ task[<<z, p>>] = "PENDING"
  \/ runner[z].phase = p /\ runner[z].at \in {"fetched", "assigned", "scan"}

(* The same for the baseline, and until its report of success is answered. *)
BaselineOpen(z) ==
  Ahead(z, "baseline") \/ (runner[z].at = "wait" /\ runner[z].phase = "baseline")

Busy(z, k) == report[z][k].at # "idle"

RunnerOK(z) ==
  /\ runner[z].at # "loop" => <<z, runner[z].phase>> \in named
  /\ runner[z].at \in {"assigned", "scan", "wait", "failing"}
       => task[<<z, runner[z].phase>>] # "PENDING"
  /\ <<z, "deep">> \in named => <<z, "baseline">> \in named /\ ~Ahead(z, "baseline")

(* A report that is not late is the one its runner waits for. *)
ReportOK(z) ==
  /\ \A k \in Kind : Busy(z, k) =>
       <<z, report[z][k].phase>> \in named /\ ~Ahead(z, report[z][k].phase)
  /\ report[z]["success"].phase = "baseline"
       /\ report[z]["success"].at \in {"exec", "read", "commit", "create", "context"}
       => <<z, "deep">> \notin named
  /\ runner[z].at = "wait" =>
       /\ Busy(z, "success") /\ ~report[z]["success"].late
       /\ report[z]["success"].phase = runner[z].phase
  /\ Busy(z, "success") /\ ~report[z]["success"].late => runner[z].at = "wait"
  /\ report[z]["success"].at \in {"create", "context", "swap"}
       => report[z]["success"].phase = "baseline"
  /\ Busy(z, "failure") /\ runner[z].at = "wait" => runner[z].phase = "deep"
  /\ Busy(z, "failure") /\ ~report[z]["failure"].late => runner[z].at = "failing"

(* The request that schedules is over, with or without an error. *)
Over == sched.at \in {"done", "error"}

(* The executions are stored at the end of that request, or never. *)
ExecOK(z) ==
  /\ exec[z].status = "none" => exec[z] = NoExecution
  /\ scope = "node" \/ ~Over => exec[z].status = "none"
  /\ exec[z].status # "none" /\ BaselineOpen(z) => exec[z].status \in {"pending", "running"}

(* No task of zone z waits, but for the one that has no context yet. *)
WaitsOK(z) ==
  /\ task[<<z, "baseline">>] = "PENDING" => Served(z) \/ z \in sched.new
  /\ task[<<z, "deep">>] = "PENDING" => Served(z)

(* Of the zones in S, at most one has a task with its context. *)
OneServed(S) ==
  \A y, z \in Zones : y \in S /\ z \in S /\ Served(y) /\ Served(z) => y = z

(* The zones with a task, and what becomes of their executions. *)
SchedInv ==
  /\ \A z \in Zones : WaitsOK(z)
  /\ sched.todo \cap sched.new = {}
  /\ \A z \in Zones : z \in sched.todo \cup sched.new => ~Served(z)
  /\ sched.at # "name" => sched.new = {}
  /\ sched.at = "name" => sched.added = {} /\ \E z \in Zones : sched.new = {z}
  /\ sched.at \in {"idle", "parent"} =>
       named = {} /\ sched.todo = {} /\ sched.added = {} /\ sched.lost = {}
  /\ sched.at \in {"next", "name"} =>
       /\ scope = "zones" /\ OneServed(sched.added)
       /\ \A z \in Zones : Served(z) => z \in sched.added \cup sched.lost
  /\ Over =>
       /\ OneServed(Rows)
       /\ Rows # {} => \A z \in Zones : Served(z) => z \in Rows \cup sched.lost
  /\ scope = "node" => sched.lost = {} /\ OneServed(Zones)

(* Nothing is left that could make the job active again, but for an orphan. *)
Closed ==
  /\ Over
  /\ \A z \in Zones \ sched.lost : ~BaselineOpen(z)
  /\ scope = "node" =>
       /\ \A z \in Zones : ~Ahead(z, "deep")
       /\ \E z \in Zones : <<z, "deep">> \in named

Finishing(z, k) == report[z][k].at = "commit" /\ IsFinal(z, k)

ClosedInv ==
  job.status = "COMPLETED" \/ (\E z \in Zones, k \in Kind : Finishing(z, k)) => Closed

(* An execution that ended gets no further report of success. *)
DeepOver(z) ==
  exec[z].status \in Terminal /\ exec[z].task = "deep" =>
    ~Ahead(z, "deep") /\ report[z]["success"].at # "exec"

EndedOK(z) ==
  /\ \A k \in Kind : ~report[z][k].late
  /\ DeepOver(z)
  /\ exec[z].status = "success" => exec[z].deep
  /\ \A k \in Kind : Finishing(z, k) => Open = {}

CoverInv ==
  harm # "late" =>
    /\ \A z \in Zones : EndedOK(z)
    /\ job.status = "COMPLETED" => Open = {}

RunnerInv == \A z \in Zones : RunnerOK(z)
ReportInv == \A z \in Zones : ReportOK(z)
ExecInv == \A z \in Zones : ExecOK(z)

IInv ==
  TypeOK /\ RunnerInv /\ ReportInv /\ ExecInv /\ SchedInv /\ ClosedInv /\ CoverInv

-----------------------------------------------------------------------------
(* Data. *)

(* The tasks of the zones are tasks, and none of them is the job's. *)
LEMMA Tasks ==
  /\ \A z \in Zones, p \in Phase :
       <<z, p>> \in Child /\ <<z, p>> \in Task /\ <<z, p>> # Parent
  /\ \A y, z \in Zones, p, q \in Phase : <<y, p>> = <<z, q>> => y = z /\ p = q
  /\ Parent \in Task
BY DEF Child, Task, Parent, Phase

(* The rows a job starts with. *)
LEMMA FirstRows ==
  /\ NoExecution \in Execution /\ NoExecution.status = "none" /\ NoExecution.task = "none"
  /\ Unserved \in Execution /\ Unserved.status = "failure" /\ Unserved.task = "none"
  /\ Scheduled \in Execution /\ Scheduled.status = "pending" /\ Scheduled.task = "baseline"
  /\ NoReport \in Report /\ NoReport.at = "idle" /\ NoReport.late = FALSE
<1>1. /\ NoExecution \in Execution /\ NoExecution.status = "none"
      /\ NoExecution.task = "none"
  BY DEF NoExecution, Execution
<1>2. Unserved \in Execution /\ Unserved.status = "failure" /\ Unserved.task = "none"
  BY <1>1 DEF Unserved, Execution
<1>3. Scheduled \in Execution /\ Scheduled.status = "pending" /\ Scheduled.task = "baseline"
  BY <1>1 DEF Scheduled, Execution, Phase
<1>4. NoReport \in Report /\ NoReport.at = "idle" /\ NoReport.late = FALSE
  BY DEF NoReport, Report, ReportStep, Phase, JobStatus
<1>5. QED BY <1>1, <1>2, <1>3, <1>4

(* One report is replaced. *)
LEMMA SetReport ==
  ASSUME TypeOK, NEW z \in Zones, NEW k \in Kind, NEW r \in Report,
         report' = [report EXCEPT ![z][k] = r]
  PROVE  /\ report' \in [Zones -> [Kind -> Report]]
         /\ \A y \in Zones, l \in Kind :
              report'[y][l] = IF y = z /\ l = k THEN r ELSE report[y][l]
<1>1. [report[z] EXCEPT ![k] = r] \in [Kind -> Report]
  BY DEF TypeOK
<1>2. report' = [report EXCEPT ![z] = [report[z] EXCEPT ![k] = r]]
  OBVIOUS
<1>3. report' \in [Zones -> [Kind -> Report]]
  BY <1>1, <1>2 DEF TypeOK
<1>4. ASSUME NEW y \in Zones, NEW l \in Kind
      PROVE  report'[y][l] = IF y = z /\ l = k THEN r ELSE report[y][l]
  <2>1. report'[y] = IF y = z THEN [report[z] EXCEPT ![k] = r] ELSE report[y]
    BY <1>2 DEF TypeOK
  <2>2. report[z] \in [Kind -> Report]
    BY DEF TypeOK
  <2>3. QED BY <2>1, <2>2
<1>5. QED BY <1>3, <1>4

(* A report moves on to its next step. *)
LEMMA GotoReport ==
  ASSUME TypeOK, NEW z \in Zones, NEW k \in Kind, NEW at \in ReportStep, Goto(z, k, at)
  PROVE  /\ report' \in [Zones -> [Kind -> Report]]
         /\ \A y \in Zones, l \in Kind : y # z \/ l # k => report'[y][l] = report[y][l]
         /\ report'[z][k].at = at
         /\ report'[z][k].phase = report[z][k].phase
         /\ report'[z][k].late = report[z][k].late
         /\ report'[z][k].found = report[z][k].found
<1> DEFINE r == [report[z][k] EXCEPT !.at = at]
<1>1. report[z][k] \in Report
  BY DEF TypeOK
<1>2. /\ r \in Report /\ r.at = at /\ r.phase = report[z][k].phase
      /\ r.late = report[z][k].late /\ r.found = report[z][k].found
  BY <1>1 DEF Report
<1>3. report' = [report EXCEPT ![z][k] = r]
  BY DEF Goto
<1> HIDE DEF r
<1>4. QED BY <1>2, <1>3, SetReport

(* A report is answered; a late one is forgotten. *)
LEMMA AnswerReport ==
  ASSUME TypeOK, NEW z \in Zones, NEW k \in Kind, NEW at \in {"done", "error"},
         Answer(z, k, at)
  PROVE  /\ report' \in [Zones -> [Kind -> Report]]
         /\ \A y \in Zones, l \in Kind : y # z \/ l # k => report'[y][l] = report[y][l]
         /\ report[z][k].late => report'[z][k] = NoReport
         /\ ~report[z][k].late =>
              /\ report'[z][k].at = at /\ ~report'[z][k].late
              /\ report'[z][k].phase = report[z][k].phase
<1> DEFINE r == [report[z][k] EXCEPT !.at = at]
           x == IF report[z][k].late THEN NoReport ELSE r
<1>1. report[z][k] \in Report
  BY DEF TypeOK
<1>2. /\ r \in Report /\ r.at = at /\ r.phase = report[z][k].phase
      /\ r.late = report[z][k].late
  BY <1>1 DEF Report, ReportStep
<1>3. report' = [report EXCEPT ![z][k] = x]
  BY DEF Answer
<1> HIDE DEF r
<1>4. x \in Report
  BY <1>2, FirstRows
<1>5. report[z][k].late \in BOOLEAN
  BY <1>1 DEF Report
<1>6. x = NoReport \/ (x = r /\ ~report[z][k].late)
  OBVIOUS
<1>7. report[z][k].late => x = NoReport
  OBVIOUS
<1>8. ~report[z][k].late => x = r
  OBVIOUS
<1> HIDE DEF x
<1>9. QED BY <1>2, <1>3, <1>4, <1>7, <1>8, SetReport

(* A runner moves on. *)
LEMMA RunnerMoves ==
  ASSUME TypeOK, NEW z \in Zones, NEW at \in RunnerStep, RunnerGoes(z, at)
  PROVE  /\ runner' \in [Zones -> Runner]
         /\ \A y \in Zones : y # z => runner'[y] = runner[y]
         /\ runner'[z].at = at /\ runner'[z].phase = runner[z].phase
<1> DEFINE r == [runner[z] EXCEPT !.at = at]
<1>1. runner[z] \in Runner
  BY DEF TypeOK
<1>2. r \in Runner /\ r.at = at /\ r.phase = runner[z].phase
  BY <1>1 DEF Runner
<1>3. runner' = [runner EXCEPT ![z] = r]
  BY DEF RunnerGoes
<1> HIDE DEF r
<1>4. QED BY <1>2, <1>3 DEF TypeOK

-----------------------------------------------------------------------------
(* What a step keeps that opens nothing new. *)

NoNewPending ==
  \A z \in Zones, p \in Phase : task'[<<z, p>>] = "PENDING" => task[<<z, p>>] = "PENDING"

(* No phase of a zone comes ahead that was not, and none gets its name. *)
Quiet ==
  /\ UNCHANGED <<scope, sched, named>>
  /\ NoNewPending
  /\ \A z \in Zones :
       /\ \A p \in Phase : Ahead(z, p)' => Ahead(z, p)
       /\ BaselineOpen(z)' => BaselineOpen(z)

(* The parts of the invariant make it up. *)
LEMMA Together ==
  ASSUME TypeOK', RunnerInv', ReportInv', ExecInv', SchedInv', ClosedInv', CoverInv'
  PROVE  IInv'
BY DEF IInv

(* The order of scheduling is kept by every quiet step that keeps the rows. *)
LEMMA QuietSched ==
  ASSUME IInv, Quiet, UNCHANGED Rows
  PROVE  SchedInv'
<1>1. /\ UNCHANGED <<scope, sched, named, Rows>>
      /\ \A z \in Zones : Served(z)' <=> Served(z)
  BY DEF Quiet, Served
<1>2. \A z \in Zones : WaitsOK(z)'
  BY <1>1 DEF IInv, SchedInv, WaitsOK, Quiet, NoNewPending, Phase
<1>3. QED BY <1>1, <1>2 DEF IInv, SchedInv, OneServed, Over

(* A quiet step that keeps the executions. *)
LEMMA QuietExec ==
  ASSUME IInv, Quiet, UNCHANGED exec
  PROVE  ExecInv' /\ SchedInv'
<1>1. ASSUME NEW z \in Zones  PROVE ExecOK(z)'
  <2>1. ExecOK(z) /\ UNCHANGED <<scope, sched, named>> /\ exec'[z] = exec[z]
    BY DEF IInv, ExecInv, Quiet
  <2>2. /\ task'[<<z, "baseline">>] = "PENDING" => task[<<z, "baseline">>] = "PENDING"
        /\ BaselineOpen(z)' => BaselineOpen(z)
    BY DEF Quiet, NoNewPending, Phase
  <2>3. QED BY <2>1, <2>2 DEF ExecOK, Over
<1>2. SchedInv'
  BY QuietSched DEF Rows
<1>3. QED BY <1>1, <1>2 DEF ExecInv

(* A closed job stays closed. *)
LEMMA QuietClosed ==
  ASSUME Quiet, Closed
  PROVE  Closed'
<1>1. ASSUME NEW z \in Zones \ sched.lost  PROVE ~BaselineOpen(z)'
  BY DEF Quiet, Closed
<1>2. scope = "node" => \A z \in Zones : ~Ahead(z, "deep")'
  BY DEF Quiet, Closed, Phase
<1>3. QED BY <1>1, <1>2 DEF Quiet, Closed, Over

(* A step that begins a final aggregation does so with the job closed. *)
LEMMA QuietClosedInv ==
  ASSUME IInv, Quiet,
         job'.status = "COMPLETED" =>
           job.status = "COMPLETED" \/ \E z \in Zones, k \in Kind : Finishing(z, k),
         \A z \in Zones, k \in Kind : Finishing(z, k)' => Finishing(z, k) \/ Closed
  PROVE  ClosedInv'
<1>1. SUFFICES ASSUME job'.status = "COMPLETED"
                        \/ \E z \in Zones, k \in Kind : Finishing(z, k)'
               PROVE  Closed'
  BY DEF ClosedInv
<1>2. Closed
  BY <1>1 DEF IInv, ClosedInv
<1>3. QED BY <1>2, QuietClosed

(* The same for a job that waits for no execution, while the executions stay. *)
LEMMA QuietCover ==
  ASSUME IInv, Quiet, UNCHANGED exec,
         harm' # "late" =>
           harm # "late" /\ \A z \in Zones, k \in Kind : ~report'[z][k].late,
         harm' # "late" =>
           \A z \in Zones : report'[z]["success"].at = "exec" =>
             \/ report[z]["success"].at = "exec"
             \/ exec[z].status \notin Terminal \/ exec[z].task # "deep",
         harm' # "late" => \A z \in Zones, k \in Kind :
           Finishing(z, k)' => Finishing(z, k) \/ Open = {},
         harm' # "late" /\ job'.status = "COMPLETED" =>
           \/ job.status = "COMPLETED"
           \/ \E z \in Zones, k \in Kind : Finishing(z, k)
  PROVE  CoverInv'
<1>1. SUFFICES ASSUME harm' # "late"
               PROVE  /\ \A z \in Zones : EndedOK(z)'
                      /\ job'.status = "COMPLETED" => Open' = {}
  BY DEF CoverInv
<1>2. /\ \A z \in Zones : EndedOK(z)
      /\ job.status = "COMPLETED" => Open = {}
  BY <1>1 DEF IInv, CoverInv
<1>3. Open' = Open
  BY DEF Open, Rows
<1>4. ASSUME NEW z \in Zones  PROVE EndedOK(z)'
  <2>1. \A k \in Kind : ~report'[z][k].late
    BY <1>1
  <2>2. DeepOver(z)'
    BY <1>1, <1>2 DEF EndedOK, DeepOver, Quiet, Phase
  <2>3. exec'[z].status = "success" => exec'[z].deep
    BY <1>2 DEF EndedOK
  <2>4. \A k \in Kind : Finishing(z, k)' => Open' = {}
    BY <1>1, <1>2, <1>3 DEF EndedOK
  <2>5. QED BY <2>1, <2>2, <2>3, <2>4 DEF EndedOK
<1>5. job'.status = "COMPLETED" => Open' = {}
  BY <1>1, <1>2, <1>3 DEF EndedOK
<1>6. QED BY <1>4, <1>5

(***************************************************************************)
(* When executions change: either none opens, or one was open before, and  *)
(* then no aggregation is final and the job not complete.                  *)
(***************************************************************************)
LEMMA CoverStep ==
  ASSUME IInv,
         harm' # "late" =>
           /\ harm # "late"
           /\ \A z \in Zones :
                /\ \A k \in Kind : ~report'[z][k].late
                /\ DeepOver(z)'
                /\ exec'[z].status = "success" => exec'[z].deep,
         \A z \in Zones, k \in Kind : Finishing(z, k)' => Finishing(z, k),
         job'.status = "COMPLETED" => job.status = "COMPLETED",
         harm' # "late" => Open # {} \/ Open' \subseteq Open
  PROVE  CoverInv'
<1>1. SUFFICES ASSUME harm' # "late"
               PROVE  /\ \A z \in Zones : EndedOK(z)'
                      /\ job'.status = "COMPLETED" => Open' = {}
  BY DEF CoverInv
<1>2. /\ \A z \in Zones : EndedOK(z)
      /\ job.status = "COMPLETED" => Open = {}
  BY <1>1 DEF IInv, CoverInv
<1>3. Open = {} => Open' = {}
  BY <1>1
<1>4. ASSUME NEW z \in Zones  PROVE EndedOK(z)'
  <2>1. \A k \in Kind : Finishing(z, k)' => Open' = {}
    BY <1>2, <1>3 DEF EndedOK
  <2>2. QED BY <1>1, <2>1 DEF EndedOK
<1>5. QED BY <1>2, <1>3, <1>4

(* One execution changes: what it takes to keep the order of scheduling. *)
LEMMA ExecMoves ==
  ASSUME IInv, Quiet, NEW z \in Zones,
         \A y \in Zones : y # z => exec'[y] = exec[y],
         exec'[z] # exec[z] =>
           /\ scope = "zones" /\ exec[z].status # "none" /\ exec'[z].status # "none"
           /\ BaselineOpen(z)' => exec'[z].status \in {"pending", "running"}
  PROVE  ExecInv' /\ SchedInv'
<1>1. ASSUME NEW y \in Zones  PROVE ExecOK(y)'
  <2>1. ExecOK(y) /\ UNCHANGED <<scope, sched, named>>
    BY DEF IInv, ExecInv, Quiet
  <2>2. /\ task'[<<y, "baseline">>] = "PENDING" => task[<<y, "baseline">>] = "PENDING"
        /\ BaselineOpen(y)' => BaselineOpen(y)
    BY DEF Quiet, NoNewPending, Phase
  <2>3. CASE exec'[y] = exec[y]
    BY <2>1, <2>2, <2>3 DEF ExecOK, Over
  <2>4. CASE y = z /\ exec'[z] # exec[z]
    BY <2>1, <2>2, <2>4 DEF ExecOK, Over
  <2>5. QED BY <2>3, <2>4
<1>2. SchedInv'
  BY QuietSched DEF Rows
<1>3. QED BY <1>1, <1>2 DEF ExecInv

(* The zones that a step does not touch. *)
LEMMA RunnerKept ==
  ASSUME TypeOK, NEW z \in Zones, RunnerOK(z), runner'[z] = runner[z],
         NoNewPending
           \/ \A p \in Phase : task'[<<z, p>>] = "PENDING" => task[<<z, p>>] = "PENDING",
         \A p \in Phase : <<z, p>> \in named' <=> <<z, p>> \in named
  PROVE  /\ RunnerOK(z)' /\ (BaselineOpen(z)' => BaselineOpen(z))
         /\ \A p \in Phase : Ahead(z, p)' => Ahead(z, p)
<1>1. /\ \A p \in Phase : Ahead(z, p)' => Ahead(z, p)
      /\ BaselineOpen(z)' => BaselineOpen(z)
  BY DEF Ahead, BaselineOpen, NoNewPending, Phase
<1>2. runner[z].phase \in Phase
  BY DEF TypeOK, Runner
<1>3. QED BY <1>1, <1>2 DEF RunnerOK, NoNewPending, Phase

(* A report that stays where it is; its answer may have become another. *)
SameStep(z, k) ==
  /\ report'[z][k].at = report[z][k].at
  /\ report'[z][k].phase = report[z][k].phase
  /\ report'[z][k].late = report[z][k].late

(* The same for their reports. *)
LEMMA ReportKept ==
  ASSUME TypeOK, NEW z \in Zones, ReportOK(z), runner'[z] = runner[z],
         NoNewPending
           \/ \A p \in Phase : task'[<<z, p>>] = "PENDING" => task[<<z, p>>] = "PENDING",
         \A p \in Phase : <<z, p>> \in named' <=> <<z, p>> \in named,
         \A k \in Kind : SameStep(z, k)
  PROVE  ReportOK(z)'
<1>1. \A p \in Phase : Ahead(z, p)' => Ahead(z, p)
  BY DEF Ahead, NoNewPending
<1>2. ASSUME NEW k \in Kind  PROVE report[z][k].phase \in Phase
  BY DEF TypeOK, Report
<1>3. \A k \in Kind : Busy(z, k)' <=> Busy(z, k)
  BY DEF Busy, SameStep
<1>4. "success" \in Kind /\ "failure" \in Kind
  BY DEF Kind
<1>5. ASSUME NEW k \in Kind, Busy(z, k)'
      PROVE  <<z, report'[z][k].phase>> \in named' /\ ~Ahead(z, report[z][k].phase)'
  BY <1>1, <1>2, <1>3, <1>5 DEF ReportOK, SameStep
<1>6. "deep" \in Phase
  BY DEF Phase
<1>7. QED BY <1>3, <1>4, <1>5, <1>6 DEF ReportOK, SameStep

(* A runner that waits for no answer moves on, and its reports do not. *)
LEMMA ReportAlone ==
  ASSUME TypeOK, NEW z \in Zones, ReportOK(z), UNCHANGED <<named, sched>>,
         runner[z].at \notin {"wait", "failing"}, runner'[z].at # "wait",
         \A p \in Phase : Ahead(z, p)' => Ahead(z, p),
         \A k \in Kind : report'[z][k] = report[z][k]
  PROVE  ReportOK(z)'
<1>1. ASSUME NEW k \in Kind  PROVE report[z][k].phase \in Phase
  BY DEF TypeOK, Report
<1>2. \A k \in Kind : Busy(z, k)' <=> Busy(z, k)
  BY DEF Busy
<1>3. "success" \in Kind /\ "failure" \in Kind
  BY DEF Kind
<1>4. ASSUME NEW k \in Kind, Busy(z, k)'
      PROVE  <<z, report'[z][k].phase>> \in named' /\ ~Ahead(z, report[z][k].phase)'
  BY <1>1, <1>2, <1>4 DEF ReportOK
<1>5. QED BY <1>2, <1>3, <1>4 DEF ReportOK

(* A step that touches the runner and the reports of one zone only. *)
LEMMA OneZone ==
  ASSUME IInv, NEW z \in Zones, UNCHANGED <<scope, sched, named>>, NoNewPending,
         \A y \in Zones : y # z =>
           /\ runner'[y] = runner[y]
           /\ \A k \in Kind : SameStep(y, k) \/ report'[y][k] = report[y][k],
         RunnerOK(z)', ReportOK(z)',
         \A p \in Phase : Ahead(z, p)' => Ahead(z, p),
         BaselineOpen(z)' => BaselineOpen(z)
  PROVE  RunnerInv' /\ ReportInv' /\ Quiet
<1>1. ASSUME NEW y \in Zones, y # z
      PROVE  /\ RunnerOK(y)' /\ ReportOK(y)'
             /\ (BaselineOpen(y)' => BaselineOpen(y))
             /\ \A p \in Phase : Ahead(y, p)' => Ahead(y, p)
  <2>1. RunnerOK(y) /\ ReportOK(y) /\ TypeOK
    BY DEF IInv, RunnerInv, ReportInv
  <2>2. runner'[y] = runner[y] /\ \A k \in Kind : SameStep(y, k)
    BY <1>1 DEF SameStep
  <2>3. QED BY <2>1, <2>2, RunnerKept, ReportKept
<1>2. QED BY <1>1 DEF RunnerInv, ReportInv, Quiet

(* Reports that stay where they are finish what they finished. *)
LEMMA FinishingKept ==
  ASSUME NEW z \in Zones, NEW k \in Kind, SameStep(z, k) \/ report'[z][k] = report[z][k]
  PROVE  Finishing(z, k)' <=> Finishing(z, k)
BY DEF Finishing, IsFinal, SameStep

-----------------------------------------------------------------------------
(* The runner. *)

(* Fetch and Assign: the phase was ahead before. *)
LEMMA FetchKeeps ==
  ASSUME IInv, NEW z \in Zones, Fetch(z)
  PROVE  IInv'
<1>1. PICK p \in Phase :
        /\ <<z, p>> \in named /\ task[<<z, p>>] = "PENDING" /\ runner[z].at = "loop"
        /\ runner' = [runner EXCEPT ![z] = [at |-> "fetched", phase |-> p]]
  BY DEF Fetch
<1>2. UNCHANGED <<rows, scope, rival, sched, report, harm>>
  BY DEF Fetch
<1>3. TypeOK /\ RunnerOK(z) /\ ReportOK(z)
  BY DEF IInv, RunnerInv, ReportInv
<1>4. /\ runner' \in [Zones -> Runner]
      /\ \A y \in Zones : y # z => runner'[y] = runner[y]
      /\ runner'[z].at = "fetched" /\ runner'[z].phase = p
  BY <1>1, <1>3 DEF TypeOK, Runner, RunnerStep
<1>5. TypeOK'
  BY <1>2, <1>3, <1>4 DEF TypeOK, rows
<1>6. Ahead(z, p)
  BY <1>1 DEF Ahead
<1>7. /\ \A q \in Phase : Ahead(z, q)' => Ahead(z, q)
      /\ BaselineOpen(z)' => BaselineOpen(z)
  BY <1>2, <1>4, <1>6 DEF Ahead, BaselineOpen, rows
<1>8. RunnerOK(z)'
  BY <1>1, <1>2, <1>3, <1>4, <1>7 DEF RunnerOK, rows, Phase
<1>9. ReportOK(z)'
  BY <1>1, <1>2, <1>3, <1>4, <1>7, ReportAlone DEF rows
<1>10. RunnerInv' /\ ReportInv' /\ Quiet
  BY <1>2, <1>4, <1>7, <1>8, <1>9, OneZone DEF rows, NoNewPending
<1>11. ExecInv' /\ SchedInv' /\ ClosedInv'
  BY <1>2, <1>10, QuietExec, QuietClosedInv, FinishingKept DEF rows
<1>12. CoverInv'
  <2>1. harm # "late" => \A y \in Zones, k \in Kind : ~report[y][k].late
    BY DEF IInv, CoverInv, EndedOK
  <2>2. QED BY <1>2, <1>10, <2>1, QuietCover, FinishingKept DEF rows
<1>13. QED BY <1>5, <1>10, <1>11, <1>12, Together

(* No report of a zone is late while no harm of that kind was done. *)
LEMMA NotLate ==
  ASSUME IInv, harm # "late"
  PROVE  \A z \in Zones, k \in Kind : ~report[z][k].late
BY DEF IInv, CoverInv, EndedOK

(* Setting the status of a task. *)
LEMMA SetTask ==
  ASSUME TypeOK, NEW t \in Task, NEW new \in TaskStatus,
         task' = [task EXCEPT ![t] = new]
  PROVE  /\ task' \in [Task -> TaskStatus] /\ task'[t] = new
         /\ \A u \in Task : u # t => task'[u] = task[u]
         /\ new # "PENDING" => NoNewPending
<1>1. /\ task' \in [Task -> TaskStatus] /\ task'[t] = new
      /\ \A u \in Task : u # t => task'[u] = task[u]
  BY DEF TypeOK
<1>2. ASSUME new # "PENDING", NEW z \in Zones, NEW p \in Phase, task'[<<z, p>>] = "PENDING"
      PROVE  task[<<z, p>>] = "PENDING"
  BY <1>1, <1>2, Tasks
<1>3. QED BY <1>1, <1>2 DEF NoNewPending

LEMMA AssignKeeps ==
  ASSUME IInv, NEW z \in Zones, Assign(z)
  PROVE  IInv'
<1> DEFINE p == runner[z].phase
           t == <<z, p>>
<1>1. /\ TypeOK /\ RunnerOK(z) /\ ReportOK(z) /\ runner[z].at = "fetched"
      /\ p \in Phase /\ t \in Task /\ t \in named
  BY Tasks DEF IInv, RunnerInv, ReportInv, Assign, TypeOK, Runner, RunnerOK
<1>2. UNCHANGED <<scope, job, rival, exec, named, sched, report, harm>>
  BY DEF Assign
<1>3. PICK at \in {"loop", "assigned"} :
        /\ RunnerGoes(z, at)
        /\ task' \in [Task -> TaskStatus] /\ NoNewPending
        /\ at = "assigned" => task'[t] # "PENDING"
  <2>1. CASE task[t] = "deleted"
    BY <1>1, <2>1 DEF Assign, TypeOK, NoNewPending
  <2>2. CASE task[t] # "deleted"
    <3>1. RunnerGoes(z, "assigned") /\ task' = [task EXCEPT ![t] = "RUNNING"]
      BY <2>2 DEF Assign
    <3>2. "RUNNING" \in TaskStatus
      BY DEF TaskStatus, Active
    <3> HIDE DEF t
    <3>3. QED BY <1>1, <3>1, <3>2, SetTask
  <2>3. QED BY <2>1, <2>2
<1>4. /\ runner' \in [Zones -> Runner]
      /\ \A y \in Zones : y # z => runner'[y] = runner[y]
      /\ runner'[z].at = at /\ runner'[z].phase = p
  BY <1>1, <1>3, RunnerMoves DEF RunnerStep
<1>5. TypeOK'
  BY <1>1, <1>2, <1>3, <1>4 DEF TypeOK
<1>6. /\ \A q \in Phase : Ahead(z, q)' => Ahead(z, q)
      /\ BaselineOpen(z)' => BaselineOpen(z)
  BY <1>1, <1>3, <1>4 DEF Ahead, BaselineOpen, NoNewPending, Phase
<1>7. RunnerOK(z)'
  BY <1>1, <1>2, <1>3, <1>4, <1>6 DEF RunnerOK, Phase
<1>8. ReportOK(z)'
  BY <1>1, <1>2, <1>3, <1>4, <1>6, ReportAlone
<1>9. RunnerInv' /\ ReportInv' /\ Quiet
  BY <1>2, <1>3, <1>4, <1>6, <1>7, <1>8, OneZone
<1>10. ExecInv' /\ SchedInv' /\ ClosedInv'
  BY <1>2, <1>9, QuietExec, QuietClosedInv, FinishingKept
<1>11. CoverInv'
  BY <1>2, <1>9, NotLate, QuietCover, FinishingKept
<1>12. QED BY <1>5, <1>9, <1>10, <1>11, Together

(* A script that is lost leaves its execution as it was. *)
LEMMA LoseKeeps ==
  ASSUME IInv, NEW z \in Zones, Lose(z)
  PROVE  IInv'
<1>1. TypeOK /\ RunnerOK(z) /\ ReportOK(z) /\ runner[z].at = "scan" /\ harm = "none"
  BY DEF IInv, RunnerInv, ReportInv, Lose
<1>2. /\ UNCHANGED <<scope, job, rival, exec, task, named, sched, report>>
      /\ harm' = "lost" /\ RunnerGoes(z, "loop")
  BY DEF Lose, rows
<1>3. /\ runner' \in [Zones -> Runner]
      /\ \A y \in Zones : y # z => runner'[y] = runner[y]
      /\ runner'[z].at = "loop" /\ runner'[z].phase = runner[z].phase
  BY <1>1, <1>2, RunnerMoves DEF RunnerStep
<1>4. TypeOK'
  BY <1>1, <1>2, <1>3 DEF TypeOK
<1>5. /\ \A q \in Phase : Ahead(z, q)' => Ahead(z, q)
      /\ BaselineOpen(z)' => BaselineOpen(z)
      /\ NoNewPending
  BY <1>2, <1>3 DEF Ahead, BaselineOpen, NoNewPending
<1>6. RunnerOK(z)'
  BY <1>1, <1>2, <1>3, <1>5 DEF RunnerOK, Phase
<1>7. ReportOK(z)'
  BY <1>1, <1>2, <1>3, <1>5, ReportAlone
<1>8. RunnerInv' /\ ReportInv' /\ Quiet
  BY <1>2, <1>3, <1>5, <1>6, <1>7, OneZone
<1>9. ExecInv' /\ SchedInv' /\ ClosedInv'
  BY <1>2, <1>8, QuietExec, QuietClosedInv, FinishingKept
<1>10. CoverInv'
  BY <1>1, <1>2, <1>8, NotLate, QuietCover, FinishingKept
<1>11. QED BY <1>4, <1>8, <1>9, <1>10, Together

(* What is known of an execution that names a task. *)
LEMMA NamedIsScheduled ==
  ASSUME IInv, NEW z \in Zones, NEW p \in Phase, exec[z].task = p
  PROVE  scope = "zones" /\ exec[z].status # "none" /\ Over
<1>1. ExecOK(z) /\ scope \in {"zones", "node"}
  BY CampusAssumption DEF IInv, ExecInv, TypeOK
<1>2. p # "none"
  BY DEF Phase
<1>3. QED BY <1>1, <1>2, FirstRows DEF ExecOK

(* What ended stays over in the other zones. *)
LEMMA DeepOverKept ==
  ASSUME NEW z \in Zones, DeepOver(z), exec'[z] = exec[z], Ahead(z, "deep")' => Ahead(z, "deep"),
         report'[z]["success"].at = "exec" => report[z]["success"].at = "exec"
  PROVE  DeepOver(z)'
BY DEF DeepOver

(* The runner writes its execution only while that is open. *)
LEMMA AssignedKeeps ==
  ASSUME IInv, NEW z \in Zones, Assigned(z)
  PROVE  IInv'
<1> DEFINE p == runner[z].phase
           e == [exec[z] EXCEPT !.status = "running"]
<1>1. /\ TypeOK /\ RunnerOK(z) /\ ReportOK(z) /\ runner[z].at = "assigned"
      /\ p \in Phase /\ <<z, p>> \in named /\ exec[z] \in Execution
  BY DEF IInv, RunnerInv, ReportInv, Assigned, TypeOK, Runner, RunnerOK
<1>2. UNCHANGED <<scope, rival, task, named, sched, report, harm>>
  BY DEF Assigned
<1>3. PICK at \in {"loop", "scan"} : RunnerGoes(z, at)
  BY DEF Assigned
<1>4. job' \in Job /\ (job' = job \/ job'.status = "RUNNING")
  <2>1. [job EXCEPT !.status = "RUNNING"] \in Job
        /\ [job EXCEPT !.status = "RUNNING"].status = "RUNNING"
    BY <1>1 DEF TypeOK, Job, JobStatus
  <2>2. job' = job \/ job' = [job EXCEPT !.status = "RUNNING"]
    BY DEF Assigned
  <2>3. QED BY <1>1, <2>1, <2>2 DEF TypeOK
<1>5. e \in Execution /\ e.status = "running"
  BY <1>1 DEF Execution
<1>6. exec' = IF exec[z].task = p THEN [exec EXCEPT ![z] = e] ELSE exec
  BY DEF Assigned
<1> HIDE DEF e
<1>7. /\ exec' \in [Zones -> Execution]
      /\ \A y \in Zones : y # z => exec'[y] = exec[y]
      /\ exec'[z] # exec[z] => exec'[z] = e /\ exec[z].task = p
  BY <1>1, <1>5, <1>6 DEF TypeOK
<1>8. /\ runner' \in [Zones -> Runner]
      /\ \A y \in Zones : y # z => runner'[y] = runner[y]
      /\ runner'[z].at = at /\ runner'[z].phase = p
  BY <1>1, <1>3, RunnerMoves DEF RunnerStep
<1>9. TypeOK'
  BY <1>1, <1>2, <1>4, <1>7, <1>8 DEF TypeOK
<1>10. /\ \A q \in Phase : Ahead(z, q)' => Ahead(z, q)
       /\ BaselineOpen(z)' => BaselineOpen(z)
       /\ NoNewPending
  BY <1>1, <1>2, <1>8 DEF Ahead, BaselineOpen, NoNewPending
<1>11. RunnerOK(z)'
  BY <1>1, <1>2, <1>8, <1>10 DEF RunnerOK, Phase
<1>12. ReportOK(z)'
  BY <1>1, <1>2, <1>8, <1>10, ReportAlone
<1>13. RunnerInv' /\ ReportInv' /\ Quiet
  BY <1>2, <1>8, <1>10, <1>11, <1>12, OneZone
<1>14. ExecInv' /\ SchedInv'
  <2>1. exec'[z] # exec[z] => scope = "zones" /\ exec[z].status # "none"
    BY <1>1, <1>7, NamedIsScheduled
  <2>2. QED BY <1>5, <1>7, <1>13, <2>1, ExecMoves
<1>15. ClosedInv'
  BY <1>2, <1>4, <1>13, QuietClosedInv, FinishingKept
<1>16. CoverInv'
  <2>1. CASE exec'[z] = exec[z]
    <3>1. exec' = exec
      BY <1>1, <1>7, <2>1 DEF TypeOK
    <3>2. QED BY <1>2, <1>4, <1>13, <3>1, NotLate, QuietCover, FinishingKept
  <2>2. CASE exec'[z] # exec[z]
    <3>1. harm' # "late" => Open # {}
      <4>1. SUFFICES ASSUME harm # "late"  PROVE exec[z].status \notin Terminal
        BY <1>1, <1>2, <1>7, <2>2, NamedIsScheduled DEF Open, Rows
      <4>2. Ahead(z, p)
        BY <1>1 DEF Ahead
      <4>3. CASE p = "deep"
        BY <1>7, <2>2, <4>1, <4>2, <4>3 DEF IInv, CoverInv, EndedOK, DeepOver
      <4>4. CASE p = "baseline"
        <5>1. exec[z].status # "none" /\ BaselineOpen(z)
          BY <1>1, <1>7, <2>2, <4>2, <4>4, NamedIsScheduled DEF BaselineOpen
        <5>2. QED BY <5>1 DEF IInv, ExecInv, ExecOK, Terminal
      <4>5. QED BY <1>1, <4>3, <4>4 DEF Phase
    <3>2. ASSUME harm' # "late", NEW y \in Zones
          PROVE  /\ \A k \in Kind : ~report'[y][k].late
                 /\ DeepOver(y)'
                 /\ exec'[y].status = "success" => exec'[y].deep
      <4>1. EndedOK(y) /\ \A k \in Kind : ~report[y][k].late
        BY <1>2, <3>2, NotLate DEF IInv, CoverInv
      <4>2. CASE y = z
        BY <1>2, <1>5, <1>7, <2>2, <4>1, <4>2 DEF DeepOver, Terminal
      <4>3. CASE y # z
        BY <1>2, <1>7, <1>13, <4>1, <4>3, DeepOverKept DEF EndedOK, Quiet, Phase
      <4>4. QED BY <4>2, <4>3
    <3>3. harm' # "late" => harm # "late"
      BY <1>2
    <3>4. QED BY <1>2, <1>4, <3>1, <3>2, <3>3, CoverStep, FinishingKept
  <2>3. QED BY <2>1, <2>2
<1>17. QED BY <1>9, <1>13, <1>14, <1>15, <1>16, Together

(* The first step of a report. *)
Begins(z, k, p) ==
  report' = [report EXCEPT ![z][k] = [NoReport EXCEPT !.at = "exec", !.phase = p]]

LEMMA SendReport ==
  ASSUME TypeOK, NEW z \in Zones, NEW k \in Kind, NEW p \in Phase, Begins(z, k, p)
  PROVE  /\ report' \in [Zones -> [Kind -> Report]]
         /\ \A y \in Zones, l \in Kind : y # z \/ l # k => report'[y][l] = report[y][l]
         /\ report'[z][k].at = "exec" /\ report'[z][k].phase = p /\ ~report'[z][k].late
<1> DEFINE r == [NoReport EXCEPT !.at = "exec", !.phase = p]
<1>1. r \in Report /\ r.at = "exec" /\ r.phase = p /\ ~r.late
  BY FirstRows DEF Report, ReportStep
<1>2. report' = [report EXCEPT ![z][k] = r]
  BY DEF Begins
<1> HIDE DEF r
<1>3. QED BY <1>1, <1>2, SetReport

(* While a baseline is open its execution has not ended. *)
LEMMA OpenNotEnded ==
  ASSUME IInv, NEW z \in Zones, BaselineOpen(z)
  PROVE  exec[z].status \notin Terminal
<1>1. ExecOK(z) /\ scope \in {"zones", "node"}
  BY CampusAssumption DEF IInv, ExecInv, TypeOK
<1>2. QED BY <1>1, FirstRows DEF ExecOK, Terminal

(* Nor has that of a deep phase that is ahead, unless it names another task. *)
LEMMA AheadNotEnded ==
  ASSUME IInv, NEW z \in Zones, NEW p \in Phase, Ahead(z, p), harm # "late"
  PROVE  exec[z].status \notin Terminal \/ exec[z].task # "deep"
<1>1. CASE p = "deep"
  BY <1>1 DEF IInv, CoverInv, EndedOK, DeepOver
<1>2. CASE p = "baseline"
  BY <1>2, OpenNotEnded DEF BaselineOpen
<1>3. QED BY <1>1, <1>2 DEF Phase

(* A scan ends with a report of success or of failure. *)
LEMMA ScanKeeps ==
  ASSUME IInv, NEW z \in Zones, ScanSucceeds(z) \/ ScanFails(z)
  PROVE  IInv'
<1> DEFINE p == runner[z].phase
<1>1. /\ TypeOK /\ RunnerOK(z) /\ ReportOK(z) /\ runner[z].at = "scan"
      /\ p \in Phase /\ <<z, p>> \in named /\ task[<<z, p>>] # "PENDING"
  BY DEF IInv, RunnerInv, ReportInv, ScanSucceeds, ScanFails, TypeOK, Runner, RunnerOK
<1>2. /\ UNCHANGED <<scope, job, rival, exec, task, named, sched>>
      /\ harm' \in {"none", "early", "late", "lost"} /\ (harm' = "late" <=> harm = "late")
  BY DEF IInv, TypeOK, ScanSucceeds, ScanFails, MayBeEarly, rows
<1>3. PICK k \in Kind, at \in {"wait", "failing"} :
        /\ report[z][k].at = "idle"
        /\ Begins(z, k, p)
        /\ RunnerGoes(z, at)
        /\ \/ k = "success" /\ at = "wait"
           \/ k = "failure" /\ at = "failing"
  BY DEF ScanSucceeds, ScanFails, Send, Kind, Begins
<1>4. /\ runner' \in [Zones -> Runner]
      /\ \A y \in Zones : y # z => runner'[y] = runner[y]
      /\ runner'[z].at = at /\ runner'[z].phase = p
  BY <1>1, <1>3, RunnerMoves DEF RunnerStep
<1>5. /\ report' \in [Zones -> [Kind -> Report]]
      /\ \A y \in Zones, l \in Kind : y # z \/ l # k => report'[y][l] = report[y][l]
      /\ report'[z][k].at = "exec" /\ report'[z][k].phase = p /\ ~report'[z][k].late
  BY <1>1, <1>3, SendReport
<1>6. TypeOK'
  BY <1>1, <1>2, <1>4, <1>5 DEF TypeOK
<1>7. /\ \A q \in Phase : Ahead(z, q)' => Ahead(z, q)
      /\ BaselineOpen(z)' => BaselineOpen(z)
      /\ ~Ahead(z, p)' /\ NoNewPending /\ Ahead(z, p)
  BY <1>1, <1>2, <1>3, <1>4 DEF Ahead, BaselineOpen, NoNewPending
<1>8. RunnerOK(z)'
  BY <1>1, <1>2, <1>3, <1>4, <1>7 DEF RunnerOK, Phase
<1>9. ReportOK(z)'
  <2>1. /\ "success" \in Kind /\ "failure" \in Kind /\ "success" # "failure"
        /\ Kind = {"success", "failure"} /\ "deep" \in Phase /\ "baseline" \in Phase
        /\ Phase = {"baseline", "deep"}
    BY DEF Kind, Phase
  <2>2. ASSUME NEW l \in Kind, Busy(z, l)'
        PROVE  <<z, report'[z][l].phase>> \in named' /\ ~Ahead(z, report[z][l].phase)'
    <3>1. CASE l = k
      <4>1. report'[z][l].phase = runner'[z].phase /\ report'[z][l].phase = p
        BY <1>4, <1>5, <3>1
      <4>2. <<z, report'[z][l].phase>> \in named'
        BY <1>1, <1>2, <4>1
      <4>3. ~Ahead(z, report[z][l].phase)'
        BY <1>7, <4>1
      <4>4. QED BY <4>2, <4>3
    <3>2. CASE l # k
      <4>1. report'[z][l] = report[z][l] /\ Busy(z, l) /\ report[z][l].phase \in Phase
        BY <1>1, <1>5, <2>2, <3>2 DEF Busy, TypeOK, Report
      <4>2. <<z, report[z][l].phase>> \in named /\ ~Ahead(z, report[z][l].phase)
        BY <1>1, <4>1 DEF ReportOK
      <4>4. ~Ahead(z, report[z][l].phase)'
        BY <1>7, <4>1, <4>2
      <4>5. QED BY <1>2, <4>1, <4>2, <4>4
    <3>3. QED BY <3>1, <3>2
  <2>3. p = "baseline" => <<z, "deep">> \notin named
    BY <1>1, <1>7 DEF RunnerOK
  <2>4. CASE k = "success"
    <3>1. runner'[z].at = "wait" /\ report'[z]["failure"] = report[z]["failure"]
      BY <1>3, <1>4, <1>5, <2>1, <2>4
    <3>2. Busy(z, "failure") => p = "deep"
      <4>1. SUFFICES ASSUME Busy(z, "failure"), p = "baseline"  PROVE FALSE
        BY <1>1, <2>1
      <4>2. /\ <<z, report[z]["failure"].phase>> \in named
            /\ ~Ahead(z, report[z]["failure"].phase)
            /\ report[z]["failure"].phase \in Phase
        BY <1>1, <2>1, <4>1 DEF ReportOK, TypeOK, Report
      <4>3. QED BY <1>7, <2>1, <2>3, <4>1, <4>2
    <3>3. Busy(z, "failure")' => Busy(z, "failure") /\ report'[z]["failure"].late
      BY <1>1, <2>1, <3>1 DEF ReportOK, Busy
    <3>4. QED BY <1>2, <1>3, <1>4, <1>5, <2>1, <2>2, <2>3, <2>4, <3>1, <3>2, <3>3
           DEF ReportOK, Busy
  <2>5. CASE k = "failure"
    <3>1. runner'[z].at = "failing" /\ report'[z]["success"] = report[z]["success"]
      BY <1>3, <1>4, <1>5, <2>1, <2>5
    <3>2. QED BY <1>1, <1>2, <2>1, <2>2, <3>1 DEF ReportOK, Busy
  <2>6. QED BY <2>1, <2>4, <2>5
<1>10. RunnerInv' /\ ReportInv' /\ Quiet
  BY <1>2, <1>4, <1>5, <1>7, <1>8, <1>9, OneZone
<1>11. \A y \in Zones, l \in Kind : Finishing(y, l)' => Finishing(y, l)
  <2>1. ASSUME NEW y \in Zones, NEW l \in Kind, Finishing(y, l)'
        PROVE  report'[y][l] = report[y][l]
    BY <1>5, <2>1 DEF Finishing
  <2>2. QED BY <2>1, FinishingKept
<1>12. ExecInv' /\ SchedInv' /\ ClosedInv'
  BY <1>2, <1>10, <1>11, QuietExec, QuietClosedInv
<1>13. CoverInv'
  <2>1. harm' # "late" => \A y \in Zones : report'[y]["success"].at = "exec" =>
          \/ report[y]["success"].at = "exec"
          \/ exec[y].status \notin Terminal \/ exec[y].task # "deep"
    BY <1>1, <1>2, <1>5, <1>7, AheadNotEnded DEF Kind
  <2>2. harm' # "late" =>
           harm # "late" /\ \A y \in Zones, l \in Kind : ~report'[y][l].late
    BY <1>2, <1>5, NotLate
  <2>3. QED BY <1>2, <1>10, <1>11, <2>1, <2>2, QuietCover
<1>14. QED BY <1>6, <1>10, <1>12, <1>13, Together

-----------------------------------------------------------------------------
(* Steps that leave the executions, the names and the schedule alone. *)

(***************************************************************************)
(* Such a step keeps the invariant when it brings no phase ahead, begins   *)
(* no final aggregation and no report, and does not complete the job.      *)
(***************************************************************************)
LEMMA CalmStep ==
  ASSUME IInv, TypeOK', NEW z \in Zones, UNCHANGED <<scope, exec, named, sched>>, NoNewPending,
         \A y \in Zones : y # z =>
           runner'[y] = runner[y] /\ \A k \in Kind : report'[y][k] = report[y][k],
         RunnerOK(z)', ReportOK(z)',
         \A p \in Phase : Ahead(z, p)' => Ahead(z, p),
         BaselineOpen(z)' => BaselineOpen(z),
         job'.status = "COMPLETED" => job' = job,
         \A k \in Kind : Finishing(z, k)' => Finishing(z, k),
         report'[z]["success"].at = "exec" => report[z]["success"].at = "exec",
         harm' # "late" => harm # "late" /\ \A k \in Kind : ~report'[z][k].late
  PROVE  IInv'
<1>1. RunnerInv' /\ ReportInv' /\ Quiet
  BY OneZone
<1>2. \A y \in Zones, k \in Kind : Finishing(y, k)' => Finishing(y, k)
  <2>1. ASSUME NEW y \in Zones, NEW k \in Kind, Finishing(y, k)', y # z
        PROVE  Finishing(y, k)
    BY <2>1, FinishingKept
  <2>2. QED BY <2>1
<1>3. ExecInv' /\ SchedInv'
  BY <1>1, QuietExec
<1>4. ClosedInv'
  BY <1>1, <1>2, QuietClosedInv
<1>5. harm' # "late" => harm # "late" /\ \A y \in Zones, k \in Kind : ~report'[y][k].late
  BY NotLate
<1>6. \A y \in Zones : report'[y]["success"].at = "exec" => report[y]["success"].at = "exec"
  BY DEF Kind
<1>7. CoverInv'
  BY <1>1, <1>2, <1>5, <1>6, QuietCover
<1>8. QED BY <1>1, <1>3, <1>4, <1>7, Together

LEMMA BackToLoopKeeps ==
  ASSUME IInv, NEW z \in Zones, BackToLoop(z)
  PROVE  IInv'
<1>1. TypeOK /\ RunnerOK(z) /\ ReportOK(z)
  BY DEF IInv, RunnerInv, ReportInv
<1>2. UNCHANGED <<scope, job, rival, exec, task, named, sched, harm>> /\ RunnerGoes(z, "loop")
  BY DEF BackToLoop, rows
<1>3. /\ runner' \in [Zones -> Runner]
      /\ \A y \in Zones : y # z => runner'[y] = runner[y]
      /\ runner'[z].at = "loop" /\ runner'[z].phase = runner[z].phase
  BY <1>1, <1>2, RunnerMoves DEF RunnerStep
<1>4. /\ report' \in [Zones -> [Kind -> Report]]
      /\ \A y \in Zones : y # z => report'[y] = report[y]
      /\ \A k \in Kind : report'[z][k] = IF Answered(z, k) THEN NoReport ELSE report[z][k]
  <2> DEFINE r == [k \in Kind |-> IF Answered(z, k) THEN NoReport ELSE report[z][k]]
  <2>1. \A k \in Kind : report[z][k] \in Report
    BY <1>1 DEF TypeOK
  <2>2. r \in [Kind -> Report]
    BY <2>1, FirstRows
  <2>3. \A k \in Kind : r[k] = IF Answered(z, k) THEN NoReport ELSE report[z][k]
    OBVIOUS
  <2>4. report' = [report EXCEPT ![z] = r]
    BY DEF BackToLoop
  <2> HIDE DEF r
  <2>5. QED BY <1>1, <2>2, <2>3, <2>4 DEF TypeOK
<1>5. \A k \in Kind : report'[z][k] = NoReport
                       \/ (report'[z][k] = report[z][k] /\ ~Answered(z, k))
  BY <1>4
<1>6. TypeOK'
  BY <1>1, <1>2, <1>3, <1>4 DEF TypeOK
<1>7. /\ \A q \in Phase : Ahead(z, q)' => Ahead(z, q)
      /\ BaselineOpen(z)' => BaselineOpen(z)
      /\ NoNewPending
  BY <1>2, <1>3 DEF Ahead, BaselineOpen, NoNewPending
<1>8. RunnerOK(z)'
  BY <1>1, <1>2, <1>3, <1>7 DEF RunnerOK, Phase
<1>9. "success" \in Kind /\ "failure" \in Kind
  BY DEF Kind
<1>10. \A k \in Kind : report[z][k].phase \in Phase
  BY <1>1 DEF TypeOK, Report
<1>11. \A k \in Kind : Busy(z, k)' =>
         report'[z][k] = report[z][k] /\ ~Answered(z, k) /\ Busy(z, k)
  BY <1>5, FirstRows DEF Busy
<1>12. ReportOK(z)'
  <2>1. ASSUME NEW k \in Kind, Busy(z, k)'
        PROVE  <<z, report'[z][k].phase>> \in named' /\ ~Ahead(z, report[z][k].phase)'
    BY <1>1, <1>2, <1>7, <1>10, <1>11, <2>1 DEF ReportOK
  <2>2. Busy(z, "success")' => report'[z]["success"].late
    <3>1. ASSUME Busy(z, "success")', ~report'[z]["success"].late  PROVE FALSE
      <4>1. runner[z].at = "wait" /\ ~Answered(z, "success")
        BY <1>1, <1>9, <1>11, <3>1 DEF ReportOK
      <4>2. QED BY <4>1 DEF BackToLoop, ScriptEnds, Answered
    <3>2. QED BY <3>1
  <2>3. Busy(z, "failure")' => report'[z]["failure"].late
    <3>1. ASSUME Busy(z, "failure")', ~report'[z]["failure"].late  PROVE FALSE
      <4>1. runner[z].at = "failing" /\ ~Answered(z, "failure")
        BY <1>1, <1>9, <1>11, <3>1 DEF ReportOK
      <4>2. QED BY <4>1 DEF BackToLoop, ScriptEnds, Answered
    <3>2. QED BY <3>1
  <2>4. QED BY <1>1, <1>2, <1>3, <1>9, <1>11, <2>1, <2>2, <2>3 DEF ReportOK, Busy
<1>13. \A k \in Kind : Finishing(z, k)' => Finishing(z, k)
  BY <1>5, FirstRows DEF Finishing, IsFinal
<1>14. report'[z]["success"].at = "exec" => report[z]["success"].at = "exec"
  BY <1>5, <1>9, FirstRows
<1>15. harm' # "late" => harm # "late" /\ \A k \in Kind : ~report'[z][k].late
  BY <1>2, <1>5, FirstRows, NotLate
<1>16. QED BY <1>2, <1>3, <1>4, <1>6, <1>7, <1>8, <1>12, <1>13, <1>14, <1>15, CalmStep

(* A runner that gives up on its report of success reports a failure. *)
LEMMA FailureInsteadKeeps ==
  ASSUME IInv, NEW z \in Zones, ReportFailureInstead(z)
  PROVE  IInv'
<1> DEFINE p == runner[z].phase
           s == report'[z]["success"]
           f == report'[z]["failure"]
           old == report[z]["success"]
<1>1. /\ TypeOK /\ RunnerOK(z) /\ ReportOK(z) /\ runner[z].at = "wait"
      /\ p \in Phase /\ <<z, p>> \in named /\ task[<<z, p>>] # "PENDING"
      /\ old \in Report /\ "success" \in Kind /\ "failure" \in Kind
      /\ \A k \in Kind : k = "success" \/ k = "failure"
  BY DEF IInv, RunnerInv, ReportInv, ReportFailureInstead, TypeOK, Runner, RunnerOK, Kind
<1>2. UNCHANGED <<scope, job, rival, exec, task, named, sched>> /\ RunnerGoes(z, "failing")
  BY DEF ReportFailureInstead, rows
<1>3. harm' \in {"none", "early", "late", "lost"}
      /\ (harm' # "late" => harm' = harm /\ old.at = "error")
  BY <1>1 DEF ReportFailureInstead, TooLate, TypeOK
<1>4. /\ runner' \in [Zones -> Runner]
      /\ \A y \in Zones : y # z => runner'[y] = runner[y]
      /\ runner'[z].at = "failing" /\ runner'[z].phase = p
  BY <1>1, <1>2, RunnerMoves DEF RunnerStep
<1>5. /\ report' \in [Zones -> [Kind -> Report]]
      /\ \A y \in Zones : y # z => report'[y] = report[y]
      /\ f.at = "exec" /\ f.phase = p /\ ~f.late
      /\ \/ Answered(z, "success") /\ s = NoReport
         \/ /\ ~Answered(z, "success") /\ s.late
            /\ s.at = old.at /\ s.phase = old.phase /\ s.found = old.found
  <2> DEFINE r == [NoReport EXCEPT !.at = "exec", !.phase = p]
             l == [old EXCEPT !.late = TRUE]
             x == IF Answered(z, "success") THEN NoReport ELSE l
             both == [success |-> x, failure |-> r]
  <2>1. r \in Report /\ r.at = "exec" /\ r.phase = p /\ ~r.late
    BY <1>1, FirstRows DEF Report, ReportStep
  <2>2. l \in Report /\ l.late /\ l.at = old.at /\ l.phase = old.phase /\ l.found = old.found
    BY <1>1 DEF Report
  <2>3. report' = [report EXCEPT ![z] = both]
    BY DEF ReportFailureInstead
  <2> HIDE DEF r, l
  <2>4. x \in Report /\ (Answered(z, "success") => x = NoReport)
        /\ (~Answered(z, "success") => x = l)
    BY <2>2, FirstRows
  <2> HIDE DEF x
  <2>5. both \in [Kind -> Report] /\ both["success"] = x /\ both["failure"] = r
    BY <2>1, <2>4 DEF Kind
  <2> HIDE DEF both
  <2>6. report' \in [Zones -> [Kind -> Report]] /\ report'[z] = both
        /\ \A y \in Zones : y # z => report'[y] = report[y]
    BY <1>1, <2>3, <2>5 DEF TypeOK
  <2>7. QED BY <2>1, <2>2, <2>4, <2>5, <2>6
<1> HIDE DEF p, s, f, old
<1>6. TypeOK'
  BY <1>1, <1>2, <1>3, <1>4, <1>5 DEF TypeOK
<1>7. /\ \A q \in Phase : Ahead(z, q)' => Ahead(z, q)
      /\ BaselineOpen(z)' => BaselineOpen(z)
      /\ NoNewPending /\ ~Ahead(z, p)'
  BY <1>1, <1>2, <1>4 DEF Ahead, BaselineOpen, NoNewPending, p
<1>8. RunnerOK(z)'
  BY <1>1, <1>2, <1>4, <1>7 DEF RunnerOK, Phase, p
<1>9. ReportOK(z)'
  <2>1. Busy(z, "success")' => ~Answered(z, "success") /\ Busy(z, "success") /\ s.late
          /\ s.at = old.at /\ s.phase = old.phase
    BY <1>5, FirstRows DEF Busy, s, old
  <2>2. old.phase \in Phase
    BY <1>1 DEF Report
  <2>3. ASSUME Busy(z, "success")'
        PROVE  /\ <<z, report'[z]["success"].phase>> \in named'
               /\ ~Ahead(z, report[z]["success"].phase)'
    <3>1. <<z, report[z]["success"].phase>> \in named /\ ~Ahead(z, report[z]["success"].phase)
      BY <1>1, <2>1, <2>3 DEF ReportOK
    <3>2. report'[z]["success"].phase = report[z]["success"].phase
          /\ report[z]["success"].phase \in Phase
      BY <2>1, <2>2, <2>3 DEF s, old
    <3>3. <<z, report'[z]["success"].phase>> \in named'
      BY <1>2, <3>1, <3>2
    <3>4. ~Ahead(z, report[z]["success"].phase)'
      BY <1>2, <1>4, <3>1, <3>2 DEF Ahead
    <3>5. QED BY <3>3, <3>4
  <2>4. /\ <<z, report'[z]["failure"].phase>> \in named'
        /\ ~Ahead(z, report[z]["failure"].phase)'
    <3>1. report'[z]["failure"].phase = runner'[z].phase /\ runner'[z].phase = p
      BY <1>4, <1>5 DEF f
    <3>2. <<z, report'[z]["failure"].phase>> \in named'
      BY <1>1, <1>2, <3>1
    <3>3. ~Ahead(z, report[z]["failure"].phase)'
      BY <1>1, <1>2, <1>4, <3>1 DEF Ahead
    <3>4. QED BY <3>2, <3>3
  <2>5. ASSUME NEW k \in Kind, Busy(z, k)'
        PROVE  <<z, report'[z][k].phase>> \in named' /\ ~Ahead(z, report[z][k].phase)'
    BY <1>1, <2>3, <2>4, <2>5
  <2>6. Busy(z, "success")' =>
          /\ report'[z]["success"].late /\ report'[z]["success"].at = report[z]["success"].at
          /\ report'[z]["success"].phase = report[z]["success"].phase /\ Busy(z, "success")
    BY <2>1 DEF s, old
  <2>7. QED
    BY <1>1, <1>2, <1>4, <2>5, <2>6 DEF ReportOK, Busy
<1>10. \A k \in Kind :
         Finishing(z, k)' => Finishing(z, k)
  BY <1>1, <1>5, FirstRows DEF Finishing, IsFinal, s, f, old
<1>11. s.at = "exec" => old.at = "exec"
  BY <1>5, FirstRows
<1>12. harm' # "late" => harm # "late" /\ \A k \in Kind : ~report'[z][k].late
  BY <1>1, <1>3, <1>5, FirstRows DEF Answered, s, f, old
<1>13. job'.status = "COMPLETED" => job' = job
  BY <1>2
<1>14. QED
  BY <1>2, <1>4, <1>5, <1>6, <1>7, <1>8, <1>9, <1>10, <1>11, <1>12, <1>13, CalmStep
     DEF s, old

(* A runner that gives up on its report of failure. *)
LEMMA GiveUpKeeps ==
  ASSUME IInv, NEW z \in Zones, GiveUp(z)
  PROVE  IInv'
<1> DEFINE r == [report[z]["failure"] EXCEPT !.late = TRUE]
<1>1. /\ TypeOK /\ RunnerOK(z) /\ ReportOK(z) /\ runner[z].at = "failing"
      /\ report[z]["failure"] \in Report /\ "success" \in Kind /\ "failure" \in Kind
      /\ \A k \in Kind : report[z][k].phase \in Phase
      /\ "success" # "failure"
  BY DEF IInv, RunnerInv, ReportInv, GiveUp, TypeOK, Kind, Report
<1>2. UNCHANGED <<scope, job, rival, exec, task, named, sched>> /\ harm' = "late"
      /\ RunnerGoes(z, "loop") /\ report' = [report EXCEPT ![z]["failure"] = r]
  BY DEF GiveUp, TooLate, rows
<1>3. /\ runner' \in [Zones -> Runner]
      /\ \A y \in Zones : y # z => runner'[y] = runner[y]
      /\ runner'[z].at = "loop" /\ runner'[z].phase = runner[z].phase
  BY <1>1, <1>2, RunnerMoves DEF RunnerStep
<1>4. /\ r \in Report /\ r.at = report[z]["failure"].at /\ r.late
      /\ r.phase = report[z]["failure"].phase /\ r.found = report[z]["failure"].found
  BY <1>1 DEF Report
<1> HIDE DEF r
<1>5. /\ report' \in [Zones -> [Kind -> Report]]
      /\ \A y \in Zones, k \in Kind : y # z => report'[y][k] = report[y][k]
      /\ report'[z]["success"] = report[z]["success"] /\ report'[z]["failure"].late
      /\ \A k \in Kind : /\ report'[z][k].at = report[z][k].at
                         /\ report'[z][k].phase = report[z][k].phase
                         /\ report'[z][k].found = report[z][k].found
  BY <1>1, <1>2, <1>4, SetReport
<1>6. TypeOK'
  BY <1>1, <1>2, <1>3, <1>5 DEF TypeOK
<1>7. /\ \A q \in Phase : Ahead(z, q)' => Ahead(z, q)
      /\ BaselineOpen(z)' => BaselineOpen(z)
      /\ NoNewPending
  BY <1>2, <1>3 DEF Ahead, BaselineOpen, NoNewPending
<1>8. RunnerOK(z)'
  BY <1>1, <1>2, <1>3, <1>7 DEF RunnerOK, Phase
<1>9. ReportOK(z)'
  <2>1. \A k \in Kind : Busy(z, k)' <=> Busy(z, k)
    BY <1>5 DEF Busy
  <2>2. ASSUME NEW k \in Kind, Busy(z, k)'
        PROVE  <<z, report'[z][k].phase>> \in named' /\ ~Ahead(z, report[z][k].phase)'
    <3>1. <<z, report[z][k].phase>> \in named /\ ~Ahead(z, report[z][k].phase)
      BY <1>1, <2>1, <2>2 DEF ReportOK
    <3>2. <<z, report'[z][k].phase>> \in named'
      BY <1>2, <1>5, <3>1
    <3>3. report'[z][k].phase = report[z][k].phase /\ report[z][k].phase \in Phase
      BY <1>1, <1>5
    <3>4. ~Ahead(z, report[z][k].phase)'
      BY <1>2, <1>3, <3>1, <3>3 DEF Ahead
    <3>5. QED BY <3>2, <3>4
  <2>3. QED BY <1>1, <1>2, <1>3, <1>5, <2>1, <2>2 DEF ReportOK
<1>10. \A k \in Kind :
         Finishing(z, k)' => Finishing(z, k)
  BY <1>5 DEF Finishing, IsFinal
<1>11. QED BY <1>2, <1>3, <1>5, <1>6, <1>7, <1>8, <1>9, <1>10, CalmStep

-----------------------------------------------------------------------------
(* The report. *)

(* A report that its request moves on, or forgets when it is late. *)
LEMMA ReportMoves ==
  ASSUME TypeOK, NEW z \in Zones, NEW k \in Kind, ReportOK(z), Busy(z, k),
         UNCHANGED <<named, sched, runner>>,
         \A l \in Kind : l # k => SameStep(z, l) \/ report'[z][l] = report[z][l],
         \/ report[z][k].late /\ report'[z][k] = NoReport
         \/ /\ Busy(z, k)'
            /\ report'[z][k].phase = report[z][k].phase
            /\ report'[z][k].late = report[z][k].late,
         report'[z]["success"].phase = "baseline"
           /\ report'[z]["success"].at \in {"exec", "read", "commit", "create", "context"}
           => <<z, "deep">> \notin named,
         report'[z]["success"].at \in {"create", "context", "swap"}
           => report[z]["success"].phase = "baseline",
         \A l \in Kind, p \in Phase :
           Busy(z, l) /\ p = report[z][l].phase => (Ahead(z, p)' => Ahead(z, p))
  PROVE  ReportOK(z)'
<1>1. "success" \in Kind /\ "failure" \in Kind
  BY DEF Kind
<1>2. \A l \in Kind : Busy(z, l)' =>
         /\ Busy(z, l) /\ report'[z][l].phase = report[z][l].phase
         /\ report'[z][l].late = report[z][l].late
  BY FirstRows DEF Busy, SameStep
<1>3. \A l \in Kind : Busy(z, l) /\ ~report[z][l].late => Busy(z, l)'
  BY DEF Busy, SameStep
<1>4. ASSUME NEW l \in Kind, Busy(z, l)'
      PROVE  <<z, report'[z][l].phase>> \in named' /\ ~Ahead(z, report[z][l].phase)'
  <2>1. <<z, report[z][l].phase>> \in named /\ ~Ahead(z, report[z][l].phase)
    BY <1>2, <1>4 DEF ReportOK
  <2>2. <<z, report'[z][l].phase>> \in named'
    BY <1>2, <1>4, <2>1
  <2>3. report[z][l].phase \in Phase /\ Busy(z, l) /\ report'[z][l].phase = report[z][l].phase
    BY <1>2, <1>4 DEF TypeOK, Report
  <2>4. ASSUME NEW p \in Phase, p = report[z][l].phase  PROVE ~Ahead(z, p)'
    BY <2>1, <2>3, <2>4
  <2>5. ~Ahead(z, report[z][l].phase)'
    BY <2>3, <2>4 DEF Ahead
  <2>6. QED BY <2>2, <2>5
<1>5. QED BY <1>1, <1>2, <1>3, <1>4 DEF ReportOK, Busy, SameStep

(* A report that moves on while the rest opens nothing. *)
LEMMA ReportCalm ==
  ASSUME IInv, TypeOK', NEW z \in Zones, NEW k \in Kind, Busy(z, k),
         UNCHANGED <<scope, exec, named, sched, runner, harm>>, NoNewPending,
         \A y \in Zones, l \in Kind : y # z \/ l # k => report'[y][l] = report[y][l],
         \/ report[z][k].late /\ report'[z][k] = NoReport
         \/ /\ Busy(z, k)'
            /\ report'[z][k].phase = report[z][k].phase
            /\ report'[z][k].late = report[z][k].late,
         report'[z]["success"].phase = "baseline"
           /\ report'[z]["success"].at \in {"exec", "read", "commit", "create", "context"}
           => <<z, "deep">> \notin named,
         report'[z]["success"].at \in {"create", "context", "swap"}
           => report[z]["success"].phase = "baseline",
         report'[z]["success"].at = "exec" => report[z]["success"].at = "exec",
         job'.status = "COMPLETED" => job' = job,
         Finishing(z, k)' => Finishing(z, k)
  PROVE  IInv'
<1>1. TypeOK /\ RunnerOK(z) /\ ReportOK(z)
  BY DEF IInv, RunnerInv, ReportInv
<1>2. /\ \A q \in Phase : Ahead(z, q)' => Ahead(z, q)
      /\ BaselineOpen(z)' => BaselineOpen(z)
      /\ RunnerOK(z)'
  BY <1>1, RunnerKept
<1>3. ReportOK(z)'
  BY <1>1, <1>2, ReportMoves
<1>4. \A l \in Kind :
        Finishing(z, l)' => Finishing(z, l)
  <2>1. ASSUME NEW l \in Kind, l # k, Finishing(z, l)'
        PROVE  Finishing(z, l)
    BY <2>1, FinishingKept
  <2>2. QED BY <2>1
<1>5. harm' # "late" => harm # "late" /\ \A l \in Kind : ~report'[z][l].late
  BY FirstRows, NotLate
<1>6. QED BY <1>1, <1>2, <1>3, <1>4, <1>5, CalmStep

(* The answer to a report. *)
LEMMA AnswerKeeps ==
  ASSUME IInv, NEW z \in Zones, NEW k \in Kind, NEW at \in {"done", "error"}, Busy(z, k),
         Answer(z, k, at), UNCHANGED <<scope, rival, exec, named, sched, runner, harm>>,
         task' \in [Task -> TaskStatus], job' \in Job, NoNewPending,
         job'.status = "COMPLETED" => job' = job
  PROVE  IInv'
<1>1. TypeOK /\ RunnerOK(z) /\ ReportOK(z)
  BY DEF IInv, RunnerInv, ReportInv
<1>2. /\ report' \in [Zones -> [Kind -> Report]]
      /\ \A y \in Zones, l \in Kind : y # z \/ l # k => report'[y][l] = report[y][l]
      /\ report[z][k].late => report'[z][k] = NoReport
      /\ ~report[z][k].late =>
           /\ report'[z][k].at = at /\ ~report'[z][k].late
           /\ report'[z][k].phase = report[z][k].phase
  BY <1>1, AnswerReport
<1>3. TypeOK'
  BY <1>1, <1>2 DEF TypeOK
<1>4. report'[z][k].at \in {"idle", "done", "error"}
  BY <1>2, FirstRows
<1>5. \/ report[z][k].late /\ report'[z][k] = NoReport
      \/ /\ Busy(z, k)'
         /\ report'[z][k].phase = report[z][k].phase
         /\ report'[z][k].late = report[z][k].late
  <2>1. report[z][k].late \in BOOLEAN /\ report'[z][k].late \in BOOLEAN
    BY <1>1, <1>2 DEF TypeOK, Report
  <2>2. QED BY <1>2, <2>1 DEF Busy
<1>6. "success" \in Kind
  BY DEF Kind
<1>7. report'[z]["success"] = report[z]["success"]
        \/ report'[z]["success"].at \in {"idle", "done", "error"}
  BY <1>2, <1>4, <1>6
<1>8. ~Finishing(z, k)'
  BY <1>4 DEF Finishing
<1>9. /\ report'[z]["success"].phase = "baseline"
           /\ report'[z]["success"].at \in {"exec", "read", "commit", "create", "context"}
           => <<z, "deep">> \notin named
      /\ report'[z]["success"].at \in {"create", "context", "swap"}
           => report[z]["success"].phase = "baseline"
      /\ report'[z]["success"].at = "exec" => report[z]["success"].at = "exec"
  BY <1>1, <1>7 DEF ReportOK
<1>10. QED BY <1>2, <1>3, <1>5, <1>8, <1>9, ReportCalm

LEMMA ReportAggregateFailsKeeps ==
  ASSUME IInv, NEW z \in Zones, NEW k \in Kind, ReportAggregateFails(z, k)
  PROVE  IInv'
<1>1. /\ Busy(z, k) /\ Answer(z, k, "error")
      /\ UNCHANGED <<scope, rival, job, exec, task, named, sched, runner, harm>>
  BY DEF ReportAggregateFails, Busy, rows
<1>2. TypeOK
  BY DEF IInv
<1>3. QED BY <1>1, <1>2, AnswerKeeps DEF TypeOK, NoNewPending

LEMMA ReportFinalKeeps ==
  ASSUME IInv, NEW z \in Zones, NEW k \in Kind, ReportFinal(z, k)
  PROVE  IInv'
<1>1. /\ Busy(z, k) /\ TypeOK
      /\ UNCHANGED <<scope, rival, exec, named, sched, runner, harm>>
  BY DEF ReportFinal, Busy, IInv
<1>2. CASE task[TaskOf(z, k)] = "deleted"
  <2>1. Answer(z, k, "error") /\ UNCHANGED <<job, task>>
    BY <1>2 DEF ReportFinal
  <2>2. QED BY <1>1, <2>1, AnswerKeeps DEF TypeOK, NoNewPending
<1>3. CASE task[TaskOf(z, k)] # "deleted"
  <2> DEFINE new == IF k = "success" THEN "SUCCESS" ELSE "FAILURE"
             failed == [job EXCEPT !.status = "FAILED"]
  <2>1. /\ Answer(z, k, "done") /\ task' = [task EXCEPT ![TaskOf(z, k)] = new]
        /\ job' = job \/ job' = failed
    BY <1>3 DEF ReportFinal
  <2>2. failed \in Job /\ failed.status = "FAILED"
    BY <1>1 DEF TypeOK, Job, JobStatus
  <2>3. TaskOf(z, k) \in Task
    BY <1>1, Tasks DEF TaskOf, TypeOK, Report
  <2>4. new \in TaskStatus /\ new # "PENDING"
    BY DEF TaskStatus
  <2> HIDE DEF new, failed
  <2>5. task' \in [Task -> TaskStatus] /\ NoNewPending
    BY <1>1, <2>1, <2>3, <2>4, SetTask
  <2>6. job' \in Job /\ (job'.status = "COMPLETED" => job' = job)
    BY <1>1, <2>1, <2>2 DEF TypeOK
  <2>7. QED BY <1>1, <2>1, <2>5, <2>6, AnswerKeeps
<1>4. QED BY <1>2, <1>3

(* What a report makes of an execution. *)
LEMMA NewExecutions ==
  ASSUME NEW e \in Execution, NEW k \in Kind, NEW p \in Phase
  PROVE  /\ NewExecution(e, k, p) \in Execution
         /\ NewExecution(e, k, p).task = e.task
         /\ k = "failure" => NewExecution(e, k, p).status = "failure"
         /\ k = "success" /\ p = "baseline" => NewExecution(e, k, p).status = "running"
         /\ k = "success" /\ p = "deep" =>
              NewExecution(e, k, p).status = "success" /\ NewExecution(e, k, p).deep
<1>1. CASE k = "failure"
  BY <1>1 DEF NewExecution, Execution
<1>2. CASE k = "success" /\ p = "baseline"
  BY <1>2 DEF NewExecution, Execution
<1>3. CASE k = "success" /\ p = "deep"
  BY <1>3 DEF NewExecution, Execution
<1>4. QED BY <1>1, <1>2, <1>3 DEF Kind, Phase

LEMMA ReportExecutionKeeps ==
  ASSUME IInv, NEW z \in Zones, NEW k \in Kind, ReportExecution(z, k)
  PROVE  IInv'
<1> DEFINE p == report[z][k].phase
           e == NewExecution(exec[z], k, p)
<1>1. /\ TypeOK /\ RunnerOK(z) /\ ReportOK(z) /\ report[z][k].at = "exec" /\ Busy(z, k)
      /\ p \in Phase /\ <<z, p>> \in named /\ ~Ahead(z, p) /\ exec[z] \in Execution
      /\ UNCHANGED <<scope, job, rival, task, named, sched, runner, harm>>
  BY DEF IInv, RunnerInv, ReportInv, ReportExecution, Busy, TypeOK, Report, ReportOK
<1>2. CASE task[TaskOf(z, k)] = "deleted"
  <2>1. Answer(z, k, "error") /\ UNCHANGED exec
    BY <1>2 DEF ReportExecution
  <2>2. QED BY <1>1, <2>1, AnswerKeeps DEF TypeOK, NoNewPending
<1>3. CASE task[TaskOf(z, k)] # "deleted"
  <2>1. Goto(z, k, "read") /\ exec' = IF exec[z].task = p THEN [exec EXCEPT ![z] = e] ELSE exec
    BY <1>3 DEF ReportExecution
  <2>2. /\ e \in Execution /\ e.task = exec[z].task
        /\ k = "failure" => e.status = "failure"
        /\ k = "success" /\ p = "baseline" => e.status = "running"
        /\ k = "success" /\ p = "deep" => e.status = "success" /\ e.deep
    BY <1>1, NewExecutions
  <2> HIDE DEF e
  <2>3. /\ exec' \in [Zones -> Execution]
        /\ \A y \in Zones : y # z => exec'[y] = exec[y]
        /\ exec'[z] # exec[z] => exec'[z] = e /\ exec[z].task = p
    BY <1>1, <2>1, <2>2 DEF TypeOK
  <2>4. /\ report' \in [Zones -> [Kind -> Report]]
        /\ \A y \in Zones, l \in Kind : y # z \/ l # k => report'[y][l] = report[y][l]
        /\ report'[z][k].at = "read"
        /\ report'[z][k].phase = p
        /\ report'[z][k].late = report[z][k].late
    BY <1>1, <2>1, GotoReport DEF ReportStep
  <2>5. TypeOK'
    BY <1>1, <2>3, <2>4 DEF TypeOK
  <2>6. NoNewPending /\ "success" \in Kind /\ "failure" \in Kind /\ (k = "success" \/ k = "failure")
    BY <1>1 DEF NoNewPending, Kind
  <2>7. RunnerOK(z)' /\ (\A q \in Phase : Ahead(z, q)' => Ahead(z, q))
        /\ (BaselineOpen(z)' => BaselineOpen(z))
    BY <1>1, <2>6, RunnerKept
  <2>8. ReportOK(z)'
    <3>1. report'[z]["success"].at = report[z]["success"].at
            \/ (k = "success" /\ report[z]["success"].at = "exec"
                /\ report'[z]["success"].at = "read")
      BY <1>1, <2>4, <2>6
    <3>2. report'[z]["success"].phase = report[z]["success"].phase
      BY <2>4, <2>6
    <3>3. /\ report'[z]["success"].phase = "baseline"
               /\ report'[z]["success"].at \in {"exec", "read", "commit", "create", "context"}
               => <<z, "deep">> \notin named
          /\ report'[z]["success"].at \in {"create", "context", "swap"}
               => report[z]["success"].phase = "baseline"
      BY <1>1, <3>1, <3>2 DEF ReportOK
    <3>4. Busy(z, k)'
      BY <2>4 DEF Busy
    <3>5. \A l \in Kind : l # k => report'[z][l] = report[z][l]
      BY <2>4
    <3>6. QED BY <1>1, <2>4, <2>7, <3>3, <3>4, <3>5, ReportMoves
  <2>9. RunnerInv' /\ ReportInv' /\ Quiet
    BY <1>1, <2>4, <2>6, <2>7, <2>8, OneZone
  <2>10. exec'[z] # exec[z] =>
           /\ scope = "zones" /\ exec[z].status # "none" /\ exec'[z].status # "none"
           /\ BaselineOpen(z)' => exec'[z].status \in {"pending", "running"}
    <3>1. SUFFICES ASSUME exec'[z] # exec[z]
                   PROVE  /\ scope = "zones" /\ exec[z].status # "none" /\ exec'[z].status # "none"
                          /\ BaselineOpen(z)' => exec'[z].status \in {"pending", "running"}
      OBVIOUS
    <3>2. scope = "zones" /\ exec[z].status # "none" /\ exec'[z] = e /\ exec[z].task = p
      BY <1>1, <2>3, <3>1, NamedIsScheduled
    <3>3. e.status \in {"failure", "running", "success"}
          /\ (e.status = "success" => k = "success" /\ p = "deep")
          /\ (e.status = "running" \/ k = "failure" \/ (k = "success" /\ p = "deep"))
      BY <1>1, <2>2, <2>6 DEF Phase
    <3>5. k = "failure" \/ (k = "success" /\ p = "deep") => ~BaselineOpen(z)
      <4>1. ~Ahead(z, "baseline")
        BY <1>1, <3>3 DEF RunnerOK, Phase
      <4>2. k = "failure" \/ (k = "success" /\ p = "deep")
              => ~(runner[z].at = "wait" /\ runner[z].phase = "baseline")
        BY <1>1 DEF ReportOK
      <4>3. QED BY <4>1, <4>2 DEF BaselineOpen
    <3>6. QED BY <2>7, <3>2, <3>3, <3>5
  <2>11. ExecInv' /\ SchedInv'
    BY <2>3, <2>9, <2>10, ExecMoves
  <2>12. \A y \in Zones, l \in Kind :
           Finishing(y, l)' => Finishing(y, l)
    <3>1. ASSUME NEW y \in Zones, NEW l \in Kind, Finishing(y, l)'
          PROVE  report'[y][l] = report[y][l]
      BY <2>4, <3>1 DEF Finishing
    <3>2. QED BY <3>1, FinishingKept
  <2>13. ClosedInv'
    BY <1>1, <2>9, <2>12, QuietClosedInv
  <2>14. CASE exec'[z] = exec[z]
    <3>1. exec' = exec
      BY <1>1, <2>3, <2>14 DEF TypeOK
    <3>2. harm' # "late" =>
            harm # "late" /\ \A y \in Zones, l \in Kind : ~report'[y][l].late
      BY <1>1, <2>4, NotLate
    <3>3. \A y \in Zones : report'[y]["success"].at = "exec" => report[y]["success"].at = "exec"
      BY <1>1, <2>4, <2>6
    <3>4. CoverInv'
      BY <1>1, <2>9, <2>12, <3>1, <3>2, <3>3, QuietCover
    <3>5. QED BY <2>5, <2>9, <2>11, <2>13, <3>4, Together
  <2>15. CASE exec'[z] # exec[z]
    <3>1. exec'[z] = e /\ exec[z].task = p /\ exec[z].status # "none" /\ scope = "zones"
      BY <2>3, <2>10, <2>15
    <3>2. ASSUME harm # "late", k = "failure"  PROVE report[z]["success"].at = "idle"
      <4>1. ~report[z]["success"].late /\ ~report[z]["failure"].late
        BY <2>6, <3>2, NotLate
      <4>2. runner[z].at = "failing"
        BY <1>1, <3>2, <4>1 DEF ReportOK
      <4>3. QED BY <1>1, <4>1, <4>2 DEF ReportOK, Busy
    <3>3. ASSUME harm' # "late", NEW y \in Zones
          PROVE  /\ \A l \in Kind : ~report'[y][l].late
                 /\ DeepOver(y)'
                 /\ exec'[y].status = "success" => exec'[y].deep
      <4>1. EndedOK(y) /\ \A l \in Kind : ~report[y][l].late
        BY <1>1, <3>3, NotLate DEF IInv, CoverInv
      <4>2. \A l \in Kind : ~report'[y][l].late
        BY <2>4, <4>1
      <4>3. CASE y = z
        <5>1. report'[z]["success"].at # "exec"
          BY <1>1, <2>4, <2>6, <3>2, <3>3
        <5>2. exec'[z].task = "deep" => ~Ahead(z, "deep")'
          BY <1>1, <2>2, <2>7, <3>1
        <5>3. exec'[z].status = "success" => exec'[z].deep
          BY <1>1, <2>2, <2>6, <3>1 DEF Phase
        <5>4. QED BY <4>2, <4>3, <5>1, <5>2, <5>3 DEF DeepOver
      <4>4. CASE y # z
        <5>1. report'[y]["success"] = report[y]["success"] /\ exec'[y] = exec[y]
          BY <2>3, <2>4, <2>6, <4>4
        <5>2. DeepOver(y)'
          BY <2>9, <4>1, <5>1, DeepOverKept DEF EndedOK, Quiet, Phase
        <5>3. QED BY <4>1, <4>2, <5>1, <5>2 DEF EndedOK
      <4>5. QED BY <4>3, <4>4
    <3>4. CASE k = "failure"
      <4>1. Open' \subseteq Open
        <5>1. exec'[z].status = "failure"
          BY <2>2, <3>1, <3>4
        <5>2. QED BY <2>3, <5>1 DEF Open, Rows, Terminal
      <4>2. CoverInv'
        BY <1>1, <2>12, <3>3, <4>1, CoverStep
      <4>3. QED BY <2>5, <2>9, <2>11, <2>13, <4>2, Together
    <3>5. CASE k = "success"
      <4>1. ASSUME harm # "late"  PROVE exec[z].status \notin Terminal
        <5>1. runner[z].at = "wait" /\ runner[z].phase = p
          BY <1>1, <2>6, <3>5, <4>1, NotLate DEF ReportOK
        <5>2. CASE p = "baseline"
          BY <5>1, <5>2, OpenNotEnded DEF BaselineOpen
        <5>3. CASE p = "deep"
          BY <1>1, <3>1, <3>5, <4>1, <5>3 DEF IInv, CoverInv, EndedOK, DeepOver
        <5>4. QED BY <1>1, <5>2, <5>3 DEF Phase
      <4>2. harm' # "late" => Open # {}
        BY <1>1, <3>1, <4>1 DEF Open, Rows
      <4>3. CoverInv'
        BY <1>1, <2>12, <3>3, <4>2, CoverStep
      <4>4. QED BY <2>5, <2>9, <2>11, <2>13, <4>3, Together
    <3>6. QED BY <2>6, <3>4, <3>5
  <2>16. QED BY <2>14, <2>15
<1>4. QED BY <1>2, <1>3

(***************************************************************************)
(* A final aggregation that found successes has found every execution      *)
(* ended: nothing of the job is left to run.                               *)
(***************************************************************************)
LEMMA FoundIsClosed ==
  ASSUME IInv, NEW z \in Zones, NEW k \in Kind, Busy(z, k), IsFinal(z, k), Found(z, k) # {}
  PROVE  Closed /\ Open = {}
<1>1. /\ scope \in {"zones", "node"} /\ SchedInv /\ "success" \in Kind
      /\ \A y \in Zones : RunnerOK(y) /\ ReportOK(y) /\ ExecOK(y)
      /\ report[z][k].phase \in Phase /\ sched.at \in SchedStep
      /\ \A y \in Zones : exec[y] \in Execution /\ runner[y].phase \in Phase
  BY CampusAssumption DEF IInv, TypeOK, RunnerInv, ReportInv, ExecInv, Kind, Report, Runner, Sched
<1>2. ASSUME NEW y \in Zones, NEW q \in Phase, <<y, q>> \in named  PROVE Served(y)
  BY <1>1, <1>2 DEF RunnerOK, Served, Phase
<1>3. ASSUME Over, NEW y \in Zones, NEW q \in Phase, Ahead(y, q)  PROVE Served(y)
  BY <1>1, <1>2, <1>3 DEF Ahead, SchedInv, WaitsOK, RunnerOK, Phase, Over
<1>4. ASSUME Over, NEW y \in Zones, BaselineOpen(y)  PROVE Served(y)
  BY <1>1, <1>2, <1>3, <1>4 DEF BaselineOpen, RunnerOK, Phase
<1>5. CASE scope = "zones"
  <2>1. Open = {} /\ Rows # {}
    BY <1>5 DEF Found, IsFinal
  <2>2. Over
    BY <1>1, <2>1 DEF Rows, ExecOK
  <2>3. ASSUME NEW y \in Zones \ sched.lost, BaselineOpen(y)  PROVE FALSE
    <3>1. y \in Rows
      BY <1>1, <1>4, <2>1, <2>2, <2>3 DEF SchedInv
    <3>2. QED BY <1>1, <2>1, <2>3, <3>1 DEF ExecOK, Open, Rows, Terminal
  <2>4. QED BY <1>5, <2>1, <2>2, <2>3 DEF Closed
<1>6. CASE scope = "node"
  <2>1. k = "success" /\ report[z]["success"].phase = "deep" /\ Found(z, k) = {z}
    BY <1>1, <1>6 DEF Found, IsFinal, Kind
  <2>2. <<z, "deep">> \in named /\ ~Ahead(z, "deep")
    BY <1>1, <2>1 DEF ReportOK
  <2>3. Over
    BY <1>1, <1>6, <2>2 DEF SchedInv, SchedStep, Over
  <2>4. ASSUME NEW y \in Zones, Served(y)  PROVE y = z
    BY <1>1, <1>2, <1>6, <2>2, <2>4 DEF SchedInv, OneServed, Phase
  <2>5. \A y \in Zones : ~Ahead(y, "deep")
    BY <1>3, <2>2, <2>3, <2>4 DEF Phase
  <2>6. ~BaselineOpen(z)
    <3>1. ~Ahead(z, "baseline")
      BY <1>1, <2>2 DEF RunnerOK
    <3>2. QED BY <1>1, <2>1, <3>1 DEF ReportOK, BaselineOpen
  <2>7. \A y \in Zones : ~BaselineOpen(y)
    BY <1>4, <2>3, <2>4, <2>6
  <2>8. Open = {}
    BY <1>1, <1>6, FirstRows DEF ExecOK, Open, Rows
  <2>9. QED BY <1>6, <2>2, <2>3, <2>5, <2>7, <2>8 DEF Closed
<1>7. QED BY <1>1, <1>5, <1>6

LEMMA ReportReadKeeps ==
  ASSUME IInv, NEW z \in Zones, NEW k \in Kind, ReportRead(z, k)
  PROVE  IInv'
<1> DEFINE F == Found(z, k)
           at == IF F = {} THEN AfterAggregation(z, k) ELSE "commit"
           r == [report[z][k] EXCEPT !.view = job.status, !.found = F, !.at = at]
<1>1. /\ TypeOK /\ RunnerOK(z) /\ ReportOK(z) /\ report[z][k].at = "read" /\ Busy(z, k)
      /\ report[z][k] \in Report /\ job.status \in JobStatus
      /\ UNCHANGED <<scope, job, exec, rival, task, named, sched, runner, harm>>
  BY DEF IInv, RunnerInv, ReportInv, ReportRead, Busy, TypeOK, rows, Job
<1>2. F \subseteq Zones
  BY DEF Found, Rows
<1>3. /\ at \in {"final", "create", "commit"}
      /\ at = "create" => k = "success" /\ report[z][k].phase = "baseline"
      /\ at = "commit" => F # {}
  BY <1>1 DEF AfterAggregation, IsFinal, Kind, Report, Phase
<1>4. report' = [report EXCEPT ![z][k] = r]
  BY <1>1 DEF ReportRead
<1> HIDE DEF F, at
<1>5. /\ r \in Report /\ r.at = at /\ r.found = F
      /\ r.phase = report[z][k].phase /\ r.late = report[z][k].late
  BY <1>1, <1>2, <1>3 DEF Report, ReportStep
<1> HIDE DEF r
<1>6. /\ report' \in [Zones -> [Kind -> Report]]
      /\ report'[z][k] = r
      /\ \A y \in Zones, l \in Kind : y # z \/ l # k => report'[y][l] = report[y][l]
  BY <1>1, <1>4, <1>5, SetReport
<1>7. TypeOK'
  BY <1>1, <1>6 DEF TypeOK
<1>8. NoNewPending /\ "success" \in Kind
  BY <1>1 DEF NoNewPending, Kind
<1>9. RunnerOK(z)' /\ (\A q \in Phase : Ahead(z, q)' => Ahead(z, q))
      /\ (BaselineOpen(z)' => BaselineOpen(z))
  BY <1>1, <1>8, RunnerKept
<1>10. ReportOK(z)'
  <2>1. \/ report'[z]["success"] = report[z]["success"]
        \/ k = "success" /\ report'[z]["success"] = r
    BY <1>6, <1>8
  <2>2. /\ report'[z]["success"].phase = "baseline"
             /\ report'[z]["success"].at \in {"exec", "read", "commit", "create", "context"}
             => <<z, "deep">> \notin named
        /\ report'[z]["success"].at \in {"create", "context", "swap"}
             => report[z]["success"].phase = "baseline"
    BY <1>1, <1>3, <1>5, <2>1 DEF ReportOK
  <2>3. Busy(z, k)'
    BY <1>3, <1>5, <1>6 DEF Busy
  <2>4. QED BY <1>1, <1>5, <1>6, <1>9, <2>2, <2>3, ReportMoves
<1>11. RunnerInv' /\ ReportInv' /\ Quiet
  BY <1>1, <1>6, <1>8, <1>9, <1>10, OneZone
<1>12. Finishing(z, k)' => Closed /\ Open = {}
  <2>1. Finishing(z, k)' => at = "commit" /\ IsFinal(z, k)
    BY <1>5, <1>6 DEF Finishing, IsFinal
  <2>2. QED BY <1>1, <1>3, <2>1, FoundIsClosed DEF F
<1>13. ASSUME NEW y \in Zones, NEW l \in Kind, Finishing(y, l)'
       PROVE  Finishing(y, l) \/ (Closed /\ Open = {})
  <2>1. CASE y = z /\ l = k
    BY <1>5, <1>6, <1>12, <1>13, <2>1
  <2>2. CASE y # z \/ l # k
    BY <1>6, <1>13, <2>2, FinishingKept
  <2>3. QED BY <2>1, <2>2
<1>14. ExecInv' /\ SchedInv' /\ ClosedInv'
  BY <1>1, <1>11, <1>13, QuietExec, QuietClosedInv
<1>15. CoverInv'
  <2>1. harm' # "late" =>
          harm # "late" /\ \A y \in Zones, l \in Kind : ~report'[y][l].late
    BY <1>1, <1>5, <1>6, NotLate
  <2>2. \A y \in Zones : report'[y]["success"].at = "exec" => report[y]["success"].at = "exec"
    BY <1>3, <1>5, <1>6, <1>8
  <2>3. QED BY <1>1, <1>11, <1>13, <2>1, <2>2, QuietCover
<1>16. QED BY <1>7, <1>11, <1>14, <1>15, Together

(* A baseline is reported while it is open, unless its report is late. *)
LEMMA BaselineNotClosed ==
  ASSUME IInv, NEW z \in Zones, Busy(z, "success"), report[z]["success"].phase = "baseline",
         ~report[z]["success"].late
  PROVE  BaselineOpen(z)
<1>1. ReportOK(z)
  BY DEF IInv, ReportInv
<1>2. QED BY <1>1 DEF ReportOK, BaselineOpen

LEMMA ReportAggregateKeeps ==
  ASSUME IInv, NEW z \in Zones, NEW k \in Kind, ReportAggregate(z, k)
  PROVE  IInv'
<1> DEFINE at == AfterAggregation(z, k)
           F == report[z][k].found
<1>1. /\ TypeOK /\ RunnerOK(z) /\ ReportOK(z) /\ report[z][k].at = "commit" /\ Busy(z, k)
      /\ report[z][k] \in Report
      /\ UNCHANGED <<scope, exec, rival, named, sched, runner, harm>>
  BY DEF IInv, RunnerInv, ReportInv, ReportAggregate, Busy, TypeOK
<1>2. /\ at \in {"final", "create"}
      /\ at = "create" => k = "success" /\ report[z][k].phase = "baseline"
  BY <1>1 DEF AfterAggregation, IsFinal, Kind, Report, Phase
<1>3. /\ job' \in Job /\ job'.covered = F
      /\ IsFinal(z, k) => job'.status \in {"COMPLETED", job.status}
      /\ ~IsFinal(z, k) => job'.status \in {"RUNNING", job.status}
  <2>1. job' = Aggregated(z, k) /\ IsFinal(z, k) \in BOOLEAN /\ F \subseteq Zones
    BY <1>1 DEF ReportAggregate, IsFinal, Report
  <2>2. /\ job.status \in JobStatus /\ "COMPLETED" \in JobStatus /\ "RUNNING" \in JobStatus
    BY <1>1 DEF TypeOK, Job, JobStatus
  <2>3. QED BY <2>1, <2>2 DEF Aggregated, Written, Job
<1>4. task' \in [Task -> TaskStatus] /\ NoNewPending
  <2>1. CASE task' = task
    BY <1>1, <2>1 DEF TypeOK, NoNewPending
  <2>2. CASE task' = [task EXCEPT ![Parent] = "SUCCESS"]
    <3>1. "SUCCESS" \in TaskStatus
      BY DEF TaskStatus
    <3>2. QED BY <1>1, <2>2, <3>1, Tasks, SetTask
  <2>3. QED BY <2>1, <2>2 DEF ReportAggregate
<1>5. /\ report' \in [Zones -> [Kind -> Report]]
      /\ report'[z][k].at = at /\ report'[z][k].phase = report[z][k].phase
      /\ report'[z][k].late = report[z][k].late
      /\ \A y \in Zones, l \in Kind : y # z \/ l # k =>
           SameStep(y, l) /\ report'[y][l].found = report[y][l].found
  <2> DEFINE new(y, l) ==
               LET r == report[y][l]
               IN  IF y = z /\ l = k THEN [r EXCEPT !.at = at, !.clash = FALSE]
                   ELSE IF r.at = "commit" /\ IsFinal(z, k) /\ IsFinal(y, l)
                     THEN [r EXCEPT !.clash = TRUE]
                   ELSE r
  <2>1. report' = [y \in Zones |-> [l \in Kind |-> new(y, l)]]
    BY DEF ReportAggregate
  <2>2. ASSUME NEW r \in Report
        PROVE  /\ [r EXCEPT !.clash = TRUE] \in Report
               /\ [r EXCEPT !.clash = TRUE].at = r.at
               /\ [r EXCEPT !.clash = TRUE].phase = r.phase
               /\ [r EXCEPT !.clash = TRUE].late = r.late
               /\ [r EXCEPT !.clash = TRUE].found = r.found
               /\ [r EXCEPT !.at = at, !.clash = FALSE] \in Report
               /\ [r EXCEPT !.at = at, !.clash = FALSE].at = at
               /\ [r EXCEPT !.at = at, !.clash = FALSE].phase = r.phase
               /\ [r EXCEPT !.at = at, !.clash = FALSE].late = r.late
    BY <1>2, <2>2 DEF Report, ReportStep
  <2> HIDE DEF at
  <2>3. ASSUME NEW y \in Zones, NEW l \in Kind
        PROVE  /\ new(y, l) \in Report
               /\ y = z /\ l = k =>
                    /\ new(y, l).at = at /\ new(y, l).phase = report[y][l].phase
                    /\ new(y, l).late = report[y][l].late
               /\ y # z \/ l # k =>
                    /\ new(y, l).at = report[y][l].at /\ new(y, l).phase = report[y][l].phase
                    /\ new(y, l).late = report[y][l].late
                    /\ new(y, l).found = report[y][l].found
    <3>1. report[y][l] \in Report
      BY <1>1 DEF TypeOK
    <3>2. CASE y = z /\ l = k
      <4>1. new(y, l) = [report[y][l] EXCEPT !.at = at, !.clash = FALSE]
        BY <3>2
      <4>2. QED BY <2>2, <3>1, <3>2, <4>1
    <3>3. CASE ~(y = z /\ l = k)
      <4>1. new(y, l) = report[y][l] \/ new(y, l) = [report[y][l] EXCEPT !.clash = TRUE]
        BY <3>3
      <4>2. QED BY <2>2, <3>1, <3>3, <4>1
    <3>4. QED BY <3>2, <3>3
  <2> HIDE DEF new
  <2>4. \A y \in Zones, l \in Kind : report'[y][l] = new(y, l)
    BY <2>1
  <2>5. report' \in [Zones -> [Kind -> Report]]
    BY <2>1, <2>3
  <2>6. QED BY <2>3, <2>4, <2>5 DEF SameStep
<1> HIDE DEF at
<1>6. TypeOK'
  BY <1>1, <1>3, <1>4, <1>5 DEF TypeOK
<1>7. RunnerOK(z)' /\ (\A q \in Phase : Ahead(z, q)' => Ahead(z, q))
      /\ (BaselineOpen(z)' => BaselineOpen(z))
  BY <1>1, <1>4, RunnerKept
<1>8. "success" \in Kind
  BY DEF Kind
<1>9. ReportOK(z)'
  <2>1. \/ /\ report'[z]["success"].at = report[z]["success"].at
           /\ report'[z]["success"].phase = report[z]["success"].phase
        \/ /\ k = "success" /\ report'[z]["success"].at = at
           /\ report'[z]["success"].phase = report[z]["success"].phase
    BY <1>5, <1>8 DEF SameStep
  <2>2. /\ report'[z]["success"].phase = "baseline"
             /\ report'[z]["success"].at \in {"exec", "read", "commit", "create", "context"}
             => <<z, "deep">> \notin named
        /\ report'[z]["success"].at \in {"create", "context", "swap"}
             => report[z]["success"].phase = "baseline"
    BY <1>1, <1>2, <2>1 DEF ReportOK
  <2>3. Busy(z, k)'
    BY <1>2, <1>5 DEF Busy
  <2>4. \A l \in Kind : l # k => SameStep(z, l)
    BY <1>5
  <2>5. QED BY <1>1, <1>5, <1>7, <2>2, <2>3, <2>4, ReportMoves
<1>10. RunnerInv' /\ ReportInv' /\ Quiet
  BY <1>1, <1>4, <1>5, <1>7, <1>9, OneZone
<1>11. \A y \in Zones, l \in Kind :
         Finishing(y, l)' => Finishing(y, l)
  <2>1. ASSUME NEW y \in Zones, NEW l \in Kind, Finishing(y, l)'
        PROVE  Finishing(y, l)
    <3>1. y # z \/ l # k
      BY <1>2, <1>5, <2>1 DEF Finishing
    <3>2. QED BY <1>5, <2>1, <3>1, FinishingKept
  <2>2. QED BY <2>1
<1>12. ASSUME job'.status = "COMPLETED"
       PROVE  job.status = "COMPLETED" \/ Finishing(z, k)
  BY <1>1, <1>3, <1>12 DEF Finishing
<1>14. ExecInv' /\ SchedInv' /\ ClosedInv'
  BY <1>1, <1>10, <1>11, <1>12, QuietExec, QuietClosedInv
<1>15. CoverInv'
  <2>1. harm' # "late" =>
          harm # "late" /\ \A y \in Zones, l \in Kind : ~report'[y][l].late
    BY <1>1, <1>5, NotLate DEF SameStep
  <2>2. \A y \in Zones : report'[y]["success"].at = "exec" => report[y]["success"].at = "exec"
    BY <1>2, <1>5, <1>8 DEF SameStep
  <2>3. QED BY <1>1, <1>10, <1>11, <1>12, <2>1, <2>2, QuietCover
<1>16. QED BY <1>6, <1>10, <1>14, <1>15, Together

(***************************************************************************)
(* Steps of the request that queues the deep phase: they touch one zone,   *)
(* and neither the executions nor the job.                                 *)
(***************************************************************************)
LEMMA FollowupStep ==
  ASSUME IInv, TypeOK', NEW z \in Zones, UNCHANGED <<scope, job, exec, sched, runner, harm>>,
         report[z]["success"].phase = "baseline", Busy(z, "success"),
         /\ report'[z]["success"].at \in {"context", "swap"}
         /\ report'[z]["success"].phase = "baseline"
         /\ report'[z]["success"].late = report[z]["success"].late,
         \A y \in Zones, l \in Kind : y # z \/ l # "success" => report'[y][l] = report[y][l],
         \A y \in Zones, p \in Phase : <<y, p>> # <<z, "deep">> =>
           /\ task'[<<y, p>>] = task[<<y, p>>]
           /\ <<y, p>> \in named' <=> <<y, p>> \in named,
         <<z, "deep">> \notin named,
         \/ <<z, "deep">> \notin named' /\ report'[z]["success"].at = "context"
         \/ /\ <<z, "deep">> \in named' /\ report'[z]["success"].at = "swap"
            /\ task' = task
  PROVE  IInv'
<1>1. /\ TypeOK /\ RunnerOK(z) /\ ReportOK(z) /\ <<z, "baseline">> \in named
      /\ ~Ahead(z, "baseline") /\ "success" \in Kind /\ "failure" \in Kind
      /\ Phase = {"baseline", "deep"} /\ Kind = {"success", "failure"}
  BY DEF IInv, RunnerInv, ReportInv, ReportOK, Kind, Phase
<1>2. \A y \in Zones : /\ task'[<<y, "baseline">>] = task[<<y, "baseline">>]
                       /\ <<y, "baseline">> \in named' <=> <<y, "baseline">> \in named
                       /\ BaselineOpen(y)' <=> BaselineOpen(y)
                       /\ Ahead(y, "baseline")' <=> Ahead(y, "baseline")
  BY <1>1, Tasks DEF Ahead, BaselineOpen
<1>3. ASSUME NEW y \in Zones, y # z, NEW p \in Phase
      PROVE  /\ task'[<<y, p>>] = task[<<y, p>>]
             /\ <<y, p>> \in named' <=> <<y, p>> \in named
  <2>1. <<y, p>> # <<z, "deep">>
    BY <1>3
  <2>2. QED BY <2>1
<1>3a. \A y \in Zones, p \in Phase : y # z => (Ahead(y, p)' => Ahead(y, p))
  BY <1>3 DEF Ahead
<1>4. ASSUME NEW y \in Zones, y # z  PROVE RunnerOK(y)' /\ ReportOK(y)'
  <2>1. RunnerOK(y) /\ ReportOK(y)
    BY DEF IInv, RunnerInv, ReportInv
  <2>2. \A k \in Kind : SameStep(y, k)
    BY <1>4 DEF SameStep
  <2>3. QED BY <1>1, <1>3, <1>4, <2>1, <2>2, RunnerKept, ReportKept
<1>5. runner[z].at # "loop" => runner[z].phase = "baseline"
  BY <1>1 DEF RunnerOK, TypeOK, Runner
<1>6. RunnerOK(z)'
  BY <1>1, <1>2, <1>5 DEF RunnerOK
<1>7. ReportOK(z)'
  <2>1. ASSUME NEW k \in Kind, Busy(z, k)'
        PROVE  <<z, report'[z][k].phase>> \in named' /\ ~Ahead(z, report[z][k].phase)'
    <3>1. report'[z][k].phase = "baseline"
      <4>1. CASE k = "success"
        BY <4>1
      <4>2. CASE k = "failure"
        <5>1. report'[z][k] = report[z][k] /\ Busy(z, k) /\ report[z][k].phase \in Phase
          BY <1>1, <2>1, <4>2 DEF Busy, TypeOK, Report
        <5>2. QED BY <1>1, <5>1 DEF ReportOK
      <4>3. QED BY <1>1, <4>1, <4>2
    <3>2. <<z, report'[z][k].phase>> \in named'
      BY <1>1, <1>2, <3>1
    <3>3. ~Ahead(z, report[z][k].phase)'
      BY <1>1, <1>2, <3>1 DEF Ahead
    <3>4. QED BY <3>2, <3>3
  <2>2. report'[z]["failure"] = report[z]["failure"] /\ Busy(z, "success")'
    BY <1>1 DEF Busy
  <2>3. QED BY <1>1, <2>1, <2>2 DEF ReportOK, Busy
<1>8. RunnerInv' /\ ReportInv'
  BY <1>4, <1>6, <1>7 DEF RunnerInv, ReportInv
<1>9. ExecInv'
  <2>1. ASSUME NEW y \in Zones  PROVE ExecOK(y)'
    <3>1. ExecOK(y)
      BY DEF IInv, ExecInv
    <3>2. QED BY <1>2, <3>1 DEF ExecOK, Over
  <2>2. QED BY <2>1 DEF ExecInv
<1>10. SchedInv'
  <2>1. SchedInv /\ sched.at \notin {"idle", "parent"} /\ Rows' = Rows
    BY <1>1 DEF IInv, SchedInv, Rows
  <2>2. \A y \in Zones : Served(y)' <=> Served(y)
    BY <1>2 DEF Served
  <2>3. ASSUME NEW y \in Zones  PROVE WaitsOK(y)'
    <3>1. CASE y = z
      BY <1>1, <1>2, <2>1, <2>2, <3>1 DEF SchedInv, WaitsOK, Served
    <3>2. CASE y # z
      BY <1>1, <1>3, <2>1, <2>2, <3>2 DEF SchedInv, WaitsOK
    <3>3. QED BY <3>1, <3>2
  <2>4. QED BY <2>1, <2>2, <2>3 DEF SchedInv, OneServed, Over
<1>11. \A y \in Zones, k \in Kind :
         Finishing(y, k)' => Finishing(y, k)
  <2>1. ASSUME NEW y \in Zones, NEW k \in Kind, Finishing(y, k)'
        PROVE  report'[y][k] = report[y][k]
    BY <2>1 DEF Finishing
  <2>2. QED BY <2>1, FinishingKept
<1>12. ASSUME Closed  PROVE scope # "node"
  <2>1. SUFFICES ASSUME NEW y \in Zones, <<y, "deep">> \in named, scope = "node"  PROVE y = z
    BY <1>12 DEF Closed
  <2>2. Served(y) /\ Served(z)
    BY <1>1, <2>1 DEF IInv, RunnerInv, RunnerOK, Served
  <2>3. QED BY <1>1, <2>1, <2>2 DEF IInv, SchedInv, OneServed
<1>13. ClosedInv'
  <2>1. Closed => Closed'
    BY <1>2, <1>12 DEF Closed, Over
  <2>2. QED BY <1>11, <2>1 DEF IInv, ClosedInv
<1>14. CoverInv'
  <2>1. ASSUME harm' # "late", NEW y \in Zones
        PROVE  /\ \A k \in Kind : ~report'[y][k].late
               /\ DeepOver(y)'
               /\ exec'[y].status = "success" => exec'[y].deep
    <3>1. EndedOK(y) /\ \A k \in Kind : ~report[y][k].late
      BY <2>1, NotLate DEF IInv, CoverInv
    <3>2. \A k \in Kind : ~report'[y][k].late
      BY <1>1, <3>1
    <3>3. CASE y = z
      <4>1. exec[z].status \notin Terminal
        BY <1>1, <3>1, <3>3, BaselineNotClosed, OpenNotEnded
      <4>2. QED BY <3>2, <3>3, <4>1 DEF DeepOver, Terminal
    <3>4. CASE y # z
      <4>1. report'[y]["success"] = report[y]["success"]
        BY <1>1, <3>4
      <4>2. Ahead(y, "deep")' => Ahead(y, "deep")
        BY <1>1, <1>3a, <3>4
      <4>3. DeepOver(y)'
        BY <3>1, <4>1, <4>2, DeepOverKept DEF EndedOK
      <4>4. QED BY <3>1, <3>2, <4>3 DEF EndedOK
    <3>5. QED BY <3>3, <3>4
  <2>2. Open' \subseteq Open
    BY DEF Open, Rows
  <2>3. QED BY <1>11, <2>1, <2>2, CoverStep
<1>15. QED BY <1>8, <1>9, <1>10, <1>13, <1>14, Together

(* What is known of a report that queues the deep phase. *)
LEMMA FollowupFacts ==
  ASSUME IInv, NEW z \in Zones, report[z]["success"].at \in {"create", "context", "swap"}
  PROVE  /\ TypeOK /\ "success" \in Kind /\ "deep" \in Phase /\ "baseline" \in Phase
         /\ Busy(z, "success") /\ report[z]["success"].phase = "baseline"
         /\ <<z, "baseline">> \in named
         /\ report[z]["success"].at # "swap" => <<z, "deep">> \notin named
<1>1. TypeOK /\ ReportOK(z) /\ "success" \in Kind /\ "deep" \in Phase /\ "baseline" \in Phase
  BY DEF IInv, ReportInv, Kind, Phase
<1>2. Busy(z, "success") /\ report[z]["success"].phase = "baseline"
  BY <1>1 DEF Busy, ReportOK
<1>3. QED BY <1>1, <1>2 DEF ReportOK

LEMMA FollowupCreateKeeps ==
  ASSUME IInv, NEW z \in Zones, FollowupCreate(z)
  PROVE  IInv'
<1>1. /\ TypeOK /\ "success" \in Kind /\ "deep" \in Phase
      /\ Busy(z, "success") /\ report[z]["success"].phase = "baseline"
      /\ <<z, "deep">> \notin named
      /\ UNCHANGED <<scope, job, rival, exec, named, sched, runner, harm>>
  BY FollowupFacts DEF FollowupCreate
<1>2. CASE Answer(z, "success", "error") /\ UNCHANGED task
  BY <1>1, <1>2, AnswerKeeps DEF TypeOK, NoNewPending
<1>3. CASE task' = [task EXCEPT ![<<z, "deep">>] = "PENDING"] /\ Goto(z, "success", "context")
  <2> DEFINE t == <<z, "deep">>
  <2>1. t \in Task /\ "PENDING" \in TaskStatus
    BY <1>1, Tasks DEF TaskStatus, Active
  <2>2. task' = [task EXCEPT ![t] = "PENDING"]
    BY <1>3
  <2>3. task' \in [Task -> TaskStatus] /\ \A u \in Task : u # t => task'[u] = task[u]
    <3> HIDE DEF t
    <3>1. QED BY <1>1, <2>1, <2>2, SetTask
  <2>4. /\ report' \in [Zones -> [Kind -> Report]]
        /\ \A y \in Zones, l \in Kind : y # z \/ l # "success" => report'[y][l] = report[y][l]
        /\ report'[z]["success"].at = "context"
        /\ report'[z]["success"].phase = "baseline"
        /\ report'[z]["success"].late = report[z]["success"].late
    BY <1>1, <1>3, GotoReport DEF ReportStep
  <2>5. TypeOK'
    BY <1>1, <2>3, <2>4 DEF TypeOK
  <2>6. \A y \in Zones, p \in Phase : <<y, p>> # <<z, "deep">> =>
           /\ task'[<<y, p>>] = task[<<y, p>>]
           /\ <<y, p>> \in named' <=> <<y, p>> \in named
    BY <1>1, <2>3, Tasks
  <2>7. <<z, "deep">> \notin named'
    BY <1>1
  <2>8. QED BY <1>1, <2>4, <2>5, <2>6, <2>7, FollowupStep
<1>4. QED BY <1>2, <1>3 DEF FollowupCreate

LEMMA FollowupContextKeeps ==
  ASSUME IInv, NEW z \in Zones, FollowupContext(z)
  PROVE  IInv'
<1>1. /\ TypeOK /\ "success" \in Kind /\ "deep" \in Phase
      /\ Busy(z, "success") /\ report[z]["success"].phase = "baseline"
      /\ <<z, "deep">> \notin named
      /\ UNCHANGED <<scope, job, rival, exec, task, sched, runner, harm>>
  BY FollowupFacts DEF FollowupContext
<1>2. CASE Answer(z, "success", "error") /\ UNCHANGED named
  BY <1>1, <1>2, AnswerKeeps DEF TypeOK, NoNewPending
<1>3. CASE named' = named \cup {<<z, "deep">>} /\ Goto(z, "success", "swap")
  <2>1. /\ report' \in [Zones -> [Kind -> Report]]
        /\ \A y \in Zones, l \in Kind : y # z \/ l # "success" => report'[y][l] = report[y][l]
        /\ report'[z]["success"].at = "swap"
        /\ report'[z]["success"].phase = "baseline"
        /\ report'[z]["success"].late = report[z]["success"].late
    BY <1>1, <1>3, GotoReport DEF ReportStep
  <2>2. TypeOK'
    BY <1>1, <1>3, <2>1, Tasks DEF TypeOK
  <2>3. \A y \in Zones, p \in Phase : <<y, p>> # <<z, "deep">> =>
           /\ task'[<<y, p>>] = task[<<y, p>>]
           /\ <<y, p>> \in named' <=> <<y, p>> \in named
    BY <1>1, <1>3
  <2>4. <<z, "deep">> \in named' /\ task' = task
    BY <1>1, <1>3
  <2>5. QED BY <1>1, <2>1, <2>2, <2>3, <2>4, FollowupStep
<1>4. QED BY <1>2, <1>3 DEF FollowupContext

(* The execution waits for its deep phase: its baseline had not ended it. *)
LEMMA FollowupSwapKeeps ==
  ASSUME IInv, NEW z \in Zones, FollowupSwap(z)
  PROVE  IInv'
<1> DEFINE e == [exec[z] EXCEPT !.task = "deep", !.status = "pending"]
<1>1. /\ TypeOK /\ "success" \in Kind /\ "deep" \in Phase /\ "baseline" \in Phase
      /\ Busy(z, "success") /\ report[z]["success"].phase = "baseline"
      /\ <<z, "baseline">> \in named /\ report[z]["success"].at = "swap"
      /\ UNCHANGED <<scope, job, rival, task, named, sched, runner, harm>>
      /\ RunnerOK(z) /\ ReportOK(z) /\ exec[z] \in Execution /\ NoNewPending
  BY FollowupFacts DEF FollowupSwap, IInv, RunnerInv, ReportInv, TypeOK, NoNewPending
<1>2. CASE Answer(z, "success", "error") /\ UNCHANGED exec
  BY <1>1, <1>2, AnswerKeeps DEF TypeOK
<1>3. CASE /\ exec' = IF exec[z].task = "baseline" THEN [exec EXCEPT ![z] = e] ELSE exec
           /\ Goto(z, "success", "final")
  <2>1. /\ report' \in [Zones -> [Kind -> Report]]
        /\ \A y \in Zones, l \in Kind : y # z \/ l # "success" => report'[y][l] = report[y][l]
        /\ report'[z]["success"].at = "final"
        /\ report'[z]["success"].phase = report[z]["success"].phase
        /\ report'[z]["success"].late = report[z]["success"].late
    BY <1>1, <1>3, GotoReport DEF ReportStep
  <2>2. e \in Execution /\ e.task = "deep" /\ e.status = "pending"
    BY <1>1 DEF Execution
  <2> HIDE DEF e
  <2>3. /\ exec' \in [Zones -> Execution]
        /\ \A y \in Zones : y # z => exec'[y] = exec[y]
        /\ exec'[z] # exec[z] => exec'[z] = e /\ exec[z].task = "baseline"
    BY <1>1, <1>3, <2>2 DEF TypeOK
  <2>4. TypeOK'
    BY <1>1, <2>1, <2>3 DEF TypeOK
  <2>5. CASE exec' = exec
    <3>1. Busy(z, "success")' /\ ~Finishing(z, "success")'
      BY <2>1 DEF Busy, Finishing
    <3>2. QED BY <1>1, <2>1, <2>4, <2>5, <3>1, ReportCalm
  <2>6. CASE exec' # exec
    <3>1. exec'[z] = e /\ exec[z].task = "baseline"
      BY <1>1, <2>3, <2>6 DEF TypeOK
    <3>2. scope = "zones" /\ exec[z].status # "none"
      BY <1>1, <3>1, NamedIsScheduled
    <3>3. RunnerOK(z)' /\ (\A q \in Phase : Ahead(z, q)' => Ahead(z, q))
          /\ (BaselineOpen(z)' => BaselineOpen(z))
      BY <1>1, RunnerKept
    <3>4. ReportOK(z)'
      <4>1. Busy(z, "success")' /\ \A l \in Kind : l # "success" => report'[z][l] = report[z][l]
        BY <2>1 DEF Busy
      <4>2. QED BY <1>1, <2>1, <3>3, <4>1, ReportMoves
    <3>5. RunnerInv' /\ ReportInv' /\ Quiet
      BY <1>1, <2>1, <3>3, <3>4, OneZone
    <3>6. ExecInv' /\ SchedInv'
      BY <2>2, <2>3, <3>1, <3>2, <3>5, ExecMoves
    <3>7. \A y \in Zones, l \in Kind :
             Finishing(y, l)' => Finishing(y, l)
      <4>1. ASSUME NEW y \in Zones, NEW l \in Kind, Finishing(y, l)'
            PROVE  report'[y][l] = report[y][l]
        BY <2>1, <4>1 DEF Finishing
      <4>2. QED BY <4>1, FinishingKept
    <3>8. ClosedInv'
      BY <1>1, <3>5, <3>7, QuietClosedInv
    <3>9. CoverInv'
      <4>1. ASSUME harm' # "late"  PROVE Open # {}
        <5>1. exec[z].status \notin Terminal
          BY <1>1, <4>1, NotLate, BaselineNotClosed, OpenNotEnded
        <5>2. QED BY <3>2, <5>1 DEF Open, Rows
      <4>2. ASSUME harm' # "late", NEW y \in Zones
            PROVE  /\ \A l \in Kind : ~report'[y][l].late
                   /\ DeepOver(y)'
                   /\ exec'[y].status = "success" => exec'[y].deep
        <5>1. EndedOK(y) /\ \A l \in Kind : ~report[y][l].late
          BY <1>1, <4>2, NotLate DEF IInv, CoverInv
        <5>2. \A l \in Kind : ~report'[y][l].late
          BY <2>1, <5>1
        <5>3. CASE y = z
          BY <2>2, <3>1, <5>2, <5>3 DEF DeepOver, Terminal
        <5>4. CASE y # z
          <6>1. report'[y]["success"] = report[y]["success"] /\ exec'[y] = exec[y]
            BY <1>1, <2>1, <2>3, <5>4
          <6>2. DeepOver(y)'
            BY <3>5, <5>1, <6>1, DeepOverKept DEF EndedOK, Quiet, Phase
          <6>3. QED BY <5>1, <5>2, <6>1, <6>2 DEF EndedOK
        <5>5. QED BY <5>3, <5>4
      <4>3. QED BY <1>1, <3>7, <4>1, <4>2, CoverStep
    <3>10. QED BY <2>4, <3>5, <3>6, <3>8, <3>9, Together
  <2>7. QED BY <2>5, <2>6
<1>4. QED BY <1>2, <1>3 DEF FollowupSwap

-----------------------------------------------------------------------------
(* The environment. *)

(* A step that leaves the runners and the reports alone and opens nothing. *)
LEMMA StillStep ==
  ASSUME IInv, UNCHANGED <<named, runner, report>>, NoNewPending
  PROVE  /\ RunnerInv' /\ ReportInv'
         /\ \A z \in Zones :
              /\ \A p \in Phase : Ahead(z, p)' => Ahead(z, p)
              /\ BaselineOpen(z)' => BaselineOpen(z)
<1>1. ASSUME NEW y \in Zones
      PROVE  /\ RunnerOK(y)' /\ ReportOK(y)'
             /\ (BaselineOpen(y)' => BaselineOpen(y))
             /\ \A p \in Phase : Ahead(y, p)' => Ahead(y, p)
  <2>1. RunnerOK(y) /\ ReportOK(y) /\ TypeOK
    BY DEF IInv, RunnerInv, ReportInv
  <2>2. runner'[y] = runner[y] /\ \A k \in Kind : SameStep(y, k)
    BY DEF SameStep
  <2>3. QED BY <2>1, <2>2, RunnerKept, ReportKept
<1>2. QED BY <1>1 DEF RunnerInv, ReportInv

LEMMA StillKeeps ==
  ASSUME IInv, TypeOK', UNCHANGED <<scope, job, exec, named, sched, runner, report>>,
         NoNewPending, harm' # "late" => harm # "late"
  PROVE  IInv'
<1>1. RunnerInv' /\ ReportInv' /\ Quiet
  BY StillStep DEF Quiet
<1>2. \A y \in Zones, k \in Kind :
        Finishing(y, k)' => Finishing(y, k)
  BY FinishingKept
<1>3. ExecInv' /\ SchedInv' /\ ClosedInv'
  BY <1>1, <1>2, QuietExec, QuietClosedInv
<1>4. harm' # "late" =>
        harm # "late" /\ \A y \in Zones, l \in Kind : ~report'[y][l].late
  BY NotLate
<1>5. CoverInv'
  BY <1>1, <1>2, <1>4, QuietCover
<1>6. QED BY <1>1, <1>3, <1>5, Together

LEMMA CloseTaskKeeps ==
  ASSUME IInv, NEW t \in Task, NEW new \in {"CANCELED", "FAILURE"}, CloseTask(t, new)
  PROVE  IInv'
<1>1. TypeOK /\ new \in TaskStatus /\ new # "PENDING"
  BY DEF IInv, TaskStatus
<1>2. /\ task' = [task EXCEPT ![t] = new] /\ harm = "none" /\ harm' = "lost"
      /\ UNCHANGED <<scope, job, rival, exec, named, sched, runner, report>>
  BY DEF CloseTask
<1>3. task' \in [Task -> TaskStatus] /\ NoNewPending
  BY <1>1, <1>2, SetTask
<1>4. TypeOK'
  BY <1>1, <1>2, <1>3 DEF TypeOK
<1>5. QED BY <1>2, <1>3, <1>4, StillKeeps

LEMMA RivalKeeps ==
  ASSUME IInv, RivalStarts \/ RivalEnds
  PROVE  IInv'
<1>1. /\ rival' \in BOOLEAN
      /\ UNCHANGED <<scope, job, exec, task, named, sched, runner, report, harm>>
  BY DEF RivalStarts, RivalEnds, rows
<1>2. TypeOK' /\ NoNewPending
  BY <1>1 DEF IInv, TypeOK, NoNewPending
<1>3. QED BY <1>1, <1>2, StillKeeps

(* An execution forgets the task that was cleared, and keeps what it is. *)
LEMMA ClearKeeps ==
  ASSUME IInv, NEW t \in Task, Clear(t)
  PROVE  IInv'
<1>1. /\ TypeOK /\ harm = "none" /\ harm' = "lost"
      /\ task' = [task EXCEPT ![t] = "deleted"]
      /\ exec' = [z \in Zones |-> IF t = <<z, exec[z].task>>
                                    THEN [exec[z] EXCEPT !.task = "none"] ELSE exec[z]]
      /\ UNCHANGED <<scope, job, rival, named, sched, runner, report>>
  BY DEF IInv, Clear
<1>2. task' \in [Task -> TaskStatus] /\ NoNewPending
  <2>1. "deleted" \in TaskStatus
    BY DEF TaskStatus
  <2>2. QED BY <1>1, <2>1, SetTask
<1>3. ASSUME NEW e \in Execution
      PROVE  /\ [e EXCEPT !.task = "none"] \in Execution
             /\ [e EXCEPT !.task = "none"].task = "none"
             /\ [e EXCEPT !.task = "none"].status = e.status
             /\ [e EXCEPT !.task = "none"].deep = e.deep
  BY <1>3 DEF Execution
<1>4. ASSUME NEW z \in Zones
      PROVE  /\ exec'[z] \in Execution
             /\ exec'[z].status = exec[z].status /\ exec'[z].deep = exec[z].deep
             /\ exec'[z].task \in {"none", exec[z].task}
             /\ exec[z].task = "none" => exec'[z] = exec[z]
  <2>1. exec[z] \in Execution
    BY <1>1 DEF TypeOK
  <2>2. CASE t = <<z, exec[z].task>>
    <3>1. exec'[z] = [exec[z] EXCEPT !.task = "none"]
      BY <1>1, <2>2
    <3>2. exec[z].task # "none"
      BY <2>2 DEF Task, Child, Phase, Parent
    <3>3. QED BY <1>3, <2>1, <3>1, <3>2
  <2>3. CASE t # <<z, exec[z].task>>
    <3>1. exec'[z] = exec[z]
      BY <1>1, <2>3
    <3>2. QED BY <2>1, <3>1
  <2>4. QED BY <2>2, <2>3
<1>5. exec' \in [Zones -> Execution]
  BY <1>1, <1>4
<1>6. TypeOK'
  BY <1>1, <1>2, <1>5 DEF TypeOK
<1>7. RunnerInv' /\ ReportInv' /\ Quiet
  BY <1>1, <1>2, StillStep DEF Quiet
<1>8. ExecInv'
  <2>1. ASSUME NEW y \in Zones  PROVE ExecOK(y)'
    <3>1. ExecOK(y) /\ UNCHANGED <<scope, sched, named>>
      BY <1>1 DEF IInv, ExecInv
    <3>2. BaselineOpen(y)' => BaselineOpen(y)
      BY <1>7 DEF Quiet
    <3>3. exec'[y].status = "none" => exec'[y] = NoExecution
      BY <1>4, <3>1, FirstRows DEF ExecOK
    <3>4. QED BY <1>4, <3>1, <3>2, <3>3 DEF ExecOK, Over
  <2>2. QED BY <2>1 DEF ExecInv
<1>9. SchedInv'
  BY <1>4, <1>7, QuietSched DEF Rows
<1>10. \A y \in Zones, k \in Kind :
         Finishing(y, k)' => Finishing(y, k)
  BY <1>1, FinishingKept
<1>11. ClosedInv'
  BY <1>1, <1>7, <1>10, QuietClosedInv
<1>12. CoverInv'
  <2>1. ASSUME NEW y \in Zones
        PROVE  /\ \A k \in Kind : ~report'[y][k].late
               /\ DeepOver(y)'
               /\ exec'[y].status = "success" => exec'[y].deep
    <3>1. EndedOK(y) /\ \A k \in Kind : ~report[y][k].late
      BY <1>1, NotLate DEF IInv, CoverInv
    <3>2. DeepOver(y)'
      BY <1>1, <1>4, <1>7, <3>1 DEF EndedOK, DeepOver, Quiet, Phase
    <3>3. QED BY <1>1, <1>4, <3>1, <3>2 DEF EndedOK
  <2>2. Open' \subseteq Open
    BY <1>4 DEF Open, Rows
  <2>3. QED BY <1>1, <1>10, <2>1, <2>2, CoverStep
<1>13. QED BY <1>6, <1>7, <1>8, <1>9, <1>11, <1>12, Together

-----------------------------------------------------------------------------
(* The request that creates and schedules the job. *)

(* Nothing was done yet in a zone without a named task. *)
LEMMA Untouched ==
  ASSUME IInv, NEW z \in Zones, ~Served(z)
  PROVE  /\ \A p \in Phase : <<z, p>> \notin named
         /\ runner[z].at = "loop"
         /\ z \notin sched.new => ~BaselineOpen(z)
         /\ \A k \in Kind : ~Busy(z, k)
<1>1. RunnerOK(z) /\ ReportOK(z) /\ WaitsOK(z) /\ TypeOK
  BY DEF IInv, RunnerInv, ReportInv, SchedInv
<1>2. \A p \in Phase : <<z, p>> \notin named
  BY <1>1 DEF RunnerOK, Phase, Served
<1>3. runner[z].phase \in Phase /\ \A k \in Kind : report[z][k].phase \in Phase
  BY <1>1 DEF TypeOK, Runner, Report
<1>4. runner[z].at = "loop" /\ \A k \in Kind : ~Busy(z, k)
  BY <1>1, <1>2, <1>3 DEF RunnerOK, ReportOK
<1>5. z \notin sched.new => ~BaselineOpen(z)
  BY <1>1, <1>4 DEF WaitsOK, BaselineOpen, Ahead
<1>6. QED BY <1>2, <1>4, <1>5

(* A zone is scheduled: that ends no deep phase and begins none. *)
EndsNothing(z) ==
  /\ exec'[z] = exec[z] \/ (exec'[z].task # "deep" /\ exec'[z].status # "success")
  /\ task'[<<z, "deep">>] = "PENDING" => task[<<z, "deep">>] = "PENDING"

(* While the job is being scheduled it is not completed. *)
LEMMA ScheduleIsOpen ==
  ASSUME IInv, ~Over, UNCHANGED <<scope, runner, report, harm>>,
         job'.status = "COMPLETED" => job.status = "COMPLETED",
         \A z \in Zones : EndsNothing(z)
  PROVE  ClosedInv' /\ CoverInv'
<1>1. job.status # "COMPLETED" /\ \A z \in Zones, k \in Kind : ~Finishing(z, k)
  BY DEF IInv, ClosedInv, Closed
<1>2. job'.status # "COMPLETED" /\ \A z \in Zones, k \in Kind : ~Finishing(z, k)'
  BY <1>1, FinishingKept
<1>3. ClosedInv'
  BY <1>2 DEF ClosedInv
<1>4. ASSUME harm' # "late", NEW z \in Zones  PROVE EndedOK(z)'
  <2>1. EndedOK(z)
    BY <1>4 DEF IInv, CoverInv
  <2>2. \A k \in Kind : ~report'[z][k].late
    BY <2>1 DEF EndedOK
  <2>3. Ahead(z, "deep")' => Ahead(z, "deep")
    BY DEF Ahead, EndsNothing
  <2>4. DeepOver(z)' /\ (exec'[z].status = "success" => exec'[z].deep)
    BY <2>1, <2>3 DEF EndedOK, DeepOver, EndsNothing
  <2>5. QED BY <1>2, <2>2, <2>4 DEF EndedOK
<1>5. QED BY <1>2, <1>3, <1>4 DEF CoverInv

(***************************************************************************)
(* A step of the request that makes no task: what it stores in the end is  *)
(* an execution of a zone whose task is named, or of one without a task.   *)
(***************************************************************************)
LEMMA ScheduleStill ==
  ASSUME IInv, TypeOK', SchedInv', ~Over, NoNewPending,
         UNCHANGED <<scope, named, runner, report, harm>>,
         job'.status = "COMPLETED" => job.status = "COMPLETED",
         \A z \in Zones :
           \/ exec'[z] = exec[z]
           \/ /\ sched.at = "next" /\ Over'
              /\ exec'[z] = IF Served(z) THEN Scheduled ELSE Unserved
  PROVE  IInv'
<1>1. /\ RunnerInv' /\ ReportInv'
      /\ \A z \in Zones : BaselineOpen(z)' => BaselineOpen(z)
  BY StillStep
<1>2. TypeOK /\ SchedInv
  BY DEF IInv
<1>3. ASSUME NEW z \in Zones  PROVE ExecOK(z)'
  <2>1. ExecOK(z) /\ exec[z].status = "none"
    BY DEF IInv, ExecInv, ExecOK
  <2>2. CASE exec'[z] = exec[z]
    BY <2>1, <2>2 DEF ExecOK
  <2>3. CASE sched.at = "next" /\ Over' /\ exec'[z] = Scheduled
    BY <1>2, <2>3, FirstRows DEF ExecOK, SchedInv
  <2>4. CASE sched.at = "next" /\ Over' /\ exec'[z] = Unserved /\ ~Served(z)
    <3>1. ~BaselineOpen(z)'
      BY <1>1, <1>2, <2>4, Untouched DEF SchedInv
    <3>2. QED BY <1>2, <2>4, <3>1, FirstRows DEF ExecOK, SchedInv
  <2>5. QED BY <2>2, <2>3, <2>4
<1>4. ASSUME NEW z \in Zones  PROVE EndsNothing(z)
  BY FirstRows DEF EndsNothing, NoNewPending, Phase
<1>5. ClosedInv' /\ CoverInv'
  BY <1>4, ScheduleIsOpen
<1>6. QED BY <1>1, <1>3, <1>5, Together DEF ExecInv

(* The request ends and stores nothing. *)
LEMMA RequestEndsKeeps ==
  ASSUME IInv, ~Over, RequestEnds("error"),
         \A z \in sched.new : task[<<z, "baseline">>] # "PENDING",
         UNCHANGED <<scope, job, rival, exec, task, named, runner, report, harm>>
  PROVE  IInv'
<1>1. TypeOK /\ SchedInv /\ sched \in Sched
  BY DEF IInv, TypeOK
<1>2. /\ sched' \in Sched /\ sched'.at = "error" /\ sched'.todo = {} /\ sched'.new = {}
      /\ sched'.added = {} /\ sched'.lost = sched.lost
  BY <1>1 DEF RequestEnds, Sched, SchedStep
<1>3. TypeOK' /\ NoNewPending
  BY <1>1, <1>2 DEF TypeOK, NoNewPending
<1>4. Rows' = {} /\ \A z \in Zones : Served(z)' <=> Served(z)
  BY DEF Rows, Served, IInv, ExecInv, ExecOK
<1>5. \A z \in Zones : WaitsOK(z)'
  BY <1>1, <1>4 DEF SchedInv, WaitsOK
<1>6. SchedInv'
  BY <1>1, <1>2, <1>4, <1>5 DEF SchedInv, OneServed
<1>7. QED BY <1>3, <1>6, ScheduleStill

LEMMA CreateJobKeeps ==
  ASSUME IInv, CreateJob
  PROVE  IInv'
<1> DEFINE new == [job EXCEPT !.status = "PENDING"]
           s == [sched EXCEPT !.at = "parent"]
<1>1. /\ TypeOK /\ SchedInv /\ sched.at = "idle" /\ ~Over /\ job' = new /\ sched' = s
      /\ UNCHANGED <<scope, rival, exec, task, named, runner, report, harm>>
  BY DEF IInv, CreateJob, Over
<1>2. /\ new \in Job /\ new.status = "PENDING"
      /\ s \in Sched /\ s.at = "parent" /\ s.todo = sched.todo /\ s.new = sched.new
      /\ s.added = sched.added /\ s.lost = sched.lost
  BY <1>1 DEF TypeOK, Job, JobStatus, Sched, SchedStep
<1> HIDE DEF new, s
<1>3. TypeOK' /\ NoNewPending
  BY <1>1, <1>2 DEF TypeOK, NoNewPending
<1>4. \A z \in Zones : (Served(z)' <=> Served(z)) /\ WaitsOK(z)'
  BY <1>1, <1>2 DEF SchedInv, WaitsOK, Served
<1>5. SchedInv'
  BY <1>1, <1>2, <1>4 DEF SchedInv, OneServed, Over
<1>6. QED BY <1>1, <1>2, <1>3, <1>5, ScheduleStill

LEMMA CreateParentKeeps ==
  ASSUME IInv, CreateParent
  PROVE  IInv'
<1>1. /\ TypeOK /\ SchedInv /\ sched.at = "parent" /\ ~Over /\ sched \in Sched
      /\ named = {} /\ sched.added = {} /\ sched.lost = {} /\ sched.new = {}
      /\ "PENDING" \in TaskStatus /\ "baseline" \in Phase
      /\ UNCHANGED <<scope, job, rival, exec, runner, report, harm>>
  BY DEF IInv, CreateParent, SchedInv, TypeOK, TaskStatus, Active, Phase, Over
<1>2. ASSUME NEW z \in Zones
      PROVE  /\ runner[z].at = "loop" /\ \A k \in Kind : ~Busy(z, k)
             /\ ExecOK(z) /\ exec[z].status = "none" /\ ~Served(z)
             /\ \A p \in Phase : task[<<z, p>>] # "PENDING"
  BY <1>1, Untouched DEF IInv, ExecInv, ExecOK, SchedInv, WaitsOK, Served, Phase
<1>3. CASE /\ scope = "zones"
           /\ task' = [task EXCEPT ![Parent] = "PENDING"]
           /\ sched' = [sched EXCEPT !.at = "next", !.todo = Zones]
           /\ UNCHANGED named
  <2>1. /\ sched' \in Sched /\ sched'.at = "next" /\ sched'.new = {}
        /\ sched'.added = {} /\ sched'.lost = {}
    BY <1>1, <1>3 DEF Sched, SchedStep
  <2>2. /\ task' \in [Task -> TaskStatus]
        /\ \A z \in Zones, p \in Phase : task'[<<z, p>>] = task[<<z, p>>]
    BY <1>1, <1>3, Tasks, SetTask
  <2>3. TypeOK' /\ NoNewPending
    BY <1>1, <1>3, <2>1, <2>2 DEF TypeOK, NoNewPending
  <2>4. \A z \in Zones : ~Served(z)' /\ WaitsOK(z)'
    BY <1>2, <1>3, <2>2 DEF Served, WaitsOK, Phase
  <2>5. SchedInv'
    <3>1. scope' = "zones" /\ \A z \in Zones : ~Served(z)' /\ WaitsOK(z)'
      BY <1>1, <1>3, <2>4
    <3>2. QED BY <2>1, <3>1 DEF SchedInv, OneServed, Over
  <2>6. QED BY <1>1, <1>3, <2>3, <2>5, ScheduleStill
<1>4. ASSUME NEW y \in Zones, scope = "node",
             task' = [task EXCEPT ![<<y, "baseline">>] = "PENDING"],
             named' = {<<y, "baseline">>},
             sched' = [sched EXCEPT !.at = "done"]
      PROVE  IInv'
  <2> DEFINE t == <<y, "baseline">>
  <2>1. /\ sched' \in Sched /\ sched'.at = "done" /\ sched'.todo = sched.todo
        /\ sched'.new = {} /\ sched'.added = {} /\ sched'.lost = {}
    BY <1>1, <1>4 DEF Sched, SchedStep
  <2>2. t \in Task /\ t \in Child /\ task' = [task EXCEPT ![t] = "PENDING"]
    BY <1>1, <1>4, Tasks
  <2>3. /\ task' \in [Task -> TaskStatus]
        /\ \A u \in Task : u # t => task'[u] = task[u]
    <3> HIDE DEF t
    <3>1. QED BY <1>1, <2>2, SetTask
  <2>4. TypeOK'
    BY <1>1, <1>4, <2>1, <2>2, <2>3 DEF TypeOK
  <2>5. ASSUME NEW z \in Zones  PROVE RunnerOK(z)' /\ ReportOK(z)' /\ ExecOK(z)'
    <3>1. RunnerOK(z)'
      BY <1>1, <1>2, <1>4 DEF RunnerOK
    <3>2. ReportOK(z)'
      <4>1. \A k \in Kind : ~Busy(z, k)'
        BY <1>1, <1>2 DEF Busy
      <4>2. QED BY <1>1, <1>2, <4>1 DEF ReportOK, Busy, Kind
    <3>3. ExecOK(z)'
      BY <1>1, <1>2 DEF ExecOK
    <3>4. QED BY <3>1, <3>2, <3>3
  <2>6. SchedInv'
    <3>1. \A z \in Zones : (Served(z)' <=> z = y) /\ WaitsOK(z)'
      BY <1>2, <1>4, <2>3, Tasks DEF Served, WaitsOK, Phase
    <3>2. Rows' = {}
      BY <1>1, <1>2 DEF Rows
    <3>3. sched'.todo = {}
      BY <1>1, <2>1 DEF SchedInv
    <3>4. QED BY <1>1, <1>4, <2>1, <3>1, <3>2, <3>3 DEF SchedInv, OneServed, Over
  <2>7. \A z \in Zones : task'[<<z, "deep">>] = task[<<z, "deep">>]
    BY <2>3, Tasks DEF Phase
  <2>8. ClosedInv' /\ CoverInv'
    BY <1>1, <2>7, ScheduleIsOpen DEF EndsNothing
  <2>9. QED BY <2>4, <2>5, <2>6, <2>8, Together DEF RunnerInv, ReportInv, ExecInv
<1>5. QED BY <1>3, <1>4 DEF CreateParent

LEMMA ScheduleUnservedKeeps ==
  ASSUME IInv, NEW x \in Zones, ScheduleUnserved(x)
  PROVE  IInv'
<1> DEFINE s == [sched EXCEPT !.todo = @ \ {x}, !.added = @ \cup {x}]
<1>1. /\ TypeOK /\ SchedInv /\ sched.at = "next" /\ ~Over /\ x \in sched.todo
      /\ sched \in Sched /\ sched.new = {}
      /\ UNCHANGED <<scope, job, rival, exec, task, named, runner, report, harm>>
  BY DEF IInv, TypeOK, ScheduleUnserved, SchedInv, rows, Over
<1>2. CASE RequestEnds("error")
  BY <1>1, <1>2, RequestEndsKeeps
<1>3. CASE sched' = s
  <2>1. /\ s \in Sched /\ s.at = "next" /\ s.todo = sched.todo \ {x} /\ s.new = {}
        /\ s.added = sched.added \cup {x} /\ s.lost = sched.lost
    BY <1>1 DEF Sched
  <2> HIDE DEF s
  <2>2. TypeOK' /\ NoNewPending
    BY <1>1, <1>3, <2>1 DEF TypeOK, NoNewPending
  <2>3. \A z \in Zones : (Served(z)' <=> Served(z)) /\ WaitsOK(z)'
    BY <1>1, <1>3, <2>1 DEF SchedInv, WaitsOK, Served
  <2>4. ~Served(x)
    BY <1>1 DEF SchedInv
  <2>5. sched.todo \subseteq Zones /\ sched.added \subseteq Zones
    BY <1>1 DEF Sched
  <2>6. SchedInv'
    BY <1>1, <1>3, <2>1, <2>3, <2>4, <2>5 DEF SchedInv, OneServed, Over
  <2>7. QED BY <1>1, <2>2, <2>6, ScheduleStill
<1>4. QED BY <1>2, <1>3 DEF ScheduleUnserved

(* A task waits for its context; the executions added before are lost. *)
LEMMA ScheduleZoneKeeps ==
  ASSUME IInv, NEW x \in Zones, ScheduleZone(x)
  PROVE  IInv'
<1> DEFINE t == <<x, "baseline">>
<1>1. /\ TypeOK /\ SchedInv /\ sched.at = "next" /\ ~Over /\ x \in sched.todo
      /\ sched \in Sched /\ sched.new = {} /\ scope = "zones" /\ ~Served(x)
      /\ t \in Task /\ "baseline" \in Phase
      /\ UNCHANGED <<scope, job, rival, exec, named, runner, report, harm>>
  BY Tasks DEF IInv, TypeOK, SchedInv, ScheduleZone, Phase, Over
<1>2. CASE RequestEnds("error") /\ UNCHANGED task
  BY <1>1, <1>2, RequestEndsKeeps
<1>3. CASE /\ task' = [task EXCEPT ![t] = "PENDING"]
           /\ sched' = [at |-> "name", todo |-> sched.todo \ {x}, new |-> {x},
                        added |-> {}, lost |-> sched.lost \cup sched.added]
  <2>1. /\ sched' \in Sched /\ sched'.at = "name" /\ sched'.todo = sched.todo \ {x}
        /\ sched'.new = {x} /\ sched'.added = {}
        /\ sched'.lost = sched.lost \cup sched.added
    BY <1>1, <1>3 DEF Sched, SchedStep
  <2>2. /\ task' \in [Task -> TaskStatus]
        /\ \A u \in Task : u # t => task'[u] = task[u]
    <3>1. "PENDING" \in TaskStatus
      BY DEF TaskStatus, Active
    <3> HIDE DEF t
    <3>2. QED BY <1>1, <1>3, <3>1, SetTask
  <2>3. TypeOK'
    BY <1>1, <2>1, <2>2 DEF TypeOK
  <2>4. ASSUME NEW y \in Zones, y # x, NEW p \in Phase  PROVE task'[<<y, p>>] = task[<<y, p>>]
    BY <2>2, <2>4, Tasks
  <2>5. task'[<<x, "deep">>] = task[<<x, "deep">>]
    BY <2>2, Tasks DEF Phase
  <2>6. ASSUME NEW y \in Zones  PROVE RunnerOK(y)' /\ ReportOK(y)'
    <3>1. CASE y # x
      <4>1. RunnerOK(y) /\ ReportOK(y) /\ \A k \in Kind : SameStep(y, k)
        BY <1>1 DEF IInv, RunnerInv, ReportInv, SameStep
      <4>2. QED BY <1>1, <2>4, <3>1, <4>1, RunnerKept, ReportKept
    <3>2. CASE y = x
      <4>1. /\ \A p \in Phase : <<x, p>> \notin named
            /\ runner[x].at = "loop" /\ \A k \in Kind : ~Busy(x, k)
        BY <1>1, Untouched
      <4>2. RunnerOK(x)'
        BY <1>1, <4>1 DEF RunnerOK, Phase
      <4>3. \A k \in Kind : ~Busy(x, k)'
        BY <1>1, <4>1 DEF Busy
      <4>4. QED BY <1>1, <3>2, <4>1, <4>2, <4>3 DEF ReportOK, Busy, Kind
    <3>3. QED BY <3>1, <3>2
  <2>7. ExecInv'
    BY <1>1, <2>1 DEF IInv, ExecInv, ExecOK, Over
  <2>8. SchedInv'
    <3>1. ASSUME NEW y \in Zones  PROVE (Served(y)' <=> Served(y)) /\ WaitsOK(y)'
      BY <1>1, <2>1, <2>4, <2>5 DEF SchedInv, WaitsOK, Served, Phase
    <3>2. sched.todo \subseteq Zones
      BY <1>1 DEF Sched
    <3>3. QED BY <1>1, <2>1, <3>1, <3>2 DEF SchedInv, OneServed, Over
  <2>9. ClosedInv' /\ CoverInv'
    <3>1. ASSUME NEW y \in Zones  PROVE EndsNothing(y)
      BY <1>1, <2>4, <2>5 DEF EndsNothing, Phase
    <3>2. QED BY <1>1, <3>1, ScheduleIsOpen
  <2>10. QED BY <2>3, <2>6, <2>7, <2>8, <2>9, Together DEF RunnerInv, ReportInv
<1>4. QED BY <1>2, <1>3 DEF ScheduleZone

LEMMA ScheduleNameKeeps ==
  ASSUME IInv, NEW x \in Zones, ScheduleName(x)
  PROVE  IInv'
<1> DEFINE t == <<x, "baseline">>
<1>1. /\ TypeOK /\ SchedInv /\ sched.at = "name" /\ ~Over /\ sched \in Sched
      /\ sched.new = {x} /\ sched.added = {} /\ scope = "zones" /\ ~Served(x)
      /\ t \in Child /\ "baseline" \in Phase /\ "deep" \in Phase
      /\ UNCHANGED <<scope, job, rival, exec, task, runner, report, harm>>
  BY Tasks DEF IInv, TypeOK, SchedInv, ScheduleName, Phase, Over
<1>2. CASE task[t] = "deleted"
  <2>1. RequestEnds("error") /\ UNCHANGED named
    BY <1>2 DEF ScheduleName
  <2>2. \A z \in sched.new : task[<<z, "baseline">>] # "PENDING"
    BY <1>1, <1>2
  <2>3. QED BY <1>1, <2>1, <2>2, RequestEndsKeeps
<1>3. CASE task[t] # "deleted"
  <2>1. /\ named' = named \cup {t}
        /\ sched' = [sched EXCEPT !.at = "next", !.new = {}, !.added = {x}]
    BY <1>3 DEF ScheduleName
  <2>2. /\ sched' \in Sched /\ sched'.at = "next" /\ sched'.todo = sched.todo
        /\ sched'.new = {} /\ sched'.added = {x} /\ sched'.lost = sched.lost
    BY <1>1, <2>1 DEF Sched, SchedStep
  <2>3. TypeOK'
    BY <1>1, <2>1, <2>2 DEF TypeOK
  <2>4. ASSUME NEW y \in Zones, NEW p \in Phase
        PROVE  <<y, p>> \in named' <=> <<y, p>> \in named \/ (y = x /\ p = "baseline")
    BY <2>1, <2>4
  <2>5. ASSUME NEW y \in Zones  PROVE RunnerOK(y)' /\ ReportOK(y)'
    <3>1. RunnerOK(y) /\ ReportOK(y)
      BY DEF IInv, RunnerInv, ReportInv
    <3>2. /\ <<y, "deep">> \in named' <=> <<y, "deep">> \in named
          /\ \A p \in Phase : <<y, p>> \in named => <<y, p>> \in named'
      BY <1>1, <2>4
    <3>3. runner[y].phase \in Phase /\ \A k \in Kind : report[y][k].phase \in Phase
      BY <1>1 DEF TypeOK, Runner, Report
    <3>4. RunnerOK(y)'
      BY <1>1, <3>1, <3>2, <3>3 DEF RunnerOK, Ahead
    <3>5. \A k \in Kind : Busy(y, k)' <=> Busy(y, k)
      BY <1>1 DEF Busy
    <3>6. ASSUME NEW k \in Kind, Busy(y, k)'
          PROVE  <<y, report'[y][k].phase>> \in named' /\ ~Ahead(y, report[y][k].phase)'
      <4>1. <<y, report[y][k].phase>> \in named /\ ~Ahead(y, report[y][k].phase)
        BY <3>1, <3>5, <3>6 DEF ReportOK
      <4>2. <<y, report'[y][k].phase>> \in named'
        BY <1>1, <3>2, <3>3, <4>1
      <4>3. ~Ahead(y, report[y][k].phase)'
        BY <1>1, <4>1 DEF Ahead
      <4>4. QED BY <4>2, <4>3
    <3>7. "success" \in Kind /\ "failure" \in Kind
      BY DEF Kind
    <3>8. ReportOK(y)'
      BY <1>1, <3>1, <3>2, <3>5, <3>6, <3>7 DEF ReportOK
    <3>9. QED BY <3>4, <3>8
  <2>6. ExecInv'
    BY <1>1, <2>2 DEF IInv, ExecInv, ExecOK, Over
  <2>7. SchedInv'
    <3>1. \A y \in Zones : Served(y)' <=> Served(y) \/ y = x
      BY <1>1, <2>4 DEF Served
    <3>2. \A y \in Zones : WaitsOK(y)'
      BY <1>1, <2>2, <3>1 DEF SchedInv, WaitsOK
    <3>3. sched.todo \subseteq Zones /\ x \notin sched.todo
      BY <1>1 DEF Sched, SchedInv
    <3>4. QED BY <1>1, <2>2, <3>1, <3>2, <3>3 DEF SchedInv, OneServed, Over
  <2>8. ClosedInv' /\ CoverInv'
    <3>1. ASSUME NEW y \in Zones  PROVE EndsNothing(y)
      BY <1>1 DEF EndsNothing
    <3>2. QED BY <1>1, <3>1, ScheduleIsOpen
  <2>9. QED BY <2>3, <2>5, <2>6, <2>7, <2>8, Together DEF RunnerInv, ReportInv
<1>4. QED BY <1>2, <1>3

(* The last commit stores the executions that were not rolled back. *)
LEMMA ScheduleEndKeeps ==
  ASSUME IInv, ScheduleEnd
  PROVE  IInv'
<1> DEFINE st == IF \E z \in Zones : Served(z) THEN "RUNNING" ELSE "FAILED"
           new == [job EXCEPT !.status = st]
<1>1. /\ TypeOK /\ SchedInv /\ sched.at = "next" /\ ~Over /\ sched.todo = {}
      /\ sched \in Sched /\ sched.new = {} /\ scope = "zones"
      /\ UNCHANGED <<scope, rival, named, runner, report, harm>>
  BY DEF IInv, TypeOK, SchedInv, ScheduleEnd, Over
<1>2. new \in Job /\ new.status # "COMPLETED"
  BY <1>1 DEF TypeOK, Job, JobStatus
<1>3. \/ RequestEnds("error") /\ UNCHANGED <<job, exec, task>>
      \/ /\ job' = new
         /\ exec' = [z \in Zones |-> IF z \notin sched.added THEN exec[z]
                                     ELSE IF Served(z) THEN Scheduled ELSE Unserved]
         /\ task' = [task EXCEPT ![Parent] = "FAILURE"] \/ task' = task
         /\ \E at \in {"done", "error"} : RequestEnds(at)
  BY DEF ScheduleEnd
<1> HIDE DEF st, new
<1>4. CASE RequestEnds("error") /\ UNCHANGED <<job, exec, task>>
  BY <1>1, <1>4, RequestEndsKeeps
<1>5. CASE /\ job' = new
           /\ exec' = [z \in Zones |-> IF z \notin sched.added THEN exec[z]
                                       ELSE IF Served(z) THEN Scheduled ELSE Unserved]
           /\ task' = [task EXCEPT ![Parent] = "FAILURE"] \/ task' = task
           /\ \E at \in {"done", "error"} : RequestEnds(at)
  <2>1. /\ sched' \in Sched /\ sched'.at \in {"done", "error"} /\ sched'.todo = {}
        /\ sched'.new = {} /\ sched'.added = {} /\ sched'.lost = sched.lost
    BY <1>1, <1>5 DEF RequestEnds, Sched, SchedStep
  <2>2. /\ exec' \in [Zones -> Execution]
        /\ \A z \in Zones :
             /\ z \notin sched.added => exec'[z] = exec[z]
             /\ z \in sched.added => exec'[z] = IF Served(z) THEN Scheduled ELSE Unserved
    BY <1>1, <1>5, FirstRows DEF TypeOK
  <2>3. task' \in [Task -> TaskStatus] /\ NoNewPending
    <3>1. CASE task' = task
      BY <1>1, <3>1 DEF TypeOK, NoNewPending
    <3>2. CASE task' = [task EXCEPT ![Parent] = "FAILURE"]
      <4>1. "FAILURE" \in TaskStatus
        BY DEF TaskStatus
      <4>2. QED BY <1>1, <3>2, <4>1, Tasks, SetTask
    <3>3. QED BY <1>5, <3>1, <3>2
  <2>4. TypeOK'
    BY <1>1, <1>2, <1>5, <2>1, <2>2, <2>3 DEF TypeOK
  <2>5. SchedInv'
    <3>1. \A z \in Zones : Served(z)' <=> Served(z)
      BY <1>1 DEF Served
    <3>2. \A z \in Zones : WaitsOK(z)'
      BY <1>1, <2>3, <3>1 DEF SchedInv, WaitsOK, NoNewPending, Phase
    <3>3. \A z \in Zones : exec[z].status = "none"
      BY <1>1 DEF IInv, ExecInv, ExecOK
    <3>4. sched.added \subseteq Zones
      BY <1>1 DEF Sched
    <3>5. Rows' = sched.added
      BY <2>2, <3>3, <3>4, FirstRows DEF Rows
    <3>6. QED BY <1>1, <2>1, <3>1, <3>2, <3>4, <3>5 DEF SchedInv, OneServed, Over
  <2>6. Over'
    BY <2>1 DEF Over
  <2>7. QED BY <1>1, <1>2, <1>5, <2>2, <2>3, <2>4, <2>5, <2>6, ScheduleStill
<1>6. QED BY <1>3, <1>4, <1>5

-----------------------------------------------------------------------------
(* The specification. *)

LEMMA InitInv == Init => IInv
<1> SUFFICES ASSUME Init  PROVE IInv
  OBVIOUS
<1>1. /\ scope \in {"zones", "node"} /\ scope \in Scopes
      /\ job = [status |-> "none", covered |-> {}, deep |-> FALSE] /\ rival = FALSE
      /\ exec = [z \in Zones |-> NoExecution] /\ task = [t \in Task |-> "none"]
      /\ named = {}
      /\ sched = [at |-> "idle", todo |-> {}, new |-> {}, added |-> {}, lost |-> {}]
      /\ runner = [z \in Zones |-> [at |-> "loop", phase |-> "baseline"]]
      /\ report = [z \in Zones |-> [k \in Kind |-> NoReport]] /\ harm = "none"
  BY CampusAssumption DEF Init
<1>2. /\ job \in Job /\ sched \in Sched /\ "none" \in TaskStatus
      /\ [at |-> "loop", phase |-> "baseline"] \in Runner
  BY <1>1 DEF Job, JobStatus, Sched, SchedStep, TaskStatus, Runner, RunnerStep, Phase
<1>3. TypeOK
  BY <1>1, <1>2, FirstRows DEF TypeOK
<1>4. /\ \A z \in Zones : runner[z].at = "loop" /\ exec[z] = NoExecution
      /\ \A z \in Zones, k \in Kind : report[z][k] = NoReport
      /\ \A z \in Zones, p \in Phase : task[<<z, p>>] = "none"
      /\ sched.at = "idle" /\ sched.todo = {} /\ sched.new = {}
      /\ sched.added = {} /\ sched.lost = {} /\ ~Over
      /\ job.status = "none" /\ "success" \in Kind /\ "failure" \in Kind
      /\ "baseline" \in Phase /\ "deep" \in Phase
  BY <1>1, Tasks DEF Kind, Phase, Over
<1>5. \A z \in Zones : ~BaselineOpen(z) /\ \A p \in Phase : ~Ahead(z, p)
  BY <1>4 DEF BaselineOpen, Ahead
<1>6. \A z \in Zones, k \in Kind : ~Busy(z, k) /\ ~Finishing(z, k) /\ ~report[z][k].late
  BY <1>4, FirstRows DEF Busy, Finishing
<1>7. RunnerInv
  BY <1>1, <1>4 DEF RunnerInv, RunnerOK
<1>8. ReportInv
  BY <1>4, <1>6, FirstRows DEF ReportInv, ReportOK
<1>9. ExecInv
  BY <1>1, <1>4, <1>5, FirstRows DEF ExecInv, ExecOK
<1>10. SchedInv
  BY <1>1, <1>4 DEF SchedInv, WaitsOK, Served, OneServed
<1>11. ClosedInv
  BY <1>4, <1>6 DEF ClosedInv
<1>12. CoverInv
  BY <1>4, <1>6, FirstRows DEF CoverInv, EndedOK, DeepOver, Terminal
<1>13. QED BY <1>3, <1>7, <1>8, <1>9, <1>10, <1>11, <1>12 DEF IInv

LEMMA NextInv == IInv /\ [Next]_vars => IInv'
<1> SUFFICES ASSUME IInv, [Next]_vars  PROVE IInv'
  OBVIOUS
<1>1. CASE Schedule
  BY <1>1, CreateJobKeeps, CreateParentKeeps, ScheduleUnservedKeeps, ScheduleZoneKeeps,
     ScheduleNameKeeps, ScheduleEndKeeps DEF Schedule
<1>2. ASSUME NEW z \in Zones, RunnerActs(z) \/ Lose(z) \/ GiveUp(z)  PROVE IInv'
  BY <1>2, FetchKeeps, AssignKeeps, AssignedKeeps, ScanKeeps, BackToLoopKeeps,
     FailureInsteadKeeps, LoseKeeps, GiveUpKeeps DEF RunnerActs
<1>3. ASSUME NEW z \in Zones, NEW k \in Kind, ReportActs(z, k)  PROVE IInv'
  BY <1>3, ReportExecutionKeeps, ReportReadKeeps, ReportAggregateKeeps,
     ReportAggregateFailsKeeps, ReportFinalKeeps, FollowupCreateKeeps,
     FollowupContextKeeps, FollowupSwapKeeps DEF ReportActs
<1>4. ASSUME NEW t \in Task, Cancel(t) \/ Sweep(t) \/ Clear(t)  PROVE IInv'
  BY <1>4, CloseTaskKeeps, ClearKeeps DEF Cancel, Sweep
<1>5. CASE RivalStarts \/ RivalEnds
  BY <1>5, RivalKeeps
<1>6. CASE UNCHANGED vars
  <2>1. UNCHANGED <<scope, job, rival, exec, task, named, sched, runner, report, harm>>
    BY <1>6 DEF vars, rows
  <2>2. TypeOK' /\ NoNewPending
    BY <2>1 DEF IInv, TypeOK, NoNewPending
  <2>3. QED BY <2>1, <2>2, StillKeeps
<1>7. QED BY <1>1, <1>2, <1>3, <1>4, <1>5, <1>6 DEF Next

(***************************************************************************)
(* The inductive invariant holds in every state: whatever the order of     *)
(* the polls, the reports and the scheduling, nothing is left to run when  *)
(* a final aggregation has found the executions ended.                     *)
(***************************************************************************)
THEOREM AlwaysIInv == Spec => []IInv
<1>1. Init => IInv
  BY InitInv
<1>2. IInv /\ [Next]_vars => IInv'
  BY NextInv
<1>3. QED BY <1>1, <1>2, PTL DEF Spec

(* Every variable keeps its type, for any set of zones. *)
THEOREM TypeCorrect == Spec => []TypeOK
<1>1. IInv => TypeOK
  BY DEF IInv
<1>2. QED BY <1>1, AlwaysIInv, PTL

-----------------------------------------------------------------------------
(* What a completed job covers. *)

(***************************************************************************)
(* What is aggregated is of zones whose task has its context and, for a    *)
(* job of zones, whose execution is stored: of those there is at most one. *)
(***************************************************************************)
Stored(F) ==
  /\ F # {}
  /\ \A z \in F : Served(z) /\ (scope = "zones" => z \in Rows)

StoredInv ==
  /\ \A z \in Zones, k \in Kind : report[z][k].at = "commit" => Stored(report[z][k].found)
  /\ job.status = "COMPLETED" => Stored(job.covered)
  /\ \A z \in Zones :
       exec[z].status = "success" \/ exec[z].base \/ task[<<z, "deep">>] = "SUCCESS"
         => Served(z)

(* A job completed by a baseline is that of an orphan. *)
DeepInv ==
  job.status = "COMPLETED" /\ harm # "late" => job.deep \/ Orphans # {}

(* Contexts, executions and lost zones only get more. *)
Grows ==
  /\ scope' = scope
  /\ named \subseteq named' /\ Rows \subseteq Rows' /\ sched.lost \subseteq sched'.lost

LEMMA RowStays ==
  ASSUME NEW z \in Zones, NEW e \in Execution, exec[z].status # "none" => e.status # "none",
         exec \in [Zones -> Execution], exec' = [exec EXCEPT ![z] = e]
  PROVE  Rows \subseteq Rows'
BY DEF Rows

LEMMA StepGrows ==
  ASSUME IInv, [Next]_vars
  PROVE  Grows
<1>1. /\ exec \in [Zones -> Execution] /\ scope \in {"zones", "node"} /\ sched \in Sched
      /\ \A z \in Zones : exec[z] \in Execution /\ runner[z].phase \in Phase
      /\ \A z \in Zones, k \in Kind : report[z][k].phase \in Phase
  BY CampusAssumption DEF IInv, TypeOK, Runner, Report
<1>2. CASE UNCHANGED <<scope, exec, named, sched>>
  BY <1>2 DEF Grows, Rows
<1>3. CASE Schedule
  <2>1. CASE CreateJob \/ CreateParent
    <3>1. UNCHANGED <<scope, exec>> /\ sched'.lost = sched.lost
      BY <1>1, <2>1 DEF CreateJob, CreateParent, Sched
    <3>2. named \subseteq named'
      BY <2>1 DEF CreateJob, CreateParent, IInv, SchedInv
    <3>3. QED BY <3>1, <3>2 DEF Grows, Rows
  <2>2. CASE \E z \in Zones : ScheduleUnserved(z) \/ ScheduleZone(z) \/ ScheduleName(z)
    <3>1. UNCHANGED <<scope, exec>> /\ named \subseteq named'
      BY <2>2 DEF ScheduleUnserved, ScheduleZone, ScheduleName, rows
    <3>2. ASSUME NEW at, RequestEnds(at)  PROVE sched'.lost = sched.lost
      BY <1>1, <3>2 DEF RequestEnds, Sched
    <3>3. ASSUME NEW z \in Zones, ScheduleUnserved(z)  PROVE sched.lost \subseteq sched'.lost
      BY <1>1, <3>2, <3>3 DEF ScheduleUnserved, Sched
    <3>4. ASSUME NEW z \in Zones, ScheduleZone(z)  PROVE sched.lost \subseteq sched'.lost
      BY <1>1, <3>2, <3>4 DEF ScheduleZone, Sched
    <3>5. ASSUME NEW z \in Zones, ScheduleName(z)  PROVE sched.lost \subseteq sched'.lost
      BY <1>1, <3>2, <3>5 DEF ScheduleName, Sched
    <3>6. QED BY <2>2, <3>1, <3>3, <3>4, <3>5 DEF Grows, Rows
  <2>3. CASE ScheduleEnd
    <3>1. UNCHANGED <<scope, named>>
      BY <2>3 DEF ScheduleEnd
    <3>2. ASSUME NEW at, RequestEnds(at)  PROVE sched'.lost = sched.lost
      BY <1>1, <3>2 DEF RequestEnds, Sched
    <3>3. sched'.lost = sched.lost
      BY <2>3, <3>2 DEF ScheduleEnd
    <3>4. Rows = {}
      BY <1>1, <2>3 DEF Rows, IInv, ExecInv, ExecOK, Over, ScheduleEnd
    <3>5. QED BY <3>1, <3>3, <3>4 DEF Grows
  <2>4. QED BY <1>3, <2>1, <2>2, <2>3 DEF Schedule
<1>4. ASSUME NEW z \in Zones, Assigned(z)  PROVE Grows
  <2>1. UNCHANGED <<scope, named, sched>>
    BY <1>4 DEF Assigned
  <2>2. CASE exec' = exec
    BY <2>1, <2>2, <1>2
  <2>3. CASE exec' = [exec EXCEPT ![z].status = "running"]
    <3> DEFINE e == [exec[z] EXCEPT !.status = "running"]
    <3>1. exec' = [exec EXCEPT ![z] = e]
      BY <2>3
    <3>2. e \in Execution /\ e.status # "none"
      BY <1>1 DEF Execution
    <3> HIDE DEF e
    <3>3. QED BY <1>1, <2>1, <3>1, <3>2, RowStays DEF Grows
  <2>4. QED BY <1>4, <2>2, <2>3 DEF Assigned
<1>5. ASSUME NEW z \in Zones, NEW k \in Kind, ReportExecution(z, k)  PROVE Grows
  <2>1. UNCHANGED <<scope, named, sched>>
    BY <1>5 DEF ReportExecution
  <2>2. CASE exec' = exec
    BY <2>1, <2>2, <1>2
  <2>3. CASE exec' = [exec EXCEPT ![z] = NewExecution(@, k, report[z][k].phase)]
    <3> DEFINE e == NewExecution(exec[z], k, report[z][k].phase)
    <3>1. exec' = [exec EXCEPT ![z] = e]
      BY <2>3
    <3>2. e \in Execution /\ e.status # "none"
      BY <1>1, NewExecutions DEF Kind, Phase
    <3> HIDE DEF e
    <3>3. QED BY <1>1, <2>1, <3>1, <3>2, RowStays DEF Grows
  <2>4. QED BY <1>5, <2>2, <2>3 DEF ReportExecution
<1>6. ASSUME NEW z \in Zones, FollowupSwap(z)  PROVE Grows
  <2>1. UNCHANGED <<scope, named, sched>>
    BY <1>6 DEF FollowupSwap
  <2>2. CASE exec' = exec
    BY <2>1, <2>2, <1>2
  <2>3. CASE exec' = [exec EXCEPT ![z].task = "deep", ![z].status = "pending"]
    <3> DEFINE e == [exec[z] EXCEPT !.task = "deep", !.status = "pending"]
    <3>1. exec' = [exec EXCEPT ![z] = e]
      BY <1>1, <2>3
    <3>2. e \in Execution /\ e.status # "none"
      BY <1>1 DEF Execution, Phase
    <3> HIDE DEF e
    <3>3. QED BY <1>1, <2>1, <3>1, <3>2, RowStays DEF Grows
  <2>4. QED BY <1>6, <2>2, <2>3 DEF FollowupSwap
<1>7. ASSUME NEW z \in Zones, FollowupContext(z)  PROVE Grows
  <2>1. UNCHANGED <<scope, exec, sched>> /\ named \subseteq named'
    BY <1>7 DEF FollowupContext
  <2>2. QED BY <2>1 DEF Grows, Rows
<1>8. ASSUME NEW t \in Task, Clear(t)  PROVE Grows
  <2>1. UNCHANGED <<scope, named, sched>>
    BY <1>8 DEF Clear
  <2>2. \A z \in Zones : exec'[z].status = exec[z].status
    <3>1. ASSUME NEW z \in Zones  PROVE [exec[z] EXCEPT !.task = "none"].status = exec[z].status
      BY <1>1 DEF Execution
    <3>2. QED BY <1>8, <3>1 DEF Clear
  <2>3. QED BY <2>1, <2>2 DEF Grows, Rows
<1>9. ASSUME NEW z \in Zones,
             \/ Fetch(z) \/ Assign(z) \/ ScanSucceeds(z) \/ ScanFails(z) \/ BackToLoop(z)
             \/ ReportFailureInstead(z) \/ Lose(z) \/ GiveUp(z)
      PROVE  Grows
  BY <1>2, <1>9 DEF Fetch, Assign, ScanSucceeds, ScanFails, BackToLoop, ReportFailureInstead,
     Lose, GiveUp, rows
<1>10. ASSUME NEW z \in Zones, NEW k \in Kind,
              \/ ReportRead(z, k) \/ ReportAggregate(z, k) \/ ReportAggregateFails(z, k)
              \/ ReportFinal(z, k) \/ FollowupCreate(z)
       PROVE  Grows
  BY <1>2, <1>10 DEF ReportRead, ReportAggregate, ReportAggregateFails, ReportFinal,
     FollowupCreate, rows
<1>11. ASSUME NEW t \in Task, Cancel(t) \/ Sweep(t)  PROVE Grows
  BY <1>2, <1>11 DEF Cancel, Sweep, CloseTask
<1>12. CASE RivalStarts \/ RivalEnds \/ UNCHANGED vars
  BY <1>2, <1>12 DEF RivalStarts, RivalEnds, vars, rows
<1>13. QED BY <1>3, <1>4, <1>5, <1>6, <1>7, <1>8, <1>9, <1>10, <1>11, <1>12
         DEF Next, RunnerActs, ReportActs

LEMMA StoredGrows ==
  ASSUME Grows, NEW F \in SUBSET Zones, Stored(F)
  PROVE  F # {} /\ \A z \in F : Served(z)' /\ (scope' = "zones" => z \in Rows')
BY DEF Grows, Stored, Served

(* A report that commits an aggregation has read it in a step before. *)
LEMMA CommitIsRead ==
  ASSUME TypeOK, [Next]_vars, NEW z \in Zones, NEW k \in Kind, report'[z][k].at = "commit"
  PROVE  \/ report[z][k].at = "commit" /\ report'[z][k].found = report[z][k].found
         \/ ReportRead(z, k)
<1> DEFINE Same == report[z][k].at = "commit" /\ report'[z][k].found = report[z][k].found
<1>1. /\ report[z][k] \in Report /\ "success" \in Kind /\ "failure" \in Kind
      /\ \A y \in Zones : runner[y].phase \in Phase
  BY DEF TypeOK, Kind, Runner
<1>2. ASSUME report'[z][k] = report[z][k]  PROVE Same
  BY <1>2
<1>3. ASSUME NEW y \in Zones, NEW l \in Kind, NEW at \in ReportStep, Goto(y, l, at),
             at # "commit"
      PROVE  Same
  BY <1>2, <1>3, GotoReport
<1>4. ASSUME NEW y \in Zones, NEW l \in Kind, NEW at \in {"done", "error"}, Answer(y, l, at)
      PROVE  Same
  BY <1>2, <1>4, AnswerReport, FirstRows
<1>5. ASSUME NEW y \in Zones, NEW l \in Kind, NEW p \in Phase, Begins(y, l, p)  PROVE Same
  BY <1>2, <1>5, SendReport
<1>6. CASE UNCHANGED report
  BY <1>2, <1>6
<1>7. CASE Schedule
  BY <1>6, <1>7 DEF Schedule, CreateJob, CreateParent, ScheduleUnserved, ScheduleZone,
     ScheduleName, ScheduleEnd
<1>8. ASSUME NEW y \in Zones, RunnerActs(y) \/ Lose(y) \/ GiveUp(y)  PROVE Same
  <2>1. CASE Fetch(y) \/ Assign(y) \/ Assigned(y) \/ Lose(y)
    BY <1>6, <2>1 DEF Fetch, Assign, Assigned, Lose
  <2>2. CASE ScanSucceeds(y)
    BY <1>1, <1>5, <2>2 DEF ScanSucceeds, Send, Begins
  <2>3. CASE ScanFails(y)
    BY <1>1, <1>5, <2>3 DEF ScanFails, Send, Begins
  <2>4. CASE BackToLoop(y)
    <3>1. report'[z][k] \in {NoReport, report[z][k]}
      <4>1. report' = [report EXCEPT ![y] =
              [l \in Kind |-> IF Answered(y, l) THEN NoReport ELSE report[y][l]]]
        BY <2>4 DEF BackToLoop
      <4>2. CASE y = z
        BY <4>1, <4>2 DEF TypeOK
      <4>3. CASE y # z
        BY <4>1, <4>3 DEF TypeOK
      <4>4. QED BY <4>2, <4>3
    <3>2. QED BY <1>2, <3>1, FirstRows
  <2>5. CASE ReportFailureInstead(y)
    <3> DEFINE s == IF Answered(y, "success") THEN NoReport
                    ELSE [report[y]["success"] EXCEPT !.late = TRUE]
               f == [NoReport EXCEPT !.at = "exec", !.phase = runner[y].phase]
    <3>1. report' = [report EXCEPT ![y] = [success |-> s, failure |-> f]]
      BY <2>5 DEF ReportFailureInstead
    <3>2. /\ f.at = "exec"
          /\ s = NoReport \/ (s.at = report[y]["success"].at /\ s.found = report[y]["success"].found)
      BY <1>1, FirstRows DEF Report, TypeOK
    <3> HIDE DEF s, f
    <3>3. CASE y # z
      BY <1>2, <3>1, <3>3 DEF TypeOK
    <3>4. CASE y = z
      <4>1. report'[z] = [success |-> s, failure |-> f]
        BY <3>1, <3>4 DEF TypeOK
      <4>2. QED BY <3>2, <3>4, <4>1, FirstRows DEF Kind
    <3>5. QED BY <3>3, <3>4
  <2>6. CASE GiveUp(y)
    <3> DEFINE r == [report[y]["failure"] EXCEPT !.late = TRUE]
    <3>1. report[y]["failure"] \in Report
      BY <1>1 DEF TypeOK
    <3>2. r \in Report /\ r.at = report[y]["failure"].at /\ r.found = report[y]["failure"].found
      BY <3>1 DEF Report
    <3>3. report' = [report EXCEPT ![y]["failure"] = r]
      BY <2>6 DEF GiveUp
    <3> HIDE DEF r
    <3>4. report'[z][k] = IF z = y /\ k = "failure" THEN r ELSE report[z][k]
      BY <1>1, <3>2, <3>3, SetReport
    <3>5. QED BY <1>2, <3>2, <3>4
  <2>7. QED BY <1>8, <2>1, <2>2, <2>3, <2>4, <2>5, <2>6 DEF RunnerActs
<1>9. ASSUME NEW y \in Zones, NEW l \in Kind, ReportActs(y, l), ~ReportRead(z, k)  PROVE Same
  <2>1. CASE ReportExecution(y, l) \/ ReportAggregateFails(y, l) \/ ReportFinal(y, l)
    BY <1>3, <1>4, <2>1 DEF ReportExecution, ReportAggregateFails, ReportFinal, ReportStep
  <2>2. CASE FollowupCreate(y) \/ FollowupContext(y) \/ FollowupSwap(y)
    BY <1>1, <1>3, <1>4, <2>2 DEF FollowupCreate, FollowupContext, FollowupSwap, ReportStep
  <2>3. CASE ReportRead(y, l)
    <3>1. y # z \/ l # k
      BY <1>9, <2>3
    <3> DEFINE r == [report[y][l] EXCEPT !.view = job.status, !.found = Found(y, l),
                       !.at = IF Found(y, l) = {} THEN AfterAggregation(y, l) ELSE "commit"]
    <3>2. report' = [report EXCEPT ![y] = [report[y] EXCEPT ![l] = r]]
      BY <2>3 DEF ReportRead
    <3> HIDE DEF r
    <3>3. report'[z][k] = report[z][k]
      BY <3>1, <3>2 DEF TypeOK
    <3>4. QED BY <1>2, <3>3
  <2>4. CASE ReportAggregate(y, l)
    <3> DEFINE r == report[z][k]
    <3>1. report'[z][k] =
            IF z = y /\ k = l THEN [r EXCEPT !.at = AfterAggregation(y, l), !.clash = FALSE]
            ELSE IF r.at = "commit" /\ IsFinal(y, l) /\ IsFinal(z, k) THEN [r EXCEPT !.clash = TRUE]
            ELSE r
      BY <2>4 DEF ReportAggregate
    <3>2. /\ [r EXCEPT !.at = AfterAggregation(y, l), !.clash = FALSE].at # "commit"
          /\ [r EXCEPT !.clash = TRUE].at = r.at /\ [r EXCEPT !.clash = TRUE].found = r.found
      BY <1>1 DEF Report, AfterAggregation
    <3> HIDE DEF r
    <3>3. report'[z][k] = r \/ report'[z][k] = [r EXCEPT !.clash = TRUE]
      BY <3>1, <3>2
    <3>4. QED BY <3>2, <3>3 DEF r
  <2>5. QED BY <1>9, <2>1, <2>2, <2>3, <2>4 DEF ReportActs
<1>10. ASSUME NEW t \in Task, Cancel(t) \/ Sweep(t) \/ Clear(t)  PROVE Same
  BY <1>6, <1>10 DEF Cancel, Sweep, CloseTask, Clear
<1>11. CASE RivalStarts \/ RivalEnds \/ UNCHANGED vars
  BY <1>6, <1>11 DEF RivalStarts, RivalEnds, vars
<1>12. QED BY <1>7, <1>8, <1>9, <1>10, <1>11 DEF Next

(* Only an aggregation completes the job. *)
LEMMA CompletedIsAggregated ==
  ASSUME TypeOK, [Next]_vars, job'.status = "COMPLETED"
  PROVE  \/ job' = job
         \/ \E z \in Zones, k \in Kind : ReportAggregate(z, k)
<1>1. job \in Job
  BY DEF TypeOK
<1>2. CASE UNCHANGED job
  BY <1>2
<1>3. ASSUME NEW st \in JobStatus, job' = [job EXCEPT !.status = st]  PROVE job'.status = st
  BY <1>1, <1>3 DEF Job
<1>4. CASE Schedule
  BY <1>2, <1>3, <1>4 DEF Schedule, CreateJob, CreateParent, ScheduleUnserved, ScheduleZone,
     ScheduleName, ScheduleEnd, rows, JobStatus
<1>5. ASSUME NEW z \in Zones, RunnerActs(z) \/ Lose(z) \/ GiveUp(z)  PROVE job' = job
  BY <1>3, <1>5 DEF RunnerActs, Fetch, Assign, Assigned, ScanSucceeds, ScanFails, BackToLoop,
     ReportFailureInstead, Lose, GiveUp, rows, JobStatus
<1>6. ASSUME NEW z \in Zones, NEW k \in Kind, ReportActs(z, k), ~ReportAggregate(z, k)
      PROVE  job' = job
  BY <1>3, <1>6 DEF ReportActs, ReportExecution, ReportRead, ReportAggregateFails,
     ReportFinal, FollowupCreate, FollowupContext, FollowupSwap, rows, JobStatus
<1>7. ASSUME NEW t \in Task, Cancel(t) \/ Sweep(t) \/ Clear(t)  PROVE job' = job
  BY <1>7 DEF Cancel, Sweep, CloseTask, Clear
<1>8. CASE RivalStarts \/ RivalEnds \/ UNCHANGED vars
  BY <1>8 DEF RivalStarts, RivalEnds, vars, rows
<1>9. QED BY <1>4, <1>5, <1>6, <1>7, <1>8 DEF Next

(* A deep result of a zone, or its baseline's, is reported under its name. *)
LEMMA SuccessIsReported ==
  ASSUME IInv, [Next]_vars, NEW z \in Zones,
         exec'[z].status = "success" \/ exec'[z].base \/ task'[<<z, "deep">>] = "SUCCESS"
  PROVE  \/ exec[z].status = "success" \/ exec[z].base \/ task[<<z, "deep">>] = "SUCCESS"
         \/ \E k \in Kind : Busy(z, k)
<1> SUFFICES ASSUME exec[z].status # "success", ~exec[z].base, task[<<z, "deep">>] # "SUCCESS",
                    \A k \in Kind : ~Busy(z, k)
             PROVE  FALSE
  OBVIOUS
<1>1. /\ exec \in [Zones -> Execution] /\ task \in [Task -> TaskStatus]
      /\ exec[z] \in Execution /\ sched \in Sched
      /\ <<z, "deep">> \in Task /\ <<z, "deep">> # Parent /\ "success" \in Kind
  BY Tasks DEF IInv, TypeOK, Kind, Phase
<1>2. ASSUME UNCHANGED <<exec, task>>  PROVE FALSE
  BY <1>2
<1>3. ASSUME NEW t \in Task, NEW st, st # "SUCCESS" \/ t # <<z, "deep">>,
             task' = [task EXCEPT ![t] = st], UNCHANGED exec
      PROVE  FALSE
  BY <1>1, <1>3
<1>4. CASE Schedule
  <2>1. CASE CreateJob \/ \E y \in Zones : ScheduleUnserved(y) \/ ScheduleName(y)
    BY <1>2, <2>1 DEF CreateJob, ScheduleUnserved, ScheduleName, rows
  <2>2. CASE CreateParent \/ \E y \in Zones : ScheduleZone(y)
    BY <1>2, <1>3, <2>2, Tasks DEF CreateParent, ScheduleZone, Phase
  <2>3. CASE ScheduleEnd
    <3>1. task'[<<z, "deep">>] = task[<<z, "deep">>]
      BY <1>1, <2>3 DEF ScheduleEnd
    <3>2. exec'[z] \in {exec[z], Scheduled, Unserved}
      BY <1>1, <2>3 DEF ScheduleEnd
    <3>3. /\ Scheduled.status # "success" /\ ~Scheduled.base
          /\ Unserved.status # "success" /\ ~Unserved.base
      BY DEF Scheduled, Unserved, NoExecution
    <3>4. QED BY <3>1, <3>2, <3>3
  <2>4. QED BY <1>4, <2>1, <2>2, <2>3 DEF Schedule
<1>5. ASSUME NEW y \in Zones, RunnerActs(y) \/ Lose(y) \/ GiveUp(y)  PROVE FALSE
  <2>1. runner[y].phase \in Phase /\ <<y, runner[y].phase>> \in Task
    BY Tasks DEF IInv, TypeOK, Runner
  <2>2. CASE Assign(y)
    BY <1>2, <1>3, <2>1, <2>2 DEF Assign
  <2>3. CASE Assigned(y)
    <3>1. UNCHANGED task
      BY <2>3 DEF Assigned
    <3>2. exec' = exec \/ exec' = [exec EXCEPT ![y].status = "running"]
      BY <2>3 DEF Assigned
    <3>3. exec'[z] = exec[z] \/ exec'[z] = [exec[z] EXCEPT !.status = "running"]
      BY <1>1, <3>2
    <3>4. /\ [exec[z] EXCEPT !.status = "running"].status # "success"
          /\ [exec[z] EXCEPT !.status = "running"].base = exec[z].base
      BY <1>1 DEF Execution
    <3>5. QED BY <3>1, <3>3, <3>4
  <2>4. QED BY <1>2, <1>5, <2>2, <2>3 DEF RunnerActs, Fetch, ScanSucceeds, ScanFails, BackToLoop,
           ReportFailureInstead, Lose, GiveUp, rows
<1>6. ASSUME NEW y \in Zones, NEW k \in Kind, ReportActs(y, k)  PROVE FALSE
  <2>1. y # z
    BY <1>1, <1>6 DEF ReportActs, ReportExecution, ReportRead, ReportAggregate, ReportAggregateFails,
       ReportFinal, FollowupCreate, FollowupContext, FollowupSwap, Busy
  <2>2. exec'[z] = exec[z]
    <3>1. CASE ReportExecution(y, k)
      BY <1>1, <2>1, <3>1 DEF ReportExecution
    <3>2. CASE FollowupSwap(y)
      BY <1>1, <2>1, <3>2 DEF FollowupSwap
    <3>3. QED BY <1>6, <3>1, <3>2 DEF ReportActs, ReportRead, ReportAggregate,
             ReportAggregateFails, ReportFinal, FollowupCreate, FollowupContext, rows
  <2>3. task'[<<z, "deep">>] = task[<<z, "deep">>]
    <3>1. report[y][k].phase \in Phase
      BY DEF IInv, TypeOK, Report
    <3>2. \A p \in Phase : <<y, p>> # <<z, "deep">>
      BY <2>1
    <3>3. CASE ReportFinal(y, k)
      BY <1>1, <3>1, <3>2, <3>3 DEF ReportFinal, TaskOf
    <3>4. CASE FollowupCreate(y)
      BY <1>1, <3>2, <3>4 DEF FollowupCreate, Phase
    <3>5. CASE ReportAggregate(y, k)
      BY <1>1, <3>5 DEF ReportAggregate
    <3>6. QED BY <1>6, <3>3, <3>4, <3>5 DEF ReportActs, ReportExecution, ReportRead,
             ReportAggregateFails, FollowupContext, FollowupSwap, rows
  <2>4. QED BY <2>2, <2>3
<1>7. ASSUME NEW t \in Task, Cancel(t) \/ Sweep(t)  PROVE FALSE
  BY <1>3, <1>7 DEF Cancel, Sweep, CloseTask
<1>8. ASSUME NEW t \in Task, Clear(t)  PROVE FALSE
  <2>1. task'[<<z, "deep">>] # "SUCCESS"
    BY <1>1, <1>8 DEF Clear
  <2>2. exec'[z] = exec[z] \/ exec'[z] = [exec[z] EXCEPT !.task = "none"]
    BY <1>1, <1>8 DEF Clear
  <2>3. /\ [exec[z] EXCEPT !.task = "none"].status = exec[z].status
        /\ [exec[z] EXCEPT !.task = "none"].base = exec[z].base
    BY <1>1 DEF Execution
  <2>4. QED BY <2>1, <2>2, <2>3
<1>9. CASE RivalStarts \/ RivalEnds \/ UNCHANGED vars
  BY <1>2, <1>9 DEF RivalStarts, RivalEnds, vars, rows
<1>10. QED BY <1>4, <1>5, <1>6, <1>7, <1>8, <1>9 DEF Next

(* A report belongs to a zone whose task has its context. *)
LEMMA ReportIsServed ==
  ASSUME IInv, NEW z \in Zones, NEW k \in Kind, Busy(z, k)
  PROVE  Served(z)
<1>1. RunnerOK(z) /\ <<z, report[z][k].phase>> \in named /\ report[z][k].phase \in Phase
  BY DEF IInv, RunnerInv, ReportInv, ReportOK, TypeOK, Report
<1>2. QED BY <1>1 DEF RunnerOK, Served, Phase

LEMMA StoredKept ==
  ASSUME IInv, StoredInv, [Next]_vars
  PROVE  StoredInv'
<1>1. Grows /\ scope \in {"zones", "node"}
  BY StepGrows, CampusAssumption DEF IInv, TypeOK
<1>2. \A z \in Zones : Served(z) => Served(z)'
  BY <1>1 DEF Grows, Served
<1>3. ASSUME NEW z \in Zones,
             exec'[z].status = "success" \/ exec'[z].base \/ task'[<<z, "deep">>] = "SUCCESS"
      PROVE  Served(z)'
  BY <1>2, <1>3, SuccessIsReported, ReportIsServed DEF StoredInv
<1>4. ASSUME NEW z \in Zones, NEW k \in Kind, report[z][k].at = "commit"
      PROVE  Stored(report[z][k].found) /\ report[z][k].found \in SUBSET Zones
  BY <1>4 DEF StoredInv, IInv, TypeOK, Report
<1>5. ASSUME NEW z \in Zones, NEW k \in Kind, report'[z][k].at = "commit"
      PROVE  /\ report'[z][k].found # {}
             /\ \A y \in report'[z][k].found : Served(y)' /\ (scope' = "zones" => y \in Rows')
  <2>1. CASE report[z][k].at = "commit" /\ report'[z][k].found = report[z][k].found
    BY <1>1, <1>4, <2>1, StoredGrows
  <2>2. CASE ReportRead(z, k)
    <3> DEFINE F == Found(z, k)
               at == IF F = {} THEN AfterAggregation(z, k) ELSE "commit"
               r == [report[z][k] EXCEPT !.view = job.status, !.found = F, !.at = at]
    <3>1. report' = [report EXCEPT ![z] = [report[z] EXCEPT ![k] = r]]
      BY <2>2 DEF ReportRead
    <3>2. report[z][k] \in Report /\ report[z][k].at = "read"
      BY <2>2 DEF IInv, TypeOK, ReportRead
    <3>3. r.found = F /\ r.at = at
      BY <3>2 DEF Report
    <3> HIDE DEF r
    <3>4. report'[z][k] = r
      BY <3>1 DEF IInv, TypeOK
    <3>5. F # {} /\ F \in SUBSET Zones
      BY <1>5, <3>3, <3>4 DEF AfterAggregation, Found, Rows
    <3>6. Served(z)
      BY <3>2, ReportIsServed DEF Busy
    <3>7. ASSUME scope = "node"  PROVE Stored(F)
      BY <3>5, <3>6, <3>7 DEF Found, Stored
    <3>8. ASSUME scope = "zones"  PROVE Stored(F)
      BY <3>5, <3>8 DEF Found, Stored, StoredInv
    <3>9. Stored(F)
      BY <1>1, <3>7, <3>8
    <3> HIDE DEF F
    <3>10. QED BY <1>1, <3>3, <3>4, <3>5, <3>9, StoredGrows
  <2>3. QED BY <1>5, <2>1, <2>2, CommitIsRead DEF IInv
<1>6. ASSUME job'.status = "COMPLETED"
      PROVE  /\ job'.covered # {}
             /\ \A y \in job'.covered : Served(y)' /\ (scope' = "zones" => y \in Rows')
  <2>1. CASE job' = job
    <3>1. Stored(job.covered) /\ job.covered \in SUBSET Zones
      BY <1>6, <2>1 DEF StoredInv, IInv, TypeOK, Job
    <3>2. QED BY <1>1, <2>1, <3>1, StoredGrows
  <2>2. CASE \E z \in Zones, k \in Kind : ReportAggregate(z, k)
    <3>1. PICK z \in Zones, k \in Kind : ReportAggregate(z, k)
      BY <2>2
    <3>2. job'.covered = report[z][k].found /\ report[z][k].at = "commit"
      BY <3>1 DEF ReportAggregate, Aggregated
    <3>3. QED BY <1>1, <1>4, <3>2, StoredGrows
  <2>3. QED BY <1>6, <2>1, <2>2, CompletedIsAggregated DEF IInv
<1>7. QED BY <1>3, <1>5, <1>6 DEF StoredInv, Stored

(* Once a runner gave up on a report, that is never forgotten. *)
LEMMA LateStays ==
  ASSUME [Next]_vars, harm = "late"
  PROVE  harm' = "late"
<1>1. CASE Schedule
  BY <1>1 DEF Schedule, CreateJob, CreateParent, ScheduleUnserved, ScheduleZone, ScheduleName,
     ScheduleEnd
<1>2. ASSUME NEW z \in Zones, RunnerActs(z) \/ Lose(z) \/ GiveUp(z)  PROVE harm' = "late"
  BY <1>2 DEF RunnerActs, Fetch, Assign, Assigned, ScanSucceeds, ScanFails, MayBeEarly,
     BackToLoop, ReportFailureInstead, TooLate, Lose, GiveUp
<1>3. ASSUME NEW z \in Zones, NEW k \in Kind, ReportActs(z, k)  PROVE harm' = "late"
  BY <1>3 DEF ReportActs, ReportExecution, ReportRead, ReportAggregate, ReportAggregateFails,
     ReportFinal, FollowupCreate, FollowupContext, FollowupSwap
<1>4. ASSUME NEW t \in Task, Cancel(t) \/ Sweep(t) \/ Clear(t)  PROVE harm' = "late"
  BY <1>4 DEF Cancel, Sweep, CloseTask, Clear
<1>5. CASE RivalStarts \/ RivalEnds \/ UNCHANGED vars
  BY <1>5 DEF RivalStarts, RivalEnds, vars
<1>6. QED BY <1>1, <1>2, <1>3, <1>4, <1>5 DEF Next

LEMMA DeepKept ==
  ASSUME IInv, DeepInv, [Next]_vars
  PROVE  DeepInv'
<1> SUFFICES ASSUME job'.status = "COMPLETED", harm' # "late"
             PROVE  job'.deep \/ Orphans' # {}
  BY DEF DeepInv
<1>1. harm # "late"
  BY LateStays
<1>2. Orphans # {} => Orphans' # {}
  BY StepGrows DEF Grows, Orphans, Served
<1>3. CASE job' = job
  BY <1>1, <1>2, <1>3 DEF DeepInv
<1>4. ASSUME NEW z \in Zones, NEW k \in Kind, ReportAggregate(z, k)
      PROVE  job'.deep \/ Orphans # {}
  <2>1. CASE IsFinal(z, k)
    BY <1>4, <2>1 DEF ReportAggregate, Aggregated
  <2>2. CASE ~IsFinal(z, k)
    <3>1. k = "success" /\ report[z][k].phase = "baseline" /\ Busy(z, k)
      BY <1>4, <2>2 DEF IsFinal, Kind, IInv, TypeOK, Report, Phase, Busy, ReportAggregate
    <3>2. job.status = "COMPLETED"
      <4>1. job'.status = Written(report[z][k].view, "RUNNING")
        BY <1>4, <2>2 DEF ReportAggregate, Aggregated
      <4>2. QED BY <4>1 DEF Written
    <3>3. ~report[z]["success"].late
      BY <1>1 DEF IInv, CoverInv, EndedOK, Kind
    <3>4. BaselineOpen(z)
      BY <3>1, <3>3, BaselineNotClosed
    <3>5. z \in sched.lost
      BY <3>4, <3>2 DEF IInv, ClosedInv, Closed
    <3>6. Served(z)
      BY <3>1, ReportIsServed
    <3>7. QED BY <3>5, <3>6 DEF Orphans
  <2>3. QED BY <2>1, <2>2
<1>5. QED BY <1>2, <1>3, <1>4, CompletedIsAggregated DEF IInv

(***************************************************************************)
(* A completed job waits for no stored execution and holds the hosts of    *)
(* every zone that succeeded, but for the zones whose execution was lost,  *)
(* as long as no runner gave up on a report.                               *)
(***************************************************************************)
THEOREM CompletedCovers == Spec => []CompletedCoversSuccesses
<1>1. Init => StoredInv /\ DeepInv
  <2> SUFFICES ASSUME Init  PROVE StoredInv /\ DeepInv
    OBVIOUS
  <2>1. /\ job = [status |-> "none", covered |-> {}, deep |-> FALSE]
        /\ exec = [z \in Zones |-> NoExecution] /\ task = [t \in Task |-> "none"]
        /\ report = [z \in Zones |-> [k \in Kind |-> NoReport]]
    BY DEF Init
  <2>2. \A z \in Zones, k \in Kind : report[z][k] = NoReport
    BY <2>1
  <2>3. \A z \in Zones : exec[z] = NoExecution /\ task[<<z, "deep">>] = "none"
    BY <2>1, Tasks DEF Phase
  <2>4. QED BY <2>1, <2>2, <2>3, FirstRows DEF StoredInv, DeepInv, NoExecution
<1>2. IInv /\ StoredInv /\ DeepInv /\ [Next]_vars => StoredInv' /\ DeepInv'
  BY StoredKept, DeepKept
<1>3. IInv /\ StoredInv /\ DeepInv => CompletedCoversSuccesses
  <2> SUFFICES ASSUME IInv, StoredInv, DeepInv, job.status = "COMPLETED", harm # "late"
               PROVE  /\ Open = {}
                      /\ \A z \in Zones \ sched.lost :
                           exec[z].status = "success" \/ task[<<z, "deep">>] = "SUCCESS"
                             => z \in job.covered
                      /\ job.deep \/ Orphans # {}
    BY DEF CompletedCoversSuccesses
  <2>1. Open = {} /\ Closed /\ Stored(job.covered) /\ SchedInv
    BY DEF IInv, CoverInv, ClosedInv, StoredInv
  <2>2. ASSUME NEW z \in Zones \ sched.lost,
               exec[z].status = "success" \/ task[<<z, "deep">>] = "SUCCESS"
        PROVE  z \in job.covered
    <3>1. Served(z) /\ Over /\ scope \in {"zones", "node"} /\ job.covered \subseteq Zones
      BY <2>1, <2>2, CampusAssumption DEF StoredInv, Closed, IInv, TypeOK, Job
    <3>2. PICK y \in job.covered : Served(y) /\ (scope = "zones" => y \in Rows)
      BY <2>1 DEF Stored
    <3>3. CASE scope = "zones"
      <4>1. z \in Rows /\ OneServed(Rows)
        BY <2>1, <2>2, <3>1, <3>2, <3>3 DEF SchedInv
      <4>2. QED BY <2>2, <3>1, <3>2, <3>3, <4>1 DEF OneServed
    <3>4. CASE scope = "node"
      BY <2>1, <2>2, <3>1, <3>2, <3>4 DEF SchedInv, OneServed
    <3>5. QED BY <3>1, <3>3, <3>4
  <2>3. QED BY <2>1, <2>2 DEF DeepInv
<1>4. QED BY <1>1, <1>2, <1>3, AlwaysIInv, PTL DEF Spec

(***************************************************************************)
(* A completed job becomes active again only by the aggregation of a       *)
(* baseline whose runner gave up on its report, or of an orphan's.         *)
(***************************************************************************)
LEMMA OnlyLateReopens == IInv /\ [Next]_vars => ReopenedByALateReport
<1> SUFFICES ASSUME IInv, [Next]_vars, job.status = "COMPLETED", job'.status \in Active
             PROVE  \E z \in Zones :
                      \/ report[z]["success"].late
                      \/ z \in Orphans /\ report[z]["success"].phase = "baseline"
                           /\ report[z]["success"].at = "commit"
  BY DEF ReopenedByALateReport
<1>1. Closed /\ job' # job /\ TypeOK
  BY DEF IInv, ClosedInv, Active
<1>2. CASE Schedule
  <2>1. CreateJob \/ ScheduleEnd
    BY <1>1, <1>2 DEF Schedule, CreateParent, ScheduleUnserved, ScheduleZone, ScheduleName, rows
  <2>2. QED BY <1>1, <2>1 DEF Closed, Over, CreateJob, ScheduleEnd
<1>3. ASSUME NEW z \in Zones, RunnerActs(z) \/ Lose(z) \/ GiveUp(z)  PROVE FALSE
  <2>1. Assigned(z)
    BY <1>1, <1>3 DEF RunnerActs, Fetch, Assign, ScanSucceeds, ScanFails, BackToLoop,
       ReportFailureInstead, Lose, GiveUp, rows
  <2>2. scope = "node" /\ runner[z].at = "assigned" /\ runner[z].phase \in Phase
    BY <1>1, <2>1 DEF Assigned, TypeOK, Runner
  <2>3. Ahead(z, runner[z].phase)
    BY <2>2 DEF Ahead
  <2>4. sched.lost = {}
    BY <2>2 DEF IInv, SchedInv
  <2>5. QED BY <1>1, <2>2, <2>3, <2>4 DEF Closed, BaselineOpen, Phase
<1>4. ASSUME NEW z \in Zones, NEW k \in Kind, ReportActs(z, k)
      PROVE  \/ report[z]["success"].late
             \/ z \in Orphans /\ report[z]["success"].phase = "baseline"
                  /\ report[z]["success"].at = "commit"
  <2>1. ReportAggregate(z, k) \/ ReportFinal(z, k)
    BY <1>1, <1>4 DEF ReportActs, ReportExecution, ReportRead, ReportAggregateFails,
       FollowupCreate, FollowupContext, FollowupSwap, rows
  <2>2. CASE ReportFinal(z, k)
    <3>1. job' = [job EXCEPT !.status = "FAILED"]
      BY <1>1, <2>2 DEF ReportFinal
    <3>2. job'.status = "FAILED"
      BY <1>1, <3>1 DEF TypeOK, Job
    <3>3. QED BY <3>2 DEF Active
  <2>3. CASE ReportAggregate(z, k)
    <3>1. ~IsFinal(z, k) /\ Busy(z, k) /\ report[z][k].at = "commit"
      BY <2>3 DEF ReportAggregate, Aggregated, Written, Active, Busy
    <3>2. report[z][k].phase \in Phase
      BY <1>1 DEF TypeOK, Report
    <3>3. k = "success" /\ report[z]["success"].phase = "baseline"
      BY <3>1, <3>2 DEF IsFinal, Kind, Phase
    <3>4. Served(z)
      BY <3>1, ReportIsServed
    <3>5. ~report[z]["success"].late => z \in sched.lost
      BY <1>1, <3>1, <3>3, BaselineNotClosed DEF Closed
    <3>6. QED BY <3>1, <3>3, <3>4, <3>5 DEF Orphans
  <2>4. QED BY <2>1, <2>2, <2>3
<1>5. ASSUME NEW t \in Task, Cancel(t) \/ Sweep(t) \/ Clear(t)  PROVE FALSE
  BY <1>1, <1>5 DEF Cancel, Sweep, CloseTask, Clear
<1>6. CASE RivalStarts \/ RivalEnds
  BY <1>1, <1>6 DEF RivalStarts, RivalEnds, rows
<1>7. CASE UNCHANGED vars
  BY <1>1, <1>7 DEF vars, rows
<1>8. QED BY <1>2, <1>3, <1>4, <1>5, <1>6, <1>7 DEF Next

THEOREM CompletedStaysCompleted == Spec => CompletedIsNotReopened
<1>1. IInv /\ [Next]_vars => ReopenedByALateReport
  BY OnlyLateReopens
<1>2. QED BY <1>1, AlwaysIInv, PTL DEF Spec, CompletedIsNotReopened

-----------------------------------------------------------------------------
(***************************************************************************)
(* The job is never forgotten: as long as no task was taken from it, no    *)
(* call was lost, early or too late, and no zone with a task lost its      *)
(* execution, a job that did not end has a step to take.  Its idea: while  *)
(* the zones are scheduled no report is sent, and every served zone has    *)
(* its task or its script; after that, in every open zone one task, one    *)
(* script or one report promises to take the zone on, and a zone that ends *)
(* leaves another one open or ends the job.                                *)
(***************************************************************************)

Unharmed == harm = "none" /\ Orphans = {}

(* A phase of zone z is still to be run or to be reported to its execution. *)
Promise(z) ==
  \/ \E p \in Phase : <<z, p>> \in named /\ Ahead(z, p)
  \/ runner[z].at = "wait"
       /\ report[z]["success"].at \in {"exec", "read", "commit", "create", "context", "error"}
  \/ runner[z].at = "failing"
       /\ report[z]["failure"].at \in {"exec", "read", "commit", "final"}

IsOpen(z) == exec[z].status \in {"pending", "running"}

(* The second task of a zone is there, and waits, once its report made it. *)
ScriptOK(z) ==
  /\ \A p \in Phase : task[<<z, p>>] # "deleted"
  /\ ~Over => <<z, "deep">> \notin named /\ \A k \in Kind : ~Busy(z, k)
  /\ report[z]["failure"].at \notin {"create", "context", "swap"}
  /\ runner[z].at = "failing" =>
       report[z]["failure"].at # "idle" /\ report[z]["failure"].phase = runner[z].phase
  /\ runner[z].phase = "baseline"
       /\ (runner[z].at = "failing"
             \/ (runner[z].at = "wait" /\ report[z]["success"].at = "error"))
       => <<z, "deep">> \notin named
  /\ report[z]["success"].phase = "baseline"
       /\ report[z]["success"].at \in {"context", "swap", "final", "done"}
       => task[<<z, "deep">>] = "PENDING"
  /\ report[z]["success"].phase = "baseline"
       /\ report[z]["success"].at \in {"swap", "final", "done"}
       => <<z, "deep">> \in named

(* Once stored, the execution names the task whose report it is to get. *)
LinkOK(z) ==
  scope = "zones" =>
    /\ z \in sched.new => task[<<z, "baseline">>] = "PENDING"
    /\ ~Over /\ Served(z) => Promise(z)
    /\ Over /\ <<z, "deep">> \in named =>
         exec[z].task = IF report[z]["success"].at = "swap" THEN "baseline" ELSE "deep"
    /\ Over /\ <<z, "deep">> \notin named /\ Served(z) => exec[z].task = "baseline"
    /\ runner[z].at = "failing" /\ report[z]["failure"].at # "exec" => ~IsOpen(z)
    /\ runner[z].at = "wait" /\ report[z]["success"].phase = "deep"
         /\ report[z]["success"].at # "exec"
         => exec[z].status = "success"
    /\ IsOpen(z) => Promise(z)

(* A final aggregation fails, or leaves the job as it is, only if it ended. *)
ClashOK(z, k) ==
  /\ report[z][k].clash => report[z][k].at \notin {"exec", "read"}
  /\ Finishing(z, k) /\ (report[z][k].clash \/ report[z][k].view = "COMPLETED")
       => job.status \in Ended

(* Until the schedule is over nothing can end the job. *)
JobOK ==
  /\ sched.at # "idle" => job.status # "none"
  /\ sched.at # "idle" /\ ~Over => job.status = "PENDING"

PromiseInv ==
  Over /\ job.status \notin Ended => \E z \in Zones : Promise(z)

GoingInv ==
  Unharmed =>
    /\ JobOK
    /\ \A z \in Zones : ScriptOK(z) /\ LinkOK(z) /\ \A k \in Kind : ClashOK(z, k)
    /\ PromiseInv

-----------------------------------------------------------------------------
(* What the invariant says of one zone. *)

LEMMA ZoneFacts ==
  ASSUME IInv, GoingInv, Unharmed, NEW z \in Zones
  PROVE  /\ TypeOK /\ RunnerOK(z) /\ ReportOK(z) /\ ExecOK(z) /\ ScriptOK(z) /\ LinkOK(z)
         /\ Busy(z, "success") <=> runner[z].at = "wait"
         /\ Busy(z, "failure") <=> runner[z].at = "failing"
         /\ runner[z].phase \in Phase /\ runner[z].at \in RunnerStep
         /\ \A k \in Kind : report[z][k].phase \in Phase /\ ~report[z][k].late
         /\ exec[z] \in Execution
         /\ JobOK /\ \A k \in Kind : Busy(z, k) => Over
<1>1. /\ TypeOK /\ RunnerOK(z) /\ ReportOK(z) /\ ExecOK(z) /\ ScriptOK(z) /\ LinkOK(z)
      /\ JobOK
  BY DEF IInv, RunnerInv, ReportInv, ExecInv, GoingInv
<1>2. /\ \A k \in Kind : report[z][k].phase \in Phase
      /\ runner[z].phase \in Phase /\ runner[z].at \in RunnerStep /\ exec[z] \in Execution
  BY <1>1 DEF TypeOK, Report, Runner
<1>3. \A k \in Kind : ~report[z][k].late
  BY NotLate DEF Unharmed
<1>4. /\ Busy(z, "success") <=> runner[z].at = "wait"
      /\ Busy(z, "failure") <=> runner[z].at = "failing"
  BY <1>1, <1>3 DEF ReportOK, ScriptOK, Busy, Kind
<1>5. \A k \in Kind : Busy(z, k) => Over
  BY <1>1 DEF ScriptOK
<1>6. QED BY <1>1, <1>2, <1>3, <1>4, <1>5

(* No task was cleared. *)
LEMMA NoneDeleted ==
  ASSUME GoingInv, Unharmed
  PROVE  \A z \in Zones, p \in Phase : task[<<z, p>>] # "deleted"
BY DEF GoingInv, ScriptOK

(* A zone that a step leaves alone. *)
SameZone(z) ==
  /\ runner'[z] = runner[z] /\ exec'[z] = exec[z]
  /\ \A p \in Phase : task'[<<z, p>>] = task[<<z, p>>]
                      /\ (<<z, p>> \in named' <=> <<z, p>> \in named)
  /\ \A k \in Kind : /\ report'[z][k].at = report[z][k].at
                     /\ report'[z][k].phase = report[z][k].phase

LEMMA ZoneKept ==
  ASSUME NEW z \in Zones, SameZone(z)
  PROVE  /\ Promise(z)' <=> Promise(z)
         /\ UNCHANGED sched /\ ScriptOK(z) => ScriptOK(z)'
         /\ UNCHANGED <<scope, sched>> /\ LinkOK(z) => LinkOK(z)'
<1>1. /\ "baseline" \in Phase /\ "deep" \in Phase /\ "success" \in Kind /\ "failure" \in Kind
  BY DEF Phase, Kind
<1>2. \A p \in Phase : Ahead(z, p)' <=> Ahead(z, p)
  BY DEF SameZone, Ahead
<1>3. Promise(z)' <=> Promise(z)
  BY <1>1, <1>2 DEF SameZone, Promise
<1>4. UNCHANGED sched /\ ScriptOK(z) => ScriptOK(z)'
  BY <1>1 DEF SameZone, ScriptOK, Over, Busy
<1>5. UNCHANGED <<scope, sched>> /\ LinkOK(z) => LinkOK(z)'
  BY <1>1, <1>3 DEF SameZone, LinkOK, IsOpen, Over, Served
<1>6. QED BY <1>3, <1>4, <1>5

(* A zone that promises something has its first task. *)
LEMMA PromiseIsNamed ==
  ASSUME IInv, NEW z \in Zones, Promise(z)
  PROVE  <<z, "baseline">> \in named
<1>1. RunnerOK(z)
  BY DEF IInv, RunnerInv
<1>2. TypeOK /\ runner[z].phase \in Phase
  BY DEF IInv, TypeOK, Runner
<1>3. \E p \in Phase : <<z, p>> \in named
  BY <1>1, <1>2 DEF Promise, RunnerOK
<1>4. QED BY <1>1, <1>3 DEF RunnerOK, Phase

(* Once nothing is left to open the job again, it stays ended. *)
LEMMA ClosedStaysEnded ==
  ASSUME IInv, Unharmed, [Next]_vars, Closed, job.status \in Ended
  PROVE  job'.status \in Ended
<1>1. TypeOK
  BY DEF IInv
<1>2. CASE Schedule
  <2>1. UNCHANGED job
    BY <1>2 DEF Closed, Over, Schedule, CreateJob, CreateParent, ScheduleUnserved,
       ScheduleZone, ScheduleName, ScheduleEnd, rows
  <2>2. QED BY <2>1
<1>3. ASSUME NEW z \in Zones, RunnerActs(z) \/ Lose(z) \/ GiveUp(z)  PROVE UNCHANGED job
  <2>1. CASE Assigned(z) /\ scope = "node"
    <3>1. runner[z].at = "assigned" /\ runner[z].phase \in Phase
      BY <1>1, <2>1 DEF Assigned, TypeOK, Runner
    <3>2. Ahead(z, runner[z].phase)
      BY <3>1 DEF Ahead
    <3>3. sched.lost = {}
      BY <2>1 DEF IInv, SchedInv
    <3>4. QED BY <2>1, <3>1, <3>2, <3>3 DEF Closed, BaselineOpen, Phase
  <2>2. CASE Assigned(z) /\ scope # "node"
    BY <2>2 DEF Assigned
  <2>3. QED
    BY <1>3, <2>1, <2>2 DEF RunnerActs, Fetch, Assign, ScanSucceeds, ScanFails, BackToLoop,
       ReportFailureInstead, Lose, GiveUp, rows
<1>4. ASSUME NEW z \in Zones, NEW k \in Kind, ReportActs(z, k)
      PROVE  job'.status \in Ended
  <2>1. CASE ReportFinal(z, k)
    <3>1. job' = job \/ job' = [job EXCEPT !.status = "FAILED"]
      BY <2>1 DEF ReportFinal
    <3>2. [job EXCEPT !.status = "FAILED"].status = "FAILED"
      BY <1>1 DEF TypeOK, Job
    <3>3. QED BY <3>1, <3>2 DEF Ended
  <2>2. CASE ReportAggregate(z, k)
    <3>1. CASE IsFinal(z, k)
      BY <2>2, <3>1 DEF ReportAggregate, Aggregated, Written, Ended
    <3>2. CASE ~IsFinal(z, k)
      <4>1. Busy(z, k) /\ report[z][k].phase \in Phase /\ ~report[z][k].late
        BY <1>1, <2>2, NotLate DEF ReportAggregate, Busy, TypeOK, Report, Unharmed
      <4>2. k = "success" /\ report[z]["success"].phase = "baseline"
        BY <3>2, <4>1 DEF IsFinal, Kind, Phase
      <4>3. ReportOK(z)
        BY DEF IInv, ReportInv
      <4>4. runner[z].at = "wait" /\ runner[z].phase = "baseline"
        BY <4>1, <4>2, <4>3 DEF ReportOK
      <4>5. z \notin sched.lost
        BY <4>1, ReportIsServed DEF Unharmed, Orphans
      <4>6. QED BY <4>4, <4>5 DEF Closed, BaselineOpen
    <3>3. QED BY <3>1, <3>2
  <2>3. QED
    BY <1>4, <2>1, <2>2 DEF ReportActs, ReportExecution, ReportRead, ReportAggregateFails,
       FollowupCreate, FollowupContext, FollowupSwap, rows
<1>5. ASSUME NEW t \in Task, Cancel(t) \/ Sweep(t) \/ Clear(t)  PROVE UNCHANGED job
  BY <1>5 DEF Cancel, Sweep, CloseTask, Clear
<1>6. CASE RivalStarts \/ RivalEnds
  BY <1>6 DEF RivalStarts, RivalEnds, rows
<1>7. CASE UNCHANGED vars
  BY <1>7 DEF vars, rows
<1>8. QED BY <1>2, <1>3, <1>4, <1>5, <1>6, <1>7 DEF Next

(* A report that stays where it is, or moves to where no aggregation is final. *)
LEMMA ClashKept ==
  ASSUME IInv, GoingInv, Unharmed, [Next]_vars, NEW z \in Zones, NEW k \in Kind,
         \/ report'[z][k] = report[z][k]
         \/ report'[z][k].at \notin {"exec", "read", "commit"}
         \/ report'[z][k].at \in {"exec", "read"} /\ ~report'[z][k].clash
  PROVE  ClashOK(z, k)'
<1>1. ClashOK(z, k)
  BY DEF GoingInv
<1>2. CASE report'[z][k] = report[z][k]
  <2>1. Finishing(z, k)' <=> Finishing(z, k)
    BY <1>2, FinishingKept
  <2>2. Finishing(z, k) /\ job.status \in Ended => job'.status \in Ended
    BY ClosedStaysEnded DEF IInv, ClosedInv
  <2>3. QED BY <1>1, <1>2, <2>1, <2>2 DEF ClashOK
<1>3. CASE report'[z][k].at \notin {"exec", "read", "commit"}
  BY <1>3 DEF ClashOK, Finishing
<1>4. CASE report'[z][k].at \in {"exec", "read"} /\ ~report'[z][k].clash
  BY <1>4 DEF ClashOK, Finishing
<1>5. QED BY <1>2, <1>3, <1>4

(* A step of one zone that has its first task. *)
LEMMA ZoneStep ==
  ASSUME IInv, GoingInv, Unharmed, NEW z \in Zones, UNCHANGED <<scope, sched>>,
         \A y \in Zones : y # z => SameZone(y),
         <<z, "baseline">> \in named /\ <<z, "baseline">> \in named',
         ScriptOK(z)', LinkOK(z)', \A y \in Zones, k \in Kind : ClashOK(y, k)',
         job.status # "none" => job'.status # "none", Over \/ UNCHANGED job,
         \/ job'.status \in Ended \/ Promise(z)'
         \/ job.status \notin Ended /\ ~Promise(z)
         \/ \E y \in Zones : y # z /\ Promise(y)
  PROVE  GoingInv'
<1>1. /\ \A y \in Zones : ScriptOK(y) /\ LinkOK(y)
      /\ JobOK /\ PromiseInv
  BY DEF GoingInv
<1>2. ASSUME NEW y \in Zones, y # z
      PROVE  ScriptOK(y)' /\ LinkOK(y)' /\ (Promise(y)' <=> Promise(y))
  BY <1>1, <1>2, ZoneKept
<1>3. PromiseInv'
  BY <1>1, <1>2 DEF PromiseInv, Over
<1>4. JobOK'
  BY <1>1 DEF JobOK, Over
<1>5. \A y \in Zones : ScriptOK(y)' /\ LinkOK(y)'
  BY <1>2
<1>6. QED BY <1>3, <1>4, <1>5 DEF GoingInv

-----------------------------------------------------------------------------
(* The runner. *)

(* A runner that has a phase to run and no report to wait for. *)
LEMMA RunningGoes ==
  ASSUME IInv, GoingInv, Unharmed, [Next]_vars, NEW z \in Zones, NEW p \in Phase,
         <<z, p>> \in named, UNCHANGED <<scope, named, sched, report>>,
         \A y \in Zones : y # z =>
           /\ runner'[y] = runner[y] /\ exec'[y] = exec[y]
           /\ \A q \in Phase : task'[<<y, q>>] = task[<<y, q>>],
         runner[z].at \notin {"wait", "failing"},
         runner'[z].at \in {"fetched", "assigned", "scan"}, runner'[z].phase = p,
         \A q \in Phase : task'[<<z, q>>] # "deleted",
         exec'[z].task = exec[z].task,
         job.status # "none" => job'.status # "none", Over \/ UNCHANGED job
  PROVE  GoingInv'
<1>1. /\ RunnerOK(z) /\ ScriptOK(z) /\ LinkOK(z)
      /\ ~Busy(z, "success") /\ ~Busy(z, "failure")
  BY ZoneFacts
<1>2. /\ "baseline" \in Phase /\ "deep" \in Phase /\ "success" \in Kind /\ "failure" \in Kind
  BY DEF Phase, Kind
<1>3. \A y \in Zones : y # z => SameZone(y)
  BY DEF SameZone
<1>4. Promise(z)'
  BY DEF Promise, Ahead
<1>5. ScriptOK(z)'
  BY <1>1 DEF ScriptOK, Busy, Over
<1>6. z \notin sched.new
  BY <1>1 DEF RunnerOK, Phase, IInv, SchedInv, Served
<1>7. LinkOK(z)'
  BY <1>1, <1>4, <1>6 DEF LinkOK, Busy, Over, Served
<1>8. \A y \in Zones, k \in Kind : ClashOK(y, k)'
  BY ClashKept
<1>9. <<z, "baseline">> \in named
  BY <1>1 DEF RunnerOK, Phase
<1>10. QED BY <1>3, <1>4, <1>5, <1>7, <1>8, <1>9, ZoneStep

LEMMA FetchGoes ==
  ASSUME IInv, GoingInv, Unharmed, [Next]_vars, NEW z \in Zones, Fetch(z)
  PROVE  GoingInv'
<1>1. PICK p \in Phase :
        /\ <<z, p>> \in named /\ task[<<z, p>>] = "PENDING" /\ runner[z].at = "loop"
        /\ runner' = [runner EXCEPT ![z] = [at |-> "fetched", phase |-> p]]
  BY DEF Fetch
<1>2. UNCHANGED <<job, exec, task, named, scope, rival, sched, report, harm>>
  BY DEF Fetch, rows
<1>3. TypeOK /\ ScriptOK(z)
  BY ZoneFacts
<1>4. /\ \A y \in Zones : y # z => runner'[y] = runner[y]
      /\ runner'[z].at = "fetched" /\ runner'[z].phase = p
  BY <1>1, <1>3 DEF TypeOK
<1>5. \A q \in Phase : task'[<<z, q>>] # "deleted"
  BY <1>2, <1>3 DEF ScriptOK
<1>6. QED BY <1>1, <1>2, <1>4, <1>5, RunningGoes

LEMMA AssignGoes ==
  ASSUME IInv, GoingInv, Unharmed, [Next]_vars, NEW z \in Zones, Assign(z)
  PROVE  GoingInv'
<1>1. PICK p \in Phase : p = runner[z].phase
  BY ZoneFacts
<1>2. /\ TypeOK /\ ScriptOK(z) /\ runner[z].at = "fetched" /\ <<z, p>> \in named
      /\ task[<<z, p>>] # "deleted"
  BY <1>1, ZoneFacts DEF Assign, RunnerOK, ScriptOK
<1>3. /\ RunnerGoes(z, "assigned") /\ task' = [task EXCEPT ![<<z, p>>] = "RUNNING"]
      /\ UNCHANGED <<scope, job, rival, exec, named, sched, report, harm>>
  BY <1>1, <1>2 DEF Assign
<1>4. /\ \A y \in Zones : y # z => runner'[y] = runner[y]
      /\ runner'[z].at = "assigned" /\ runner'[z].phase = p
  BY <1>1, <1>2, <1>3, RunnerMoves DEF RunnerStep
<1>5. \A y \in Zones, q \in Phase :
        task'[<<y, q>>] = IF y = z /\ q = p THEN "RUNNING" ELSE task[<<y, q>>]
  BY <1>2, <1>3, Tasks DEF TypeOK
<1>6. \A q \in Phase : task'[<<z, q>>] # "deleted"
  BY <1>2, <1>5 DEF ScriptOK
<1>7. \A y \in Zones : y # z => \A q \in Phase : task'[<<y, q>>] = task[<<y, q>>]
  BY <1>5
<1>8. job.status # "none" => job'.status # "none"
  BY <1>3
<1>9. QED BY <1>2, <1>3, <1>4, <1>6, <1>7, <1>8, RunningGoes

(* An assignment that another job refuses belongs to a job that ended. *)
LEMMA AssignedGoes ==
  ASSUME IInv, GoingInv, Unharmed, [Next]_vars, NEW z \in Zones, Assigned(z)
  PROVE  GoingInv'
<1> DEFINE new == [job EXCEPT !.status = "RUNNING"]
           refused == scope = "node" /\ Refused(new)
           e == [exec[z] EXCEPT !.status = "running"]
<1>1. PICK p \in Phase : p = runner[z].phase
  BY ZoneFacts
<1>2. /\ TypeOK /\ RunnerOK(z) /\ ScriptOK(z) /\ LinkOK(z) /\ runner[z].at = "assigned"
      /\ <<z, p>> \in named
      /\ JobOK /\ (scope = "node" => Over) /\ sched.at \in SchedStep
      /\ ~Busy(z, "success") /\ ~Busy(z, "failure")
  <2>1. /\ TypeOK /\ RunnerOK(z) /\ ScriptOK(z) /\ LinkOK(z) /\ runner[z].at = "assigned"
        /\ <<z, p>> \in named /\ JobOK
        /\ ~Busy(z, "success") /\ ~Busy(z, "failure")
    BY <1>1, ZoneFacts DEF Assigned, RunnerOK
  <2>2. sched.at \in SchedStep
    BY <2>1 DEF TypeOK, Sched
  <2>3. scope = "node" => Over
    BY <2>1, <2>2 DEF IInv, SchedInv, SchedStep, Over
  <2>4. QED BY <2>1, <2>2, <2>3
<1>3. /\ UNCHANGED <<scope, rival, task, named, sched, report, harm>>
      /\ RunnerGoes(z, IF refused THEN "loop" ELSE "scan")
      /\ job' = IF scope = "node" /\ ~refused THEN new ELSE job
      /\ exec' = IF exec[z].task = p THEN [exec EXCEPT ![z] = e] ELSE exec
  BY <1>1 DEF Assigned
<1>4. e.task = exec[z].task
  BY <1>2 DEF TypeOK, Execution
<1>5. new.status = "RUNNING"
  BY <1>2 DEF TypeOK, Job
<1> HIDE DEF e
<1>6. exec'[z].task = exec[z].task /\ \A y \in Zones : y # z => exec'[y] = exec[y]
  BY <1>2, <1>3, <1>4 DEF TypeOK
<1>7. CASE ~refused
  <2>1. RunnerGoes(z, "scan") /\ (job' = new \/ job' = job)
    BY <1>3, <1>7
  <2>2. /\ \A y \in Zones : y # z => runner'[y] = runner[y]
        /\ runner'[z].at = "scan" /\ runner'[z].phase = p
    BY <1>1, <1>2, <2>1, RunnerMoves DEF RunnerStep
  <2>3. job.status # "none" => job'.status # "none"
    BY <1>5, <2>1
  <2>4. \A q \in Phase : task'[<<z, q>>] # "deleted"
    BY <1>2, <1>3 DEF ScriptOK
  <2>5. Over \/ UNCHANGED job
    BY <1>2, <1>3
  <2>6. QED BY <1>2, <1>3, <1>6, <2>2, <2>3, <2>4, <2>5, RunningGoes
<1>8. CASE refused
  <2>1. RunnerGoes(z, "loop") /\ job' = job /\ scope = "node"
    BY <1>3, <1>8
  <2>2. /\ \A y \in Zones : y # z => runner'[y] = runner[y]
        /\ runner'[z].at = "loop" /\ runner'[z].phase = p
    BY <1>1, <1>2, <2>1, RunnerMoves DEF RunnerStep
  <2>3. job.status # "none"
    BY <1>2, <2>1 DEF JobOK, Over
  <2>4. job.status \in JobStatus
    BY <1>2 DEF TypeOK, Job
  <2>5. job'.status \in Ended
    BY <1>2, <1>8, <2>1, <2>3, <2>4 DEF Refused, Active, Ended, JobStatus
  <2>6. \A y \in Zones : y # z => SameZone(y)
    BY <1>3, <1>6, <2>2 DEF SameZone
  <2>7. ScriptOK(z)'
    BY <1>2, <1>3, <2>2 DEF ScriptOK, Busy, Over
  <2>8. LinkOK(z)'
    BY <1>3, <2>1 DEF LinkOK
  <2>9. \A y \in Zones, k \in Kind : ClashOK(y, k)'
    BY <1>3, ClashKept
  <2>10. <<z, "baseline">> \in named
    BY <1>2 DEF RunnerOK, Phase
  <2>11. QED BY <1>3, <2>1, <2>5, <2>6, <2>7, <2>8, <2>9, <2>10, ZoneStep
<1>9. QED BY <1>7, <1>8

(* A new report, sent while no other is on its way. *)
LEMMA SentGoes ==
  ASSUME IInv, GoingInv, Unharmed, [Next]_vars, NEW z \in Zones, NEW k \in Kind,
         report'[z][k] = [NoReport EXCEPT !.at = "exec", !.phase = runner[z].phase],
         \A l \in Kind : l # k => report'[z][l].at = "idle",
         UNCHANGED <<scope, named, sched, exec, task, job>>,
         \A y \in Zones : y # z =>
           runner'[y] = runner[y] /\ \A l \in Kind : report'[y][l] = report[y][l],
         runner'[z].phase = runner[z].phase,
         runner'[z].at = IF k = "success" THEN "wait" ELSE "failing",
         \/ runner[z].at = "scan"
         \/ k = "failure" /\ runner[z].at = "wait" /\ report[z]["success"].at = "error",
         Over
  PROVE  GoingInv'
<1> DEFINE r == [NoReport EXCEPT !.at = "exec", !.phase = runner[z].phase]
<1>1. /\ RunnerOK(z) /\ ReportOK(z) /\ ScriptOK(z) /\ LinkOK(z)
      /\ Busy(z, "success") <=> runner[z].at = "wait"
      /\ runner[z].phase \in Phase
  BY ZoneFacts
<1>2. /\ "baseline" \in Phase /\ "deep" \in Phase /\ "success" \in Kind /\ "failure" \in Kind
  BY DEF Phase, Kind
<1>3. r.at = "exec" /\ r.phase = runner[z].phase /\ ~r.clash
  BY DEF NoReport
<1> HIDE DEF r
<1>4. report'[z][k].at = "exec" /\ report'[z][k].phase = runner[z].phase /\ ~report'[z][k].clash
  BY <1>3 DEF r
<1>5. \A y \in Zones : y # z => SameZone(y)
  BY DEF SameZone
<1>6. Promise(z)'
  BY <1>2, <1>4 DEF Promise, Kind
<1>7. runner[z].phase = "baseline" => <<z, "deep">> \notin named
  BY <1>1 DEF RunnerOK, Ahead, ScriptOK
<1>8. report'[z]["success"].at \in {"idle", "exec"} /\ report'[z]["failure"].at \in {"idle", "exec"}
  BY <1>2, <1>4
<1>9. ScriptOK(z)'
  <2>1. runner'[z].at = "failing" => k = "failure"
    BY DEF Kind
  <2>2. QED BY <1>1, <1>2, <1>4, <1>7, <1>8, <2>1 DEF ScriptOK, Over
<1>10. LinkOK(z)'
  <2>1. runner'[z].at = "failing" => report'[z]["failure"].at = "exec"
    BY <1>4 DEF Kind
  <2>2. runner'[z].at = "wait" => report'[z]["success"].at = "exec"
    BY <1>4 DEF Kind
  <2>3. report[z]["success"].at # "swap"
    BY <1>1 DEF Busy
  <2>4. z \notin sched.new
    BY <1>1 DEF RunnerOK, Phase, IInv, SchedInv, Served
  <2>5. QED BY <1>1, <1>6, <1>8, <2>1, <2>2, <2>3, <2>4 DEF LinkOK, Over, Served
<1>11. \A y \in Zones, l \in Kind : ClashOK(y, l)'
  <2>1. ASSUME NEW y \in Zones, NEW l \in Kind  PROVE ClashOK(y, l)'
    <3>1. CASE y # z
      BY <3>1, ClashKept
    <3>2. CASE y = z /\ l = k
      BY <1>4, <3>2, ClashKept
    <3>3. CASE y = z /\ l # k
      BY <3>3, ClashKept
    <3>4. QED BY <3>1, <3>2, <3>3
  <2>2. QED BY <2>1
<1>12. <<z, "baseline">> \in named
  BY <1>1 DEF RunnerOK, Phase
<1>13. QED BY <1>5, <1>6, <1>9, <1>10, <1>11, <1>12, ZoneStep

LEMMA ScanGoes ==
  ASSUME IInv, GoingInv, Unharmed, [Next]_vars, NEW z \in Zones,
         ScanSucceeds(z) \/ ScanFails(z)
  PROVE  GoingInv'
<1> DEFINE r == [NoReport EXCEPT !.at = "exec", !.phase = runner[z].phase]
<1>1. /\ TypeOK /\ runner[z].at = "scan" /\ runner[z].phase \in Phase
      /\ ~Busy(z, "success") /\ ~Busy(z, "failure")
  BY ZoneFacts DEF ScanSucceeds, ScanFails
<1>2. CASE ~Over
  <2>1. harm' = "early"
    BY <1>2 DEF ScanSucceeds, ScanFails, MayBeEarly, Over, Unharmed
  <2>2. QED BY <2>1 DEF GoingInv, Unharmed
<1>3. SUFFICES ASSUME Over  PROVE GoingInv'
  BY <1>2
<1>4. UNCHANGED <<scope, job, rival, exec, task, named, sched>>
  BY DEF ScanSucceeds, ScanFails, rows
<1>5. PICK k \in Kind, at \in {"wait", "failing"} :
        /\ report' = [report EXCEPT ![z][k] = r]
        /\ RunnerGoes(z, at)
        /\ at = IF k = "success" THEN "wait" ELSE "failing"
  BY DEF ScanSucceeds, ScanFails, Send, Kind
<1>6. /\ \A y \in Zones : y # z => runner'[y] = runner[y]
      /\ runner'[z].at = at /\ runner'[z].phase = runner[z].phase
  BY <1>1, <1>5, RunnerMoves DEF RunnerStep
<1>7. r \in Report
  BY <1>1, FirstRows DEF Report, ReportStep
<1> HIDE DEF r
<1>8. \A y \in Zones, l \in Kind :
        report'[y][l] = IF y = z /\ l = k THEN r ELSE report[y][l]
  BY <1>1, <1>5, <1>7, SetReport
<1>9. report'[z][k] = [NoReport EXCEPT !.at = "exec", !.phase = runner[z].phase]
  BY <1>8 DEF r
<1>10. \A l \in Kind : l # k => report'[z][l].at = "idle"
  BY <1>1, <1>8 DEF Busy, Kind
<1>11. \A y \in Zones : y # z =>
        runner'[y] = runner[y] /\ \A l \in Kind : report'[y][l] = report[y][l]
  BY <1>6, <1>8
<1>12. runner'[z].at = IF k = "success" THEN "wait" ELSE "failing"
  BY <1>5, <1>6
<1>13. QED BY <1>1, <1>3, <1>4, <1>6, <1>9, <1>10, <1>11, <1>12, SentGoes

LEMMA FailureInsteadGoes ==
  ASSUME IInv, GoingInv, Unharmed, [Next]_vars, NEW z \in Zones, ReportFailureInstead(z)
  PROVE  GoingInv'
<1> DEFINE r == [NoReport EXCEPT !.at = "exec", !.phase = runner[z].phase]
<1>1. TypeOK /\ runner[z].at = "wait" /\ Over
  BY ZoneFacts DEF ReportFailureInstead, Kind
<1>2. CASE report[z]["success"].at # "error"
  BY <1>2 DEF ReportFailureInstead, TooLate, GoingInv, Unharmed
<1>3. CASE report[z]["success"].at = "error"
  <2>1. /\ UNCHANGED <<scope, job, rival, exec, task, named, sched, harm>>
        /\ RunnerGoes(z, "failing")
        /\ report' = [report EXCEPT ![z] = [success |-> NoReport, failure |-> r]]
    BY <1>3 DEF ReportFailureInstead, Answered, rows
  <2>2. /\ \A y \in Zones : y # z => runner'[y] = runner[y]
        /\ runner'[z].at = "failing" /\ runner'[z].phase = runner[z].phase
    BY <1>1, <2>1, RunnerMoves DEF RunnerStep
  <2> HIDE DEF r
  <2>3. /\ \A y \in Zones : y # z => report'[y] = report[y]
        /\ report'[z]["success"] = NoReport /\ report'[z]["failure"] = r
    BY <1>1, <2>1 DEF TypeOK
  <2>4. PICK k \in Kind : k = "failure"
    BY DEF Kind
  <2>5. \A l \in Kind : l # k => report'[z][l].at = "idle"
    BY <2>3, <2>4, FirstRows DEF Kind
  <2>6. report'[z][k] = [NoReport EXCEPT !.at = "exec", !.phase = runner[z].phase]
    BY <2>3, <2>4 DEF r
  <2>7. \A y \in Zones : y # z =>
          runner'[y] = runner[y] /\ \A l \in Kind : report'[y][l] = report[y][l]
    BY <2>2, <2>3
  <2>8. /\ runner'[z].at = IF k = "success" THEN "wait" ELSE "failing"
        /\ k = "failure" /\ runner[z].at = "wait" /\ report[z]["success"].at = "error"
    BY <1>1, <1>3, <2>2, <2>4
  <2>9. QED BY <1>1, <2>1, <2>2, <2>5, <2>6, <2>7, <2>8, SentGoes
<1>4. QED BY <1>2, <1>3

(* The zone of a script that is over has its second task, or is not open. *)
LEMMA BackToLoopGoes ==
  ASSUME IInv, GoingInv, Unharmed, [Next]_vars, NEW z \in Zones, BackToLoop(z)
  PROVE  GoingInv'
<1>1. /\ TypeOK /\ RunnerOK(z) /\ ReportOK(z) /\ ScriptOK(z) /\ LinkOK(z)
      /\ Busy(z, "success") <=> runner[z].at = "wait"
      /\ Busy(z, "failure") <=> runner[z].at = "failing"
      /\ runner[z].phase \in Phase
      /\ \A k \in Kind : report[z][k].phase \in Phase /\ (Busy(z, k) => Over)
  BY ZoneFacts
<1>2. /\ "baseline" \in Phase /\ "deep" \in Phase /\ "success" \in Kind /\ "failure" \in Kind
  BY DEF Phase, Kind
<1>3. /\ UNCHANGED <<scope, job, rival, exec, task, named, sched, harm>>
      /\ RunnerGoes(z, "loop") /\ ScriptEnds(z)
      /\ report' = [report EXCEPT ![z] =
           [k \in Kind |-> IF Answered(z, k) THEN NoReport ELSE report[z][k]]]
  BY DEF BackToLoop, rows
<1>4. /\ \A y \in Zones : y # z => runner'[y] = runner[y]
      /\ runner'[z].at = "loop" /\ runner'[z].phase = runner[z].phase
  BY <1>1, <1>3, RunnerMoves DEF RunnerStep
<1>5. /\ \A y \in Zones : y # z => report'[y] = report[y]
      /\ \A k \in Kind : report'[z][k] = IF Answered(z, k) THEN NoReport ELSE report[z][k]
  BY <1>1, <1>3 DEF TypeOK
<1>6. \A k \in Kind : report'[z][k].at = "idle"
  <2>1. \A k \in Kind : Answered(z, k) \/ ~Busy(z, k)
    BY <1>1, <1>3 DEF ScriptEnds, Busy, Kind, Answered
  <2>2. QED BY <1>5, <2>1, FirstRows DEF Busy
<1>7. \A y \in Zones : y # z => SameZone(y)
  BY <1>3, <1>4, <1>5 DEF SameZone
<1>8. ScriptOK(z)'
  BY <1>1, <1>2, <1>3, <1>4, <1>6 DEF ScriptOK, Over, Busy
<1>9. Promise(z)' \/ (~Promise(z) /\ (scope = "zones" => ~IsOpen(z)))
  <2>1. CASE runner[z].at = "wait" /\ runner[z].phase = "baseline"
    <3>1. <<z, "deep">> \in named /\ task[<<z, "deep">>] = "PENDING"
      BY <1>1, <1>3, <2>1 DEF ScriptEnds, ScriptOK, ReportOK
    <3>2. QED BY <1>2, <1>3, <3>1 DEF Promise, Ahead
  <2>2. CASE runner[z].at = "wait" /\ runner[z].phase = "deep"
    <3>1. <<z, "deep">> \in named /\ ~Ahead(z, "deep") /\ ~Ahead(z, "baseline")
      BY <1>1, <1>2, <2>2 DEF ReportOK, RunnerOK
    <3>2. ~Promise(z)
      BY <1>3, <2>2, <3>1 DEF Promise, ScriptEnds, Phase
    <3>3. scope = "zones" => ~IsOpen(z)
      BY <1>1, <1>3, <2>2 DEF LinkOK, IsOpen, ScriptEnds, ReportOK
    <3>4. QED BY <3>2, <3>3
  <2>3. CASE runner[z].at = "failing"
    <3>1. /\ <<z, runner[z].phase>> \in named /\ ~Ahead(z, runner[z].phase)
          /\ runner[z].phase = "baseline" => <<z, "deep">> \notin named
      BY <1>1, <1>2, <2>3 DEF ReportOK, ScriptOK
    <3>2. \A p \in Phase : <<z, p>> \in named => ~Ahead(z, p)
      BY <1>1, <3>1 DEF Phase, RunnerOK
    <3>3. ~Promise(z)
      BY <1>3, <2>3, <3>2 DEF Promise, ScriptEnds, Answered
    <3>4. scope = "zones" => ~IsOpen(z)
      BY <1>1, <1>3, <2>3 DEF LinkOK, ScriptEnds, Answered
    <3>5. QED BY <3>3, <3>4
  <2>4. QED BY <1>1, <1>3, <2>1, <2>2, <2>3 DEF ScriptEnds, Phase
<1>10. LinkOK(z)'
  <2>1. report[z]["success"].at # "swap"
    BY <1>1, <1>3 DEF ScriptEnds, Busy
  <2>2. Over /\ z \notin sched.new
    <3>1. Busy(z, "success") \/ Busy(z, "failure")
      BY <1>1, <1>3 DEF ScriptEnds
    <3>2. QED BY <1>1, <1>2, <3>1, ReportIsServed DEF IInv, SchedInv
  <2>3. QED BY <1>1, <1>2, <1>3, <1>4, <1>6, <1>9, <2>1, <2>2 DEF LinkOK, IsOpen, Over, Served
<1>11. \A y \in Zones, k \in Kind : ClashOK(y, k)'
  <2>1. ASSUME NEW y \in Zones, NEW k \in Kind  PROVE ClashOK(y, k)'
    BY <1>5, <1>6, ClashKept
  <2>2. QED BY <2>1
<1>12. <<z, "baseline">> \in named
  BY <1>1, <1>3 DEF RunnerOK, Phase, ScriptEnds
<1>13. QED BY <1>3, <1>7, <1>8, <1>9, <1>10, <1>11, <1>12, ZoneStep

-----------------------------------------------------------------------------
(* The report. *)

(* A report, its runner, and the other report of the zone. *)
LEMMA ReportFacts ==
  ASSUME IInv, GoingInv, Unharmed, NEW z \in Zones, NEW k \in Kind, Busy(z, k)
  PROVE  /\ TypeOK /\ report[z][k] \in Report /\ report[z][k].phase \in Phase
         /\ ~report[z][k].late /\ runner[z].phase = report[z][k].phase
         /\ k = "success" => runner[z].at = "wait" /\ report[z]["failure"].at = "idle"
         /\ k = "failure" => runner[z].at = "failing" /\ report[z]["success"].at = "idle"
         /\ <<z, report[z][k].phase>> \in named /\ <<z, "baseline">> \in named
         /\ task[TaskOf(z, k)] # "deleted" /\ TaskOf(z, k) = <<z, report[z][k].phase>>
         /\ \A p \in Phase : p = report[z][k].phase => ~Ahead(z, p)
         /\ Over /\ z \notin sched.new
         /\ scope = "zones" => exec[z].task =
              IF k = "success" /\ report[z][k].at = "swap" THEN "baseline"
              ELSE IF <<z, "deep">> \in named THEN "deep" ELSE "baseline"
<1>1. /\ TypeOK /\ RunnerOK(z) /\ ReportOK(z) /\ ScriptOK(z) /\ LinkOK(z)
      /\ Busy(z, "success") <=> runner[z].at = "wait"
      /\ Busy(z, "failure") <=> runner[z].at = "failing"
      /\ runner[z].phase \in Phase
      /\ \A l \in Kind : report[z][l].phase \in Phase /\ ~report[z][l].late
  BY ZoneFacts
<1>2. report[z][k] \in Report
  BY <1>1 DEF TypeOK
<1>3. /\ k = "success" => runner[z].at = "wait" /\ report[z]["failure"].at = "idle"
      /\ k = "failure" => runner[z].at = "failing" /\ report[z]["success"].at = "idle"
      /\ runner[z].phase = report[z][k].phase
  BY <1>1 DEF Busy, Kind, ReportOK, ScriptOK
<1>4. /\ <<z, report[z][k].phase>> \in named
      /\ \A p \in Phase : p = report[z][k].phase => ~Ahead(z, p)
  BY <1>1 DEF ReportOK
<1>5. <<z, "baseline">> \in named
  BY <1>1, <1>4 DEF RunnerOK, Phase
<1>6. task[TaskOf(z, k)] # "deleted" /\ TaskOf(z, k) = <<z, report[z][k].phase>>
  BY <1>1 DEF TaskOf, ScriptOK
<1>7. Over /\ z \notin sched.new
  BY <1>5, ZoneFacts DEF IInv, SchedInv, Served
<1>8. scope = "zones" => exec[z].task =
        IF k = "success" /\ report[z][k].at = "swap" THEN "baseline"
        ELSE IF <<z, "deep">> \in named THEN "deep" ELSE "baseline"
  BY <1>1, <1>3, <1>5, <1>7 DEF LinkOK, Kind, Served
<1>9. QED BY <1>1, <1>2, <1>3, <1>4, <1>5, <1>6, <1>7, <1>8

(* What moving on leaves as it was, besides. *)
LEMMA GotoRest ==
  ASSUME TypeOK, NEW z \in Zones, NEW k \in Kind, NEW at \in ReportStep, Goto(z, k, at)
  PROVE  report'[z][k].view = report[z][k].view /\ report'[z][k].clash = report[z][k].clash
<1> DEFINE r == [report[z][k] EXCEPT !.at = at]
<1>1. report[z][k] \in Report
  BY DEF TypeOK
<1>2. r \in Report /\ r.view = report[z][k].view /\ r.clash = report[z][k].clash
  BY <1>1 DEF Report
<1>3. report' = [report EXCEPT ![z][k] = r]
  BY DEF Goto
<1> HIDE DEF r
<1>4. QED BY <1>2, <1>3, SetReport

LEMMA ReportExecutionGoes ==
  ASSUME IInv, GoingInv, Unharmed, [Next]_vars, NEW z \in Zones, NEW k \in Kind,
         ReportExecution(z, k)
  PROVE  GoingInv'
<1> DEFINE p == report[z][k].phase
           e == NewExecution(exec[z], k, p)
<1>1. report[z][k].at = "exec" /\ Busy(z, k)
  BY DEF ReportExecution, Busy
<1>2. /\ TypeOK /\ ScriptOK(z) /\ LinkOK(z) /\ ReportOK(z) /\ exec[z] \in Execution
      /\ ClashOK(z, k)
  BY ZoneFacts DEF GoingInv
<1>3. /\ p \in Phase /\ runner[z].phase = p
      /\ k = "success" => runner[z].at = "wait" /\ report[z]["failure"].at = "idle"
      /\ k = "failure" => runner[z].at = "failing" /\ report[z]["success"].at = "idle"
      /\ <<z, p>> \in named /\ <<z, "baseline">> \in named
      /\ task[TaskOf(z, k)] # "deleted"
      /\ scope = "zones" => exec[z].task = IF <<z, "deep">> \in named THEN "deep" ELSE "baseline"
  BY <1>1, ReportFacts
<1>4. /\ UNCHANGED <<scope, job, rival, task, named, sched, runner, harm>>
      /\ Goto(z, k, "read")
      /\ exec' = IF exec[z].task = p THEN [exec EXCEPT ![z] = e] ELSE exec
  BY <1>3 DEF ReportExecution
<1>5. /\ e \in Execution /\ e.task = exec[z].task
      /\ k = "failure" => e.status = "failure"
      /\ k = "success" /\ p = "deep" => e.status = "success"
  BY <1>2, <1>3, NewExecutions
<1>6. p = "baseline" => <<z, "deep">> \notin named
  BY <1>1, <1>2, <1>3 DEF ReportOK, ScriptOK, Kind
<1>7. scope = "zones" => exec[z].task = p
  BY <1>3, <1>6 DEF Phase
<1> HIDE DEF e
<1>8. /\ \A y \in Zones : y # z => exec'[y] = exec[y]
      /\ exec'[z].task = exec[z].task
      /\ scope = "zones" => exec'[z] = e
  BY <1>2, <1>4, <1>5, <1>7 DEF TypeOK
<1>9. /\ \A y \in Zones, l \in Kind : y # z \/ l # k => report'[y][l] = report[y][l]
      /\ report'[z][k].at = "read" /\ report'[z][k].phase = p
  BY <1>2, <1>4, GotoReport DEF ReportStep
<1>10. ~report'[z][k].clash
  BY <1>1, <1>2, <1>4, GotoRest DEF ReportStep, ClashOK
<1>11. \A y \in Zones : y # z => SameZone(y)
  BY <1>4, <1>8, <1>9 DEF SameZone
<1>12. Promise(z)'
  BY <1>3, <1>4, <1>9 DEF Promise, Kind
<1>13. /\ "success" \in Kind /\ "failure" \in Kind /\ "deep" \in Phase
       /\ Over' /\ z \notin sched'.new
  BY <1>1, <1>4, ReportFacts DEF Kind, Phase, Over
<1>14. CASE k = "success"
  <2>1. report'[z]["success"].at = "read" /\ report'[z]["failure"].at = "idle"
        /\ report'[z]["success"].phase = p /\ runner'[z].at = "wait"
    BY <1>3, <1>4, <1>9, <1>13, <1>14
  <2>2. ScriptOK(z)'
    BY <1>2, <1>3, <1>4, <1>13, <2>1 DEF ScriptOK
  <2>3. LinkOK(z)'
    BY <1>3, <1>4, <1>5, <1>8, <1>12, <1>13, <1>14, <2>1 DEF LinkOK
  <2>4. QED
    BY <1>3, <1>4, <1>9, <1>10, <1>11, <1>12, <2>2, <2>3, ClashKept, ZoneStep
<1>15. CASE k = "failure"
  <2>1. report'[z]["failure"].at = "read" /\ report'[z]["success"].at = "idle"
        /\ report'[z]["failure"].phase = p /\ runner'[z].at = "failing"
    BY <1>3, <1>4, <1>9, <1>13, <1>15
  <2>2. ScriptOK(z)'
    BY <1>2, <1>3, <1>4, <1>6, <1>13, <2>1 DEF ScriptOK
  <2>3. LinkOK(z)'
    BY <1>3, <1>4, <1>5, <1>8, <1>12, <1>13, <1>15, <2>1 DEF LinkOK, IsOpen
  <2>4. QED
    BY <1>3, <1>4, <1>9, <1>10, <1>11, <1>12, <2>2, <2>3, ClashKept, ZoneStep
<1>16. QED BY <1>14, <1>15 DEF Kind

(* A report that aggregates: its execution has the result already. *)
LEMMA AggregationGoes ==
  ASSUME IInv, GoingInv, Unharmed, [Next]_vars, NEW z \in Zones, NEW k \in Kind,
         report[z][k].at \in {"read", "commit"},
         UNCHANGED <<scope, exec, named, sched, runner>>,
         \A y \in Zones, p \in Phase : task'[<<y, p>>] = task[<<y, p>>],
         \A y \in Zones, l \in Kind : y # z \/ l # k =>
           report'[y][l].at = report[y][l].at /\ report'[y][l].phase = report[y][l].phase,
         report'[z][k].phase = report[z][k].phase,
         report'[z][k].at \in {"commit", "error", AfterAggregation(z, k)},
         \A y \in Zones, l \in Kind : ClashOK(y, l)',
         job.status # "none" => job'.status # "none",
         report'[z][k].at = "error" /\ k = "failure" => job'.status \in Ended,
         report'[z][k].at = "final" /\ k = "success" =>
           job'.status \in Ended \/ \E y \in Zones : y # z /\ Promise(y)
  PROVE  GoingInv'
<1>1. /\ Busy(z, k) /\ TypeOK /\ ScriptOK(z) /\ LinkOK(z) /\ ReportOK(z)
  BY ZoneFacts DEF Busy
<1>2. /\ report[z][k].phase \in Phase /\ runner[z].phase = report[z][k].phase
      /\ k = "success" => runner[z].at = "wait" /\ report[z]["failure"].at = "idle"
      /\ k = "failure" => runner[z].at = "failing" /\ report[z]["success"].at = "idle"
      /\ <<z, "baseline">> \in named
  BY <1>1, ReportFacts
<1>3. /\ "success" \in Kind /\ "failure" \in Kind /\ "success" # "failure"
      /\ Over /\ Over' /\ z \notin sched'.new
  BY <1>1, ReportFacts DEF Kind, Over
<1>4. \A y \in Zones : y # z => SameZone(y)
  BY DEF SameZone
<1>5. \A p \in Phase : task'[<<z, p>>] # "deleted"
  BY <1>1 DEF ScriptOK
<1>6. AfterAggregation(z, k) =
        IF k = "success" /\ report[z][k].phase = "baseline" THEN "create" ELSE "final"
  BY <1>2 DEF AfterAggregation, IsFinal, Kind, Phase
<1>7. CASE k = "success"
  <2>1. /\ report'[z]["failure"].at = "idle" /\ runner'[z].at = "wait"
        /\ report'[z]["success"].phase = report[z]["success"].phase
        /\ report'[z]["success"].at \in {"commit", "error", "create", "final"}
        /\ report[z]["success"].at \in {"read", "commit"}
    BY <1>2, <1>3, <1>6, <1>7
  <2>2. report[z]["success"].phase = "baseline" =>
          <<z, "deep">> \notin named /\ report'[z]["success"].at # "final"
    BY <1>1, <1>6, <1>7, <2>1 DEF ReportOK
  <2>3. Promise(z)' \/ report'[z]["success"].at = "final"
    BY <2>1 DEF Promise
  <2>4. ScriptOK(z)'
    BY <1>2, <1>3, <1>5, <1>7, <2>1, <2>2 DEF ScriptOK
  <2>5. scope = "zones" /\ report'[z]["success"].at = "final" => ~IsOpen(z)
    BY <1>1, <1>2, <1>7, <2>1, <2>2 DEF LinkOK, IsOpen, Phase
  <2>6. LinkOK(z)'
    BY <1>1, <1>2, <1>3, <1>7, <2>1, <2>3, <2>5 DEF LinkOK, IsOpen, Over, Served
  <2>7. QED BY <1>2, <1>3, <1>4, <1>7, <2>3, <2>4, <2>6, ZoneStep
<1>8. CASE k = "failure"
  <2>1. /\ report'[z]["success"].at = "idle" /\ runner'[z].at = "failing"
        /\ report'[z]["failure"].phase = report[z]["failure"].phase
        /\ report'[z]["failure"].at \in {"commit", "error", "final"}
        /\ report[z]["failure"].at \in {"read", "commit"}
    BY <1>2, <1>3, <1>6, <1>8
  <2>2. Promise(z)' \/ job'.status \in Ended
    BY <1>8, <2>1 DEF Promise
  <2>3. ScriptOK(z)'
    BY <1>1, <1>2, <1>3, <1>5, <1>8, <2>1 DEF ScriptOK
  <2>4. LinkOK(z)'
    BY <1>1, <1>2, <1>3, <1>8, <2>1 DEF LinkOK, IsOpen, Over, Served
  <2>5. QED BY <1>2, <1>3, <1>4, <2>2, <2>3, <2>4, ZoneStep
<1>9. QED BY <1>7, <1>8 DEF Kind

(* An aggregation that finds nothing leaves an open zone to another report. *)
LEMMA ReportReadGoes ==
  ASSUME IInv, GoingInv, Unharmed, [Next]_vars, NEW z \in Zones, NEW k \in Kind,
         ReportRead(z, k)
  PROVE  GoingInv'
<1> DEFINE F == Found(z, k)
           at == IF F = {} THEN AfterAggregation(z, k) ELSE "commit"
           r == [report[z][k] EXCEPT !.view = job.status, !.found = F, !.at = at]
<1>1. /\ TypeOK /\ report[z][k].at = "read" /\ Busy(z, k) /\ LinkOK(z)
      /\ UNCHANGED <<scope, job, exec, rival, task, named, sched, runner, harm>>
  BY ZoneFacts DEF ReportRead, Busy, rows
<1>2. /\ report[z][k].phase \in Phase /\ report[z][k] \in Report
      /\ k = "success" => runner[z].at = "wait"
  BY <1>1, ReportFacts
<1>3. /\ F \subseteq Zones /\ at \in {"final", "create", "commit"}
      /\ job.status \in JobStatus /\ at \in {"commit", AfterAggregation(z, k)}
      /\ at = "commit" \/ F = {}
  BY <1>1 DEF Found, Rows, AfterAggregation, TypeOK, Job
<1>4. report' = [report EXCEPT ![z][k] = r]
  BY DEF ReportRead
<1>5. \/ at = "commit" \/ k = "failure" \/ report[z][k].phase = "baseline"
      \/ \E y \in Zones : y # z /\ Promise(y)
  <2>1. SUFFICES ASSUME F = {}, k = "success", report[z][k].phase = "deep"
                 PROVE  \E y \in Zones : y # z /\ Promise(y)
    BY <1>2, <1>3 DEF Phase, Kind
  <2>2. scope = "zones"
    BY <1>1, <2>1, CampusAssumption DEF Found, TypeOK
  <2>3. exec[z].status = "success"
    BY <1>1, <1>2, <2>1, <2>2 DEF LinkOK
  <2>4. exec[z].deep
    BY <2>3 DEF IInv, CoverInv, EndedOK, Unharmed
  <2>5. PICK y \in Open : TRUE
    BY <2>1, <2>2, <2>3, <2>4 DEF Found, Rows
  <2>6. y \in Zones /\ exec[y] \in Execution
        /\ exec[y].status # "none" /\ exec[y].status \notin Terminal
    BY <1>1, <2>5 DEF Open, Rows, TypeOK
  <2>7. IsOpen(y) /\ y # z
    BY <2>3, <2>6 DEF IsOpen, Terminal, Execution
  <2>8. LinkOK(y)
    BY <2>6, ZoneFacts
  <2>9. Promise(y)
    BY <2>2, <2>7, <2>8 DEF LinkOK
  <2>10. QED BY <2>6, <2>7, <2>9
<1>6. AfterAggregation(z, k) = "final" => k = "failure" \/ report[z][k].phase = "deep"
  BY DEF AfterAggregation, IsFinal
<1> HIDE DEF F, at
<1>7. /\ r \in Report /\ r.at = at /\ r.phase = report[z][k].phase
      /\ r.view = job.status /\ r.clash = report[z][k].clash
  BY <1>2, <1>3 DEF Report, ReportStep
<1> HIDE DEF r
<1>8. \A y \in Zones, l \in Kind :
        report'[y][l] = IF y = z /\ l = k THEN r ELSE report[y][l]
  BY <1>1, <1>4, <1>7, SetReport
<1>9. \A y \in Zones, l \in Kind : ClashOK(y, l)'
  <2>1. ~report[z][k].clash
    BY <1>1 DEF GoingInv, ClashOK
  <2>2. report'[z][k].at \in {"final", "create", "commit"} /\ ~report'[z][k].clash
        /\ report'[z][k].view = job'.status
    BY <1>1, <1>3, <1>7, <1>8, <2>1
  <2>3. ClashOK(z, k)'
    BY <2>2 DEF ClashOK, Ended
  <2>4. ASSUME NEW y \in Zones, NEW l \in Kind  PROVE ClashOK(y, l)'
    <3>1. CASE y = z /\ l = k
      BY <2>3, <3>1
    <3>2. CASE y # z \/ l # k
      BY <1>8, <3>2, ClashKept
    <3>3. QED BY <3>1, <3>2
  <2>5. QED BY <2>4
<1>10. report'[z][k].at = "final" /\ k = "success" => \E y \in Zones : y # z /\ Promise(y)
  BY <1>2, <1>3, <1>5, <1>6, <1>7, <1>8 DEF Phase
<1>11. /\ \A y \in Zones, l \in Kind : y # z \/ l # k =>
            report'[y][l].at = report[y][l].at /\ report'[y][l].phase = report[y][l].phase
       /\ report'[z][k].phase = report[z][k].phase
       /\ report'[z][k].at \in {"commit", "error", AfterAggregation(z, k)}
       /\ report'[z][k].at # "error"
  BY <1>3, <1>7, <1>8
<1>12. QED BY <1>1, <1>9, <1>10, <1>11, AggregationGoes

(* An aggregation whose assets were saved by another one finds the job ended. *)
LEMMA ReportAggregateFailsGoes ==
  ASSUME IInv, GoingInv, Unharmed, [Next]_vars, NEW z \in Zones, NEW k \in Kind,
         ReportAggregateFails(z, k)
  PROVE  GoingInv'
<1>1. /\ TypeOK /\ report[z][k].at = "commit" /\ Busy(z, k) /\ Answer(z, k, "error")
      /\ UNCHANGED <<scope, job, exec, rival, task, named, sched, runner, harm>>
      /\ Refused(Aggregated(z, k)) \/ report[z][k].clash
  BY ZoneFacts DEF ReportAggregateFails, Busy, rows
<1>2. /\ \A y \in Zones, l \in Kind : y # z \/ l # k => report'[y][l] = report[y][l]
      /\ report'[z][k].at = "error" /\ report'[z][k].phase = report[z][k].phase
  BY <1>1, ReportFacts, AnswerReport
<1>3. k = "failure" => job'.status \in Ended
  <2>1. SUFFICES ASSUME k = "failure"  PROVE job.status \in Ended
    BY <1>1
  <2>2. IsFinal(z, k) /\ Finishing(z, k)
    BY <1>1, <2>1 DEF Finishing, IsFinal
  <2>3. ~Refused(Aggregated(z, k))
    BY <2>2 DEF Refused, Aggregated, Written, Active
  <2>4. ClashOK(z, k)
    BY DEF GoingInv
  <2>5. QED BY <1>1, <2>2, <2>3, <2>4 DEF ClashOK
<1>4. \A y \in Zones, l \in Kind : ClashOK(y, l)'
  <2>1. ASSUME NEW y \in Zones, NEW l \in Kind  PROVE ClashOK(y, l)'
    BY <1>2, ClashKept
  <2>2. QED BY <2>1
<1>5. \A y \in Zones, l \in Kind : y # z \/ l # k =>
        report'[y][l].at = report[y][l].at /\ report'[y][l].phase = report[y][l].phase
  BY <1>2
<1>6. QED BY <1>1, <1>2, <1>3, <1>4, <1>5, AggregationGoes

LEMMA ReportAggregateGoes ==
  ASSUME IInv, GoingInv, Unharmed, [Next]_vars, NEW z \in Zones, NEW k \in Kind,
         ReportAggregate(z, k)
  PROVE  GoingInv'
<1> DEFINE at == AfterAggregation(z, k)
           new(y, l) ==
             LET r == report[y][l]
             IN  IF y = z /\ l = k THEN [r EXCEPT !.at = at, !.clash = FALSE]
                 ELSE IF r.at = "commit" /\ IsFinal(z, k) /\ IsFinal(y, l)
                   THEN [r EXCEPT !.clash = TRUE]
                 ELSE r
<1>1. /\ TypeOK /\ report[z][k].at = "commit" /\ Busy(z, k)
      /\ UNCHANGED <<scope, exec, rival, named, sched, runner, harm>>
      /\ report' = [y \in Zones |-> [l \in Kind |-> new(y, l)]]
  BY ZoneFacts DEF ReportAggregate, Busy
<1>2. \A y \in Zones, l \in Kind : report'[y][l] = new(y, l)
  BY <1>1
<1>3. ASSUME NEW y \in Zones, NEW l \in Kind  PROVE report[y][l] \in Report
  BY <1>1 DEF TypeOK
<1>4. at \in {"final", "create"}
  BY DEF AfterAggregation
<1> HIDE DEF at
<1>5. report'[z][k].at = at /\ report'[z][k].phase = report[z][k].phase
  <2>1. report'[z][k] = [report[z][k] EXCEPT !.at = at, !.clash = FALSE]
    BY <1>2
  <2>2. QED BY <1>3, <2>1 DEF Report
<1>6. ASSUME NEW y \in Zones, NEW l \in Kind, y # z \/ l # k
      PROVE  /\ report'[y][l].at = report[y][l].at /\ report'[y][l].phase = report[y][l].phase
             /\ report'[y][l] # report[y][l] =>
                  IsFinal(z, k) /\ report'[y][l].at = "commit"
  <2>1. CASE report[y][l].at = "commit" /\ IsFinal(z, k) /\ IsFinal(y, l)
    <3>1. report'[y][l] = [report[y][l] EXCEPT !.clash = TRUE]
      BY <1>2, <1>6, <2>1
    <3>2. QED BY <1>3, <2>1, <3>1 DEF Report
  <2>2. CASE ~(report[y][l].at = "commit" /\ IsFinal(z, k) /\ IsFinal(y, l))
    BY <1>2, <1>6, <2>2
  <2>3. QED BY <2>1, <2>2
<1> HIDE DEF new
<1>7. /\ IsFinal(z, k) => job'.status \in Ended
      /\ job.status # "none" => job'.status # "none"
  <2>1. ClashOK(z, k)
    BY DEF GoingInv
  <2>2. job' = Aggregated(z, k)
    BY DEF ReportAggregate
  <2>3. job'.status = Written(report[z][k].view, IF IsFinal(z, k) THEN "COMPLETED" ELSE "RUNNING")
    BY <2>2 DEF Aggregated
  <2>4. IsFinal(z, k) => job'.status \in Ended
    BY <1>1, <2>1, <2>3 DEF ClashOK, Finishing, Written, Ended
  <2>5. QED BY <2>3, <2>4 DEF Written
<1>8. \A y \in Zones, p \in Phase : task'[<<y, p>>] = task[<<y, p>>]
  <2>1. CASE task' = task
    BY <2>1
  <2>2. CASE task' = [task EXCEPT ![Parent] = "SUCCESS"]
    BY <1>1, <2>2, Tasks DEF TypeOK
  <2>3. QED BY <2>1, <2>2 DEF ReportAggregate
<1>9. \A y \in Zones, l \in Kind : ClashOK(y, l)'
  <2>1. ASSUME NEW y \in Zones, NEW l \in Kind  PROVE ClashOK(y, l)'
    <3>1. CASE y = z /\ l = k
      BY <1>4, <1>5, <3>1, ClashKept
    <3>2. CASE report'[y][l] = report[y][l]
      BY <3>2, ClashKept
    <3>3. CASE (y # z \/ l # k) /\ report'[y][l] # report[y][l]
      <4>1. IsFinal(z, k) /\ report'[y][l].at = "commit"
        BY <1>6, <3>3
      <4>2. QED BY <1>7, <4>1 DEF ClashOK
    <3>4. QED BY <3>1, <3>2, <3>3
  <2>2. QED BY <2>1
<1>10. report'[z][k].at = "final" => job'.status \in Ended
  BY <1>5, <1>7 DEF at, AfterAggregation
<1>11. report'[z][k].at \in {"commit", "error", AfterAggregation(z, k)}
       /\ report'[z][k].at # "error"
  BY <1>4, <1>5 DEF at
<1>12. QED BY <1>1, <1>5, <1>6, <1>7, <1>8, <1>9, <1>10, <1>11, AggregationGoes

(* The report of a baseline, once it makes the second task. *)
LEMMA FollowupGoes ==
  ASSUME IInv, GoingInv, Unharmed, [Next]_vars, NEW z \in Zones,
         report[z]["success"].at \in {"create", "context", "swap"},
         UNCHANGED <<scope, job, sched, runner>>,
         \A y \in Zones : y # z => exec'[y] = exec[y],
         \A y \in Zones, l \in Kind : y # z \/ l # "success" => report'[y][l] = report[y][l],
         report'[z]["success"].phase = report[z]["success"].phase,
         report'[z]["success"].at \in {"context", "swap", "final"},
         \A y \in Zones, p \in Phase : y # z \/ p # "deep" =>
           /\ task'[<<y, p>>] = task[<<y, p>>]
           /\ <<y, p>> \in named' <=> <<y, p>> \in named,
         task'[<<z, "deep">>] = "PENDING",
         <<z, "deep">> \in named' <=> report'[z]["success"].at # "context",
         scope = "zones" =>
           exec'[z].task = IF report'[z]["success"].at = "final" THEN "deep" ELSE "baseline"
  PROVE  GoingInv'
<1>1. "success" \in Kind /\ "failure" \in Kind /\ "deep" \in Phase /\ "baseline" \in Phase
  BY DEF Kind, Phase
<1>2. /\ Busy(z, "success") /\ report[z]["success"].phase = "baseline"
      /\ <<z, "baseline">> \in named
  BY FollowupFacts
<1>3. /\ runner[z].at = "wait" /\ report[z]["failure"].at = "idle"
      /\ runner[z].phase = "baseline"
  BY <1>1, <1>2, ReportFacts
<1>4. \A p \in Phase : task'[<<z, p>>] # "deleted"
  BY <1>1, ZoneFacts DEF ScriptOK, Phase
<1>5. /\ runner'[z].at = "wait" /\ report'[z]["failure"].at = "idle"
      /\ runner'[z].phase = "baseline" /\ report'[z]["success"].phase = "baseline"
      /\ <<z, "baseline">> \in named' /\ Over /\ Over' /\ z \notin sched'.new
  BY <1>1, <1>2, <1>3, ReportFacts DEF Over
<1>6. \A y \in Zones : y # z => SameZone(y)
  BY DEF SameZone
<1>7. Promise(z)'
  BY <1>1, <1>5 DEF Promise, Ahead
<1>8. ScriptOK(z)'
  BY <1>4, <1>5 DEF ScriptOK
<1>9. LinkOK(z)'
  BY <1>5, <1>7 DEF LinkOK
<1>10. \A y \in Zones, l \in Kind : ClashOK(y, l)'
  <2>1. ASSUME NEW y \in Zones, NEW l \in Kind  PROVE ClashOK(y, l)'
    BY ClashKept
  <2>2. QED BY <2>1
<1>11. QED BY <1>2, <1>5, <1>6, <1>7, <1>8, <1>9, <1>10, ZoneStep

LEMMA FollowupCreateGoes ==
  ASSUME IInv, GoingInv, Unharmed, [Next]_vars, NEW z \in Zones, FollowupCreate(z)
  PROVE  GoingInv'
<1>1. /\ TypeOK /\ "success" \in Kind /\ "deep" \in Phase /\ "baseline" \in Phase
      /\ Busy(z, "success") /\ report[z]["success"].phase = "baseline"
      /\ <<z, "deep">> \notin named /\ report[z]["success"].at = "create"
      /\ UNCHANGED <<scope, job, rival, exec, named, sched, runner, harm>>
  BY FollowupFacts DEF FollowupCreate
<1>2. /\ task[TaskOf(z, "success")] # "deleted"
      /\ scope = "zones" => exec[z].task = "baseline"
  BY <1>1, ReportFacts
<1>3. task' = [task EXCEPT ![<<z, "deep">>] = "PENDING"] /\ Goto(z, "success", "context")
  BY <1>2 DEF FollowupCreate
<1>4. /\ \A y \in Zones, l \in Kind : y # z \/ l # "success" => report'[y][l] = report[y][l]
      /\ report'[z]["success"].at = "context"
      /\ report'[z]["success"].phase = report[z]["success"].phase
  BY <1>1, <1>3, GotoReport DEF ReportStep
<1>5. \A y \in Zones, p \in Phase :
        task'[<<y, p>>] = IF y = z /\ p = "deep" THEN "PENDING" ELSE task[<<y, p>>]
  BY <1>1, <1>3, Tasks DEF TypeOK
<1>6. task'[<<z, "deep">>] = "PENDING"
  BY <1>1, <1>5
<1>7. \A y \in Zones, p \in Phase : y # z \/ p # "deep" => task'[<<y, p>>] = task[<<y, p>>]
  BY <1>5
<1>8. QED BY <1>1, <1>2, <1>4, <1>6, <1>7, FollowupGoes

LEMMA FollowupContextGoes ==
  ASSUME IInv, GoingInv, Unharmed, [Next]_vars, NEW z \in Zones, FollowupContext(z)
  PROVE  GoingInv'
<1>1. /\ TypeOK /\ "success" \in Kind /\ "deep" \in Phase /\ "baseline" \in Phase
      /\ Busy(z, "success") /\ report[z]["success"].phase = "baseline"
      /\ <<z, "deep">> \notin named /\ report[z]["success"].at = "context"
      /\ UNCHANGED <<scope, job, rival, exec, task, sched, runner, harm>>
  BY FollowupFacts DEF FollowupContext
<1>2. /\ scope = "zones" => exec[z].task = "baseline"
      /\ task[<<z, "deep">>] = "PENDING"
  BY <1>1, ReportFacts, ZoneFacts DEF ScriptOK
<1>3. named' = named \cup {<<z, "deep">>} /\ Goto(z, "success", "swap")
  BY <1>2 DEF FollowupContext
<1>4. /\ \A y \in Zones, l \in Kind : y # z \/ l # "success" => report'[y][l] = report[y][l]
      /\ report'[z]["success"].at = "swap"
      /\ report'[z]["success"].phase = report[z]["success"].phase
  BY <1>1, <1>3, GotoReport DEF ReportStep
<1>5. \A y \in Zones, p \in Phase :
        y # z \/ p # "deep" => (<<y, p>> \in named' <=> <<y, p>> \in named)
  BY <1>3
<1>6. QED BY <1>1, <1>2, <1>3, <1>4, <1>5, FollowupGoes

LEMMA FollowupSwapGoes ==
  ASSUME IInv, GoingInv, Unharmed, [Next]_vars, NEW z \in Zones, FollowupSwap(z)
  PROVE  GoingInv'
<1> DEFINE e == [exec[z] EXCEPT !.task = "deep", !.status = "pending"]
<1>1. /\ TypeOK /\ "success" \in Kind /\ "deep" \in Phase /\ "baseline" \in Phase
      /\ Busy(z, "success") /\ report[z]["success"].phase = "baseline"
      /\ report[z]["success"].at = "swap"
      /\ UNCHANGED <<scope, job, rival, task, named, sched, runner, harm>>
  BY FollowupFacts DEF FollowupSwap
<1>2. /\ scope = "zones" => exec[z].task = "baseline"
      /\ task[<<z, "deep">>] = "PENDING" /\ <<z, "deep">> \in named
      /\ task[TaskOf(z, "success")] # "deleted" /\ exec[z] \in Execution
  BY <1>1, ReportFacts, ZoneFacts DEF ScriptOK
<1>3. /\ exec' = IF exec[z].task = "baseline" THEN [exec EXCEPT ![z] = e] ELSE exec
      /\ Goto(z, "success", "final")
  BY <1>2 DEF FollowupSwap
<1>4. e.task = "deep"
  BY <1>2 DEF Execution
<1> HIDE DEF e
<1>5. /\ \A y \in Zones : y # z => exec'[y] = exec[y]
      /\ scope = "zones" => exec'[z].task = "deep"
  BY <1>1, <1>2, <1>3, <1>4 DEF TypeOK
<1>6. /\ \A y \in Zones, l \in Kind : y # z \/ l # "success" => report'[y][l] = report[y][l]
      /\ report'[z]["success"].at = "final"
      /\ report'[z]["success"].phase = report[z]["success"].phase
  BY <1>1, <1>3, GotoReport DEF ReportStep
<1>7. QED BY <1>1, <1>2, <1>5, <1>6, FollowupGoes

(* The end of a report: the second task waits, or the zone has ended. *)
LEMMA ReportFinalGoes ==
  ASSUME IInv, GoingInv, Unharmed, [Next]_vars, NEW z \in Zones, NEW k \in Kind,
         ReportFinal(z, k)
  PROVE  GoingInv'
<1> DEFINE new == IF k = "success" THEN "SUCCESS" ELSE "FAILURE"
           failed == [job EXCEPT !.status = "FAILED"]
           p == report[z][k].phase
<1>1. /\ TypeOK /\ ScriptOK(z) /\ LinkOK(z) /\ ReportOK(z) /\ RunnerOK(z)
      /\ report[z][k].at = "final" /\ Busy(z, k)
      /\ UNCHANGED <<scope, rival, exec, named, sched, runner, harm>>
  BY ZoneFacts DEF ReportFinal, Busy
<1>2. /\ p \in Phase /\ runner[z].phase = p /\ ~report[z][k].late
      /\ k = "success" => runner[z].at = "wait" /\ report[z]["failure"].at = "idle"
      /\ k = "failure" => runner[z].at = "failing" /\ report[z]["success"].at = "idle"
      /\ <<z, p>> \in named /\ <<z, "baseline">> \in named
      /\ task[TaskOf(z, k)] # "deleted" /\ TaskOf(z, k) = <<z, p>>
      /\ \A q \in Phase : q = p => ~Ahead(z, q)
  BY <1>1, ReportFacts
<1>3. /\ Answer(z, k, "done") /\ task' = [task EXCEPT ![<<z, p>>] = new]
      /\ job' = IF k = "failure" THEN failed ELSE job
  BY <1>2 DEF ReportFinal
<1>4. failed.status = "FAILED"
  BY <1>1 DEF TypeOK, Job
<1>5. new \notin {"deleted", "PENDING"}
  OBVIOUS
<1> HIDE DEF new, failed
<1>6. \A y \in Zones, q \in Phase :
        task'[<<y, q>>] = IF y = z /\ q = p THEN new ELSE task[<<y, q>>]
  BY <1>1, <1>2, <1>3, Tasks DEF TypeOK
<1>7. /\ \A y \in Zones, l \in Kind : y # z \/ l # k => report'[y][l] = report[y][l]
      /\ report'[z][k].at = "done" /\ report'[z][k].phase = p
  BY <1>1, <1>2, <1>3, AnswerReport
<1>8. \A y \in Zones : y # z => SameZone(y)
  BY <1>1, <1>6, <1>7 DEF SameZone
<1>9. \A q \in Phase : task'[<<z, q>>] # "deleted"
  BY <1>1, <1>5, <1>6 DEF ScriptOK
<1>10. \A y \in Zones, l \in Kind : ClashOK(y, l)'
  <2>1. ASSUME NEW y \in Zones, NEW l \in Kind  PROVE ClashOK(y, l)'
    BY <1>7, ClashKept
  <2>2. QED BY <2>1
<1>11. /\ "success" \in Kind /\ "failure" \in Kind /\ "success" # "failure"
       /\ "deep" \in Phase /\ "baseline" \in Phase
       /\ Over /\ Over' /\ z \notin sched'.new
  BY <1>1, ReportFacts DEF Kind, Phase, Over
<1>12. CASE k = "success" /\ p = "baseline"
  <2>1. <<z, "deep">> \in named' /\ task'[<<z, "deep">>] = "PENDING"
    BY <1>1, <1>6, <1>11, <1>12 DEF ScriptOK
  <2>2. Promise(z)'
    BY <1>11, <2>1 DEF Promise, Ahead
  <2>3. /\ report'[z]["failure"].at = "idle" /\ runner'[z].at = "wait"
        /\ report'[z]["success"].at = "done" /\ report'[z]["success"].phase = p
    BY <1>1, <1>2, <1>7, <1>11, <1>12
  <2>4. ScriptOK(z)'
    BY <1>9, <1>11, <2>1, <2>3 DEF ScriptOK
  <2>5. LinkOK(z)'
    BY <1>1, <1>11, <1>12, <2>1, <2>2, <2>3 DEF LinkOK, Served
  <2>6. job' = job
    BY <1>3, <1>12
  <2>7. QED BY <1>1, <1>2, <1>8, <1>10, <1>11, <2>2, <2>4, <2>5, <2>6, ZoneStep
<1>13. CASE k = "success" /\ p = "deep"
  <2>1. /\ report'[z]["failure"].at = "idle" /\ runner'[z].at = "wait"
        /\ report'[z]["success"].at = "done" /\ report'[z]["success"].phase = "deep"
        /\ runner'[z].phase = "deep"
    BY <1>1, <1>2, <1>7, <1>11, <1>13
  <2>2. scope = "zones" => exec[z].status = "success"
    BY <1>1, <1>2, <1>13 DEF LinkOK
  <2>3. \A q \in Phase : <<z, q>> \in named => ~Ahead(z, q)
    BY <1>1, <1>2, <1>13 DEF RunnerOK, Phase
  <2>4. ~Promise(z)
    BY <1>1, <1>2, <1>13, <2>3 DEF Promise
  <2>5. ScriptOK(z)'
    BY <1>9, <1>11, <2>1 DEF ScriptOK
  <2>6. LinkOK(z)'
    BY <1>1, <1>11, <1>13, <2>1, <2>2 DEF LinkOK, IsOpen, Served
  <2>7. job' = job
    BY <1>3, <1>13
  <2>8. QED BY <1>1, <1>2, <1>8, <1>10, <1>11, <2>4, <2>5, <2>6, <2>7, ZoneStep
<1>14. CASE k = "failure"
  <2>1. /\ report'[z]["success"].at = "idle" /\ runner'[z].at = "failing"
        /\ report'[z]["failure"].at = "done" /\ report'[z]["failure"].phase = p
        /\ runner'[z].phase = p
    BY <1>1, <1>2, <1>7, <1>11, <1>14
  <2>2. ScriptOK(z)'
    BY <1>1, <1>2, <1>9, <1>11, <1>14, <2>1 DEF ScriptOK
  <2>3. LinkOK(z)'
    BY <1>1, <1>2, <1>11, <1>14, <2>1 DEF LinkOK, IsOpen, Served
  <2>4. job'.status \in Ended /\ job'.status # "none"
    BY <1>3, <1>4, <1>14 DEF Ended
  <2>5. QED BY <1>1, <1>2, <1>8, <1>10, <1>11, <2>2, <2>3, <2>4, ZoneStep
<1>15. QED BY <1>2, <1>12, <1>13, <1>14 DEF Kind, Phase

-----------------------------------------------------------------------------
(* The schedule. *)

(* A zone without a named task: its runner has nothing to do. *)
LEMMA FreshZone ==
  ASSUME IInv, GoingInv, Unharmed, NEW z \in Zones, <<z, "baseline">> \notin named
  PROVE  /\ runner[z].at = "loop" /\ \A k \in Kind : report[z][k].at = "idle"
         /\ <<z, "deep">> \notin named /\ ~Promise(z)
<1>1. /\ RunnerOK(z) /\ ReportOK(z) /\ runner[z].phase \in Phase
      /\ Busy(z, "success") <=> runner[z].at = "wait"
      /\ Busy(z, "failure") <=> runner[z].at = "failing"
  BY ZoneFacts
<1>2. <<z, "deep">> \notin named /\ runner[z].at = "loop"
  BY <1>1 DEF RunnerOK, Phase
<1>3. \A k \in Kind : report[z][k].at = "idle"
  BY <1>1, <1>2 DEF Busy, Kind
<1>4. ~Promise(z)
  BY PromiseIsNamed
<1>5. QED BY <1>2, <1>3, <1>4

LEMMA FreshKept ==
  ASSUME IInv, GoingInv, Unharmed, NEW z \in Zones, <<z, "baseline">> \notin named,
         UNCHANGED <<runner, report>>,
         \A p \in Phase : task'[<<z, p>>] # "deleted" /\ <<z, p>> \notin named',
         ~IsOpen(z)', z \in sched'.new => task'[<<z, "baseline">>] = "PENDING"
  PROVE  ScriptOK(z)' /\ LinkOK(z)'
<1>1. /\ runner'[z].at = "loop" /\ \A k \in Kind : report'[z][k].at = "idle"
      /\ report'[z]["success"].at = "idle" /\ report'[z]["failure"].at = "idle"
      /\ <<z, "deep">> \notin named' /\ <<z, "baseline">> \notin named'
  BY FreshZone DEF Kind, Phase
<1>2. ScriptOK(z)'
  BY <1>1 DEF ScriptOK, Busy
<1>3. LinkOK(z)'
  BY <1>1 DEF LinkOK, Served
<1>4. QED BY <1>2, <1>3

(* A step that is not the last of the schedule. *)
LEMMA ScheduleGoes ==
  ASSUME IInv, GoingInv, Unharmed, [Next]_vars, ~Over, sched'.at \in {"parent", "next", "name"},
         job'.status = "PENDING", UNCHANGED <<scope, exec, runner, report>>,
         \A z \in Zones, p \in Phase :
           /\ task'[<<z, p>>] # "deleted"
           /\ <<z, p>> \in named => <<z, p>> \in named' /\ task'[<<z, p>>] = task[<<z, p>>],
         \A z \in Zones :
           /\ Served(z)' => Served(z) \/ task'[<<z, "baseline">>] = "PENDING"
           /\ <<z, "deep">> \notin named'
           /\ z \in sched'.new => task'[<<z, "baseline">>] = "PENDING"
  PROVE  GoingInv'
<1>1. ~Over'
  BY DEF Over
<1>2. ASSUME NEW z \in Zones
      PROVE  /\ \A k \in Kind : report[z][k].at = "idle"
             /\ report[z]["success"].at = "idle" /\ report[z]["failure"].at = "idle"
             /\ runner[z].at \notin {"wait", "failing"} /\ ~IsOpen(z)
  BY ZoneFacts DEF ScriptOK, ExecOK, Busy, Kind, IsOpen
<1>3. ASSUME NEW z \in Zones  PROVE ScriptOK(z)'
  BY <1>2, <1>3 DEF ScriptOK, Busy
<1>4. ASSUME NEW z \in Zones, scope = "zones", Served(z)'  PROVE Promise(z)'
  <2>1. CASE Served(z)
    <3>1. Promise(z)
      BY <1>4, <2>1, ZoneFacts DEF LinkOK
    <3>2. PICK p \in Phase : <<z, p>> \in named /\ Ahead(z, p)
      BY <1>2, <3>1 DEF Promise
    <3>3. <<z, p>> \in named' /\ Ahead(z, p)'
      BY <3>2 DEF Ahead
    <3>4. QED BY <3>3 DEF Promise
  <2>2. CASE task'[<<z, "baseline">>] = "PENDING"
    BY <1>4, <2>2 DEF Promise, Ahead, Served, Phase
  <2>3. QED BY <1>4, <2>1, <2>2
<1>5. ASSUME NEW z \in Zones  PROVE LinkOK(z)'
  <2>1. ~IsOpen(z)'
    BY <1>2 DEF IsOpen
  <2>2. QED BY <1>1, <1>2, <1>4, <1>5, <2>1 DEF LinkOK
<1>6. ASSUME NEW z \in Zones, NEW k \in Kind  PROVE ClashOK(z, k)'
  BY ClashKept
<1>7. JobOK' /\ PromiseInv'
  BY <1>1 DEF JobOK, PromiseInv
<1>8. QED BY <1>3, <1>5, <1>6, <1>7 DEF GoingInv

(* While nothing is over, no task is gone that a new execution could name. *)
LEMMA ScheduleFacts ==
  ASSUME IInv, GoingInv, Unharmed, sched.at \in {"next", "name"}
  PROVE  /\ ~Over /\ ~Dangling /\ scope = "zones" /\ job.status = "PENDING" /\ TypeOK
         /\ sched \in Sched /\ job \in Job /\ "baseline" \in Phase /\ "deep" \in Phase
         /\ \A z \in Zones, p \in Phase : task[<<z, p>>] # "deleted"
         /\ \A z \in Zones : <<z, "deep">> \notin named
<1>1. ~Over /\ scope = "zones"
  BY DEF Over, IInv, SchedInv
<1>2. /\ job.status = "PENDING" /\ "baseline" \in Phase /\ "deep" \in Phase
      /\ TypeOK /\ sched \in Sched /\ job \in Job
  BY <1>1 DEF GoingInv, JobOK, Phase, IInv, TypeOK
<1>3. \A z \in Zones : <<z, "deep">> \notin named
  BY <1>1, ZoneFacts DEF ScriptOK
<1>4. \A z \in Zones, p \in Phase : task[<<z, p>>] # "deleted"
  BY NoneDeleted
<1>5. ~Dangling
  BY <1>2, <1>4 DEF Dangling, Sched
<1>6. QED BY <1>1, <1>2, <1>3, <1>4, <1>5

LEMMA CreateJobGoes ==
  ASSUME IInv, GoingInv, Unharmed, [Next]_vars, CreateJob
  PROVE  GoingInv'
<1>1. /\ sched.at = "idle" /\ sched \in Sched /\ job \in Job /\ named = {} /\ ~Over
      /\ job' = [job EXCEPT !.status = "PENDING"] /\ sched' = [sched EXCEPT !.at = "parent"]
      /\ UNCHANGED <<scope, rival, exec, task, named, runner, report, harm>> /\ sched.new = {}
  BY DEF IInv, TypeOK, CreateJob, SchedInv, Over
<1>2. job'.status = "PENDING" /\ sched'.at = "parent" /\ sched'.new = {}
  BY <1>1 DEF Job, Sched
<1>3. \A z \in Zones, p \in Phase : task'[<<z, p>>] # "deleted"
  BY <1>1, NoneDeleted
<1>4. \A z \in Zones : ~Served(z)'
  BY <1>1 DEF Served
<1>5. QED BY <1>1, <1>2, <1>3, <1>4, ScheduleGoes

LEMMA ScheduleUnservedGoes ==
  ASSUME IInv, GoingInv, Unharmed, [Next]_vars, NEW z \in Zones, ScheduleUnserved(z)
  PROVE  GoingInv'
<1>1. sched.at = "next" /\ UNCHANGED <<scope, rival, job, exec, task, named, runner, report, harm>>
  BY DEF ScheduleUnserved, rows
<1>2. /\ ~Dangling /\ ~Over /\ job.status = "PENDING" /\ sched \in Sched
      /\ \A y \in Zones, p \in Phase : task[<<y, p>>] # "deleted"
      /\ \A y \in Zones : <<y, "deep">> \notin named
  BY <1>1, ScheduleFacts
<1>3. sched'.at = "next" /\ sched'.new = {}
  BY <1>1, <1>2 DEF ScheduleUnserved, Sched, IInv, SchedInv
<1>4. \A y \in Zones : Served(y)' <=> Served(y)
  BY <1>1 DEF Served
<1>5. QED BY <1>1, <1>2, <1>3, <1>4, ScheduleGoes

LEMMA CreateParentGoes ==
  ASSUME IInv, GoingInv, Unharmed, [Next]_vars, CreateParent
  PROVE  GoingInv'
<1>1. /\ sched.at = "parent" /\ sched \in Sched /\ TypeOK /\ named = {} /\ ~Over
      /\ UNCHANGED <<scope, job, rival, exec, runner, report, harm>> /\ sched.new = {}
      /\ job.status = "PENDING"
  BY DEF IInv, TypeOK, SchedInv, CreateParent, Over, GoingInv, JobOK
<1>2. CASE /\ task' = [task EXCEPT ![Parent] = "PENDING"]
           /\ sched' = [sched EXCEPT !.at = "next", !.todo = Zones]
           /\ UNCHANGED named
  <2>1. sched'.at = "next" /\ sched'.new = {}
    BY <1>1, <1>2 DEF Sched
  <2>2. \A z \in Zones, p \in Phase : task'[<<z, p>>] # "deleted"
    BY <1>1, <1>2, Tasks, NoneDeleted DEF TypeOK
  <2>3. \A z \in Zones : ~Served(z)'
    BY <1>1, <1>2 DEF Served
  <2>4. QED BY <1>1, <1>2, <2>1, <2>2, <2>3, ScheduleGoes
<1>3. ASSUME scope = "node", NEW z \in Zones,
             task' = [task EXCEPT ![<<z, "baseline">>] = "PENDING"],
             named' = {<<z, "baseline">>},
             sched' = [sched EXCEPT !.at = "done"]
      PROVE  GoingInv'
  <2>1. sched'.at = "done" /\ "baseline" \in Phase /\ "deep" \in Phase /\ Over'
    BY <1>1, <1>3 DEF Sched, Phase, Over
  <2>2. \A y \in Zones, p \in Phase :
          task'[<<y, p>>] = IF y = z /\ p = "baseline" THEN "PENDING" ELSE task[<<y, p>>]
    BY <1>1, <1>3, <2>1, Tasks DEF TypeOK
  <2>3. \A y \in Zones : LinkOK(y)'
    BY <1>1, <1>3 DEF LinkOK
  <2>4. ASSUME NEW y \in Zones  PROVE ScriptOK(y)'
    <3>1. /\ runner'[y].at = "loop"
          /\ report'[y]["success"].at = "idle" /\ report'[y]["failure"].at = "idle"
      BY <1>1, FreshZone DEF Kind
    <3>2. \A p \in Phase : task'[<<y, p>>] # "deleted"
      BY <2>2, NoneDeleted
    <3>3. QED BY <2>1, <3>1, <3>2 DEF ScriptOK
  <2>5. Promise(z)'
    BY <1>3, <2>1, <2>2 DEF Promise, Ahead
  <2>6. ASSUME NEW y \in Zones, NEW k \in Kind  PROVE ClashOK(y, k)'
    BY <1>1, ClashKept
  <2>7. JobOK' /\ PromiseInv'
    BY <1>1, <2>1, <2>5 DEF JobOK, PromiseInv
  <2>8. QED BY <2>3, <2>4, <2>6, <2>7 DEF GoingInv
<1>4. QED BY <1>2, <1>3 DEF CreateParent

LEMMA ScheduleZoneGoes ==
  ASSUME IInv, GoingInv, Unharmed, [Next]_vars, NEW z \in Zones, ScheduleZone(z)
  PROVE  GoingInv'
<1>1. /\ sched.at = "next" /\ z \in sched.todo
      /\ UNCHANGED <<scope, job, rival, exec, named, runner, report, harm>>
  BY DEF ScheduleZone
<1>2. /\ ~Dangling /\ ~Over /\ job.status = "PENDING" /\ TypeOK /\ "baseline" \in Phase
      /\ \A y \in Zones, p \in Phase : task[<<y, p>>] # "deleted"
      /\ \A y \in Zones : <<y, "deep">> \notin named
  BY <1>1, ScheduleFacts
<1>3. /\ task' = [task EXCEPT ![<<z, "baseline">>] = "PENDING"]
      /\ sched'.at = "name" /\ sched'.new = {z}
  BY <1>1, <1>2 DEF ScheduleZone
<1>4. \A y \in Zones, p \in Phase :
        task'[<<y, p>>] = IF y = z /\ p = "baseline" THEN "PENDING" ELSE task[<<y, p>>]
  BY <1>2, <1>3, Tasks DEF TypeOK
<1>5. <<z, "baseline">> \notin named
  BY <1>1 DEF IInv, SchedInv, Served
<1>6. \A y \in Zones : Served(y)' <=> Served(y)
  BY <1>1 DEF Served
<1>7. QED BY <1>1, <1>2, <1>3, <1>4, <1>5, <1>6, ScheduleGoes

(* The name makes the task one that a poll finds. *)
LEMMA ScheduleNameGoes ==
  ASSUME IInv, GoingInv, Unharmed, [Next]_vars, NEW z \in Zones, ScheduleName(z)
  PROVE  GoingInv'
<1>1. /\ sched.at = "name" /\ z \in sched.new
      /\ UNCHANGED <<scope, job, rival, exec, task, runner, report, harm>>
  BY DEF ScheduleName
<1>2. /\ ~Over /\ job.status = "PENDING" /\ sched \in Sched /\ scope = "zones"
      /\ "baseline" \in Phase
      /\ \A y \in Zones, p \in Phase : task[<<y, p>>] # "deleted"
      /\ \A y \in Zones : <<y, "deep">> \notin named
  BY <1>1, ScheduleFacts
<1>3. /\ named' = named \cup {<<z, "baseline">>}
      /\ sched' = [sched EXCEPT !.at = "next", !.new = {}, !.added = {z}]
  BY <1>2 DEF ScheduleName
<1>4. sched'.at = "next" /\ sched'.new = {}
  BY <1>2, <1>3 DEF Sched
<1>5. task[<<z, "baseline">>] = "PENDING"
  BY <1>1, <1>2, ZoneFacts DEF LinkOK
<1>6. \A y \in Zones : Served(y)' => Served(y) \/ y = z
  BY <1>3 DEF Served
<1>7. \A y \in Zones : <<y, "deep">> \notin named'
  BY <1>2, <1>3
<1>8. QED BY <1>1, <1>2, <1>3, <1>4, <1>5, <1>6, <1>7, ScheduleGoes

(* The last commit stores the execution of the served zone, or ends the job. *)
LEMMA ScheduleEndGoes ==
  ASSUME IInv, GoingInv, Unharmed, [Next]_vars, ScheduleEnd
  PROVE  GoingInv'
<1> DEFINE st == IF \E z \in Zones : Served(z) THEN "RUNNING" ELSE "FAILED"
           new == [job EXCEPT !.status = st]
<1>1. /\ sched.at = "next"
      /\ UNCHANGED <<scope, rival, named, runner, report, harm>>
  BY DEF ScheduleEnd
<1>2. /\ ~Dangling /\ ~Over /\ job.status = "PENDING" /\ TypeOK /\ scope = "zones"
      /\ sched \in Sched /\ job \in Job
      /\ \A y \in Zones, p \in Phase : task[<<y, p>>] # "deleted"
      /\ \A y \in Zones : <<y, "deep">> \notin named
  BY <1>1, ScheduleFacts
<1>3. ~Refused(new)
  BY <1>2 DEF Refused, Active
<1>4. /\ job' = new
      /\ exec' = [z \in Zones |-> IF z \notin sched.added THEN exec[z]
                                  ELSE IF Served(z) THEN Scheduled ELSE Unserved]
      /\ task' = [task EXCEPT ![Parent] = "FAILURE"] \/ task' = task
      /\ RequestEnds(IF sched.lost = {} THEN "done" ELSE "error")
  BY <1>2, <1>3 DEF ScheduleEnd
<1>5. Over' /\ sched'.new = {}
  BY <1>2, <1>4 DEF RequestEnds, Sched, Over
<1>6. job'.status = st /\ job'.status # "none"
  BY <1>2, <1>4 DEF Job
<1> HIDE DEF new
<1>7. \A y \in Zones, p \in Phase : task'[<<y, p>>] = task[<<y, p>>]
  <2>1. CASE task' = task
    BY <2>1
  <2>2. CASE task' = [task EXCEPT ![Parent] = "FAILURE"]
    BY <1>2, <2>2, Tasks DEF TypeOK
  <2>3. QED BY <1>4, <2>1, <2>2
<1>8. ASSUME NEW y \in Zones, Served(y)
      PROVE  ScriptOK(y)' /\ LinkOK(y)' /\ Promise(y)'
  <2>1. /\ ScriptOK(y) /\ Promise(y) /\ ReportOK(y)
        /\ report[y]["success"].at = "idle" /\ report[y]["failure"].at = "idle"
        /\ runner[y].at \notin {"wait", "failing"}
    BY <1>2, <1>8, ZoneFacts DEF LinkOK, ScriptOK, Busy, Kind
  <2>2. y \in sched.added
    BY <1>1, <1>8 DEF IInv, SchedInv, Unharmed, Orphans
  <2>3. exec'[y].task = "baseline"
    BY <1>4, <1>8, <2>2, FirstRows
  <2>4. PICK p \in Phase : <<y, p>> \in named /\ Ahead(y, p)
    BY <2>1 DEF Promise
  <2>5. <<y, p>> \in named' /\ Ahead(y, p)'
    BY <1>1, <1>7, <2>4 DEF Ahead
  <2>6. Promise(y)'
    BY <2>5 DEF Promise
  <2>7. ScriptOK(y)'
    BY <1>1, <1>2, <1>5, <1>7, <2>1 DEF ScriptOK
  <2>8. LinkOK(y)'
    BY <1>1, <1>2, <1>5, <2>1, <2>3, <2>6 DEF LinkOK
  <2>9. QED BY <2>6, <2>7, <2>8
<1>9. ASSUME NEW y \in Zones, ~Served(y)  PROVE ScriptOK(y)' /\ LinkOK(y)'
  <2>1. exec[y].status = "none"
    BY <1>2, ZoneFacts DEF ExecOK
  <2>2. exec'[y] \in {exec[y], Unserved}
    BY <1>4, <1>9
  <2>3. ~IsOpen(y)'
    BY <2>1, <2>2, FirstRows DEF IsOpen
  <2>4. /\ <<y, "baseline">> \notin named
        /\ \A p \in Phase : task'[<<y, p>>] # "deleted" /\ <<y, p>> \notin named'
    BY <1>1, <1>2, <1>7, <1>9 DEF Served, Phase
  <2>5. QED BY <1>1, <1>5, <2>3, <2>4, FreshKept
<1>10. ASSUME NEW y \in Zones, NEW k \in Kind  PROVE ClashOK(y, k)'
  BY <1>1, ClashKept
<1>11. JobOK' /\ PromiseInv'
  BY <1>5, <1>6, <1>8 DEF JobOK, PromiseInv, Ended
<1>12. QED BY <1>8, <1>9, <1>10, <1>11 DEF GoingInv

-----------------------------------------------------------------------------
(* The specification keeps the promise. *)

LEMMA InitGoing == Init => GoingInv
<1> SUFFICES ASSUME Init  PROVE GoingInv
  OBVIOUS
<1>1. /\ scope \in Scopes /\ exec = [z \in Zones |-> NoExecution]
      /\ task = [t \in Task |-> "none"] /\ named = {}
      /\ sched = [at |-> "idle", todo |-> {}, new |-> {}, added |-> {}, lost |-> {}]
      /\ runner = [z \in Zones |-> [at |-> "loop", phase |-> "baseline"]]
      /\ report = [z \in Zones |-> [k \in Kind |-> NoReport]]
  BY DEF Init
<1>2. sched.at = "idle" /\ sched.new = {} /\ ~Over
  BY <1>1 DEF Over
<1>3. ASSUME NEW z \in Zones
      PROVE  /\ runner[z].at = "loop" /\ exec[z].status = "none"
             /\ \A p \in Phase : task[<<z, p>>] = "none"
             /\ \A k \in Kind : report[z][k] = NoReport
  BY <1>1, FirstRows, Tasks
<1>4. NoReport.at = "idle" /\ ~NoReport.clash /\ "success" \in Kind /\ "failure" \in Kind
  BY DEF NoReport, Kind
<1>5. ASSUME NEW z \in Zones
      PROVE  ScriptOK(z) /\ LinkOK(z) /\ \A k \in Kind : ClashOK(z, k)
  <2>1. ScriptOK(z)
    BY <1>1, <1>3, <1>4 DEF ScriptOK, Busy
  <2>2. LinkOK(z)
    BY <1>1, <1>2, <1>3, <1>4 DEF LinkOK, IsOpen, Served
  <2>3. \A k \in Kind : ClashOK(z, k)
    BY <1>3, <1>4 DEF ClashOK, Finishing
  <2>4. QED BY <2>1, <2>2, <2>3
<1>6. QED BY <1>2, <1>5 DEF GoingInv, JobOK, PromiseInv

LEMMA NextGoing == IInv /\ GoingInv /\ [Next]_vars => GoingInv'
<1> SUFFICES ASSUME IInv, GoingInv, [Next]_vars  PROVE GoingInv'
  OBVIOUS
<1>1. SUFFICES ASSUME Unharmed'  PROVE GoingInv'
  BY DEF GoingInv
<1>2. harm' = "none" /\ Orphans = {}
  BY <1>1, StepGrows DEF Unharmed, Orphans, Grows, Served
<1>3. CASE harm # "none"
  <2>1. ASSUME Schedule  PROVE UNCHANGED harm
    BY <2>1 DEF Schedule, CreateJob, CreateParent, ScheduleUnserved, ScheduleZone,
       ScheduleName, ScheduleEnd
  <2>2. ASSUME NEW z \in Zones, RunnerActs(z) \/ Lose(z) \/ GiveUp(z)  PROVE UNCHANGED harm
    BY <1>3, <2>2 DEF RunnerActs, Fetch, Assign, Assigned, ScanSucceeds, ScanFails, BackToLoop,
       ReportFailureInstead, MayBeEarly, TooLate, Lose, GiveUp
  <2>3. ASSUME NEW z \in Zones, NEW k \in Kind, ReportActs(z, k)  PROVE UNCHANGED harm
    BY <2>3 DEF ReportActs, ReportExecution, ReportRead, ReportAggregate, ReportAggregateFails,
       ReportFinal, FollowupCreate, FollowupContext, FollowupSwap
  <2>4. ASSUME NEW t \in Task, Cancel(t) \/ Sweep(t) \/ Clear(t)  PROVE FALSE
    BY <1>3, <2>4 DEF Cancel, Sweep, CloseTask, Clear
  <2>5. ASSUME RivalStarts \/ RivalEnds \/ UNCHANGED vars  PROVE UNCHANGED harm
    BY <2>5 DEF RivalStarts, RivalEnds, vars
  <2>6. UNCHANGED harm
    BY <2>1, <2>2, <2>3, <2>4, <2>5 DEF Next
  <2>7. QED BY <1>2, <1>3, <2>6
<1>4. SUFFICES ASSUME Unharmed  PROVE GoingInv'
  BY <1>3, <1>2 DEF Unharmed
<1>5. CASE Unharmed
  <2>1. CASE Schedule
    BY <1>5, <2>1, CreateJobGoes, CreateParentGoes, ScheduleUnservedGoes, ScheduleZoneGoes,
       ScheduleNameGoes, ScheduleEndGoes DEF Schedule
  <2>2. ASSUME NEW z \in Zones, RunnerActs(z) \/ Lose(z) \/ GiveUp(z)  PROVE GoingInv'
    <3>1. CASE RunnerActs(z)
      BY <1>5, <3>1, FetchGoes, AssignGoes, AssignedGoes, ScanGoes, BackToLoopGoes,
         FailureInsteadGoes DEF RunnerActs
    <3>2. CASE Lose(z) \/ GiveUp(z)
      BY <1>2, <3>2 DEF Lose, GiveUp, TooLate
    <3>3. QED BY <2>2, <3>1, <3>2
  <2>3. ASSUME NEW z \in Zones, NEW k \in Kind, ReportActs(z, k)  PROVE GoingInv'
    BY <1>5, <2>3, ReportExecutionGoes, ReportReadGoes, ReportAggregateGoes,
       ReportAggregateFailsGoes, ReportFinalGoes, FollowupCreateGoes, FollowupContextGoes,
       FollowupSwapGoes DEF ReportActs
  <2>4. ASSUME NEW t \in Task, Cancel(t) \/ Sweep(t) \/ Clear(t)  PROVE FALSE
    BY <1>2, <2>4 DEF Cancel, Sweep, CloseTask, Clear
  <2>5. CASE RivalStarts \/ RivalEnds \/ UNCHANGED vars
    <3>1. UNCHANGED <<scope, job, exec, task, named, sched, runner, report>>
      BY <2>5 DEF RivalStarts, RivalEnds, vars, rows
    <3>2. ASSUME NEW z \in Zones
          PROVE  /\ ScriptOK(z)' /\ LinkOK(z)' /\ \A k \in Kind : ClashOK(z, k)'
                 /\ Promise(z)' <=> Promise(z)
      <4>1. SameZone(z)
        BY <3>1 DEF SameZone
      <4>2. ScriptOK(z) /\ LinkOK(z)
        BY <1>5, ZoneFacts
      <4>3. \A k \in Kind : ClashOK(z, k)'
        BY <1>5, <3>1, ClashKept
      <4>4. QED BY <3>1, <4>1, <4>2, <4>3, ZoneKept
    <3>3. JobOK /\ PromiseInv
      BY <1>5 DEF GoingInv
    <3>4. JobOK' /\ PromiseInv'
      BY <3>1, <3>2, <3>3 DEF JobOK, PromiseInv, Over
    <3>5. QED BY <3>2, <3>4 DEF GoingInv
  <2>6. QED BY <2>1, <2>2, <2>3, <2>4, <2>5 DEF Next
<1>6. QED BY <1>4, <1>5

(* A runner that is not in its loop, and one that finds a task, may go on. *)
LEMMA BusyRunnerGoesOn ==
  ASSUME IInv, GoingInv, Unharmed, NEW z \in Zones, Promise(z)
  PROVE  JobMayGoOn
<1>1. /\ ScriptOK(z) /\ ReportOK(z) /\ RunnerOK(z) /\ runner[z].at \in RunnerStep
      /\ Busy(z, "success") <=> runner[z].at = "wait"
      /\ Busy(z, "failure") <=> runner[z].at = "failing"
      /\ TypeOK /\ "success" \in Kind /\ "failure" \in Kind
  BY ZoneFacts DEF Kind
<1>2. report[z]["success"].at \in ReportStep /\ report[z]["failure"].at \in ReportStep
  BY <1>1 DEF TypeOK, Report
<1>3. CASE runner[z].at = "loop"
  BY <1>3 DEF Promise, Ahead, JobMayGoOn, RunnerMayGoOn
<1>4. CASE runner[z].at \in {"fetched", "assigned", "scan"}
  BY <1>1, <1>4 DEF Busy, JobMayGoOn, RunnerMayGoOn
<1>5. CASE runner[z].at = "wait"
  <2>1. report[z]["success"].at # "idle" /\ report[z]["failure"].at = "idle"
    BY <1>1, <1>5 DEF Busy
  <2>2. RunnerMayGoOn(z) \/ ReportMayGoOn(z, "success")
    BY <1>2, <1>5, <2>1 DEF RunnerMayGoOn, ReportMayGoOn, ScriptEnds, ReportStep
  <2>3. QED BY <1>1, <2>2 DEF JobMayGoOn
<1>6. CASE runner[z].at = "failing"
  <2>1. RunnerMayGoOn(z) \/ ReportMayGoOn(z, "failure")
    BY <1>1, <1>2, <1>6 DEF RunnerMayGoOn, ReportMayGoOn, ScriptEnds, Answered, ReportStep,
       ScriptOK
  <2>2. QED BY <1>1, <2>1 DEF JobMayGoOn
<1>7. QED BY <1>1, <1>3, <1>4, <1>5, <1>6 DEF RunnerStep

(***************************************************************************)
(* A job that did not end has a step to take, as long as no task was taken *)
(* from it, no call was lost, early or too late, and no zone with a task   *)
(* lost its execution: the runners and their reports never end up waiting  *)
(* for each other, for any set of zones.                                   *)
(***************************************************************************)
THEOREM NoJobIsForgotten == Spec => []NotForgotten
<1>1. Init => IInv /\ GoingInv
  BY InitInv, InitGoing
<1>2. IInv /\ GoingInv /\ [Next]_vars => IInv' /\ GoingInv'
  BY NextInv, NextGoing
<1>3. IInv /\ GoingInv => NotForgotten
  <2> SUFFICES ASSUME IInv, GoingInv, Unharmed, job.status \notin Ended
               PROVE  JobMayGoOn
    BY DEF NotForgotten, Unharmed
  <2>1. sched.at \in SchedStep /\ SchedInv /\ PromiseInv
    BY DEF IInv, TypeOK, Sched, GoingInv
  <2>2. CASE Over
    BY <2>1, <2>2, BusyRunnerGoesOn DEF PromiseInv
  <2>3. CASE ~Over
    BY <2>1, <2>3 DEF Over, SchedInv, SchedStep, JobMayGoOn, ScheduleMayGoOn
  <2>4. QED BY <2>2, <2>3
<1>4. QED BY <1>1, <1>2, <1>3, PTL DEF Spec


=============================================================================
