------------------------- MODULE RemediationProofs -------------------------
(***************************************************************************)
(* Proofs about Remediation, for every number of sessions, tasks, stages   *)
(* and clients: type correctness, what the runner receives and how often,  *)
(* that stale commits invent no progress and withdraw no verdict, and that *)
(* one read of a session repairs it completely.                            *)
(***************************************************************************)
EXTENDS Remediation, TLAPS, FiniteSetTheorems, SequenceTheorems

(***************************************************************************)
(* The inductive invariant.  Rows and tasks in it are parameters, so that  *)
(* it speaks of the rows that requests hold as well as of those saved.     *)
(***************************************************************************)
Begun(T, s, k) == \E t \in DOMAIN T : T[t].session = s /\ T[t].stage = k /\ T[t].ran

Approved(T, s, k) ==
  \E t \in DOMAIN T :
    T[t].session = s /\ T[t].stage = k /\ T[t].mode = "apply" /\ T[t].context

(* Row row may be the row of session s as far as the tasks T justify it. *)
Earned(T, s, row) ==
  /\ \A k \in row.completed : Begun(T, s, k)
  /\ row.running # None => Approved(T, s, row.running)
  /\ row.last # None =>
       row.last \in DOMAIN T /\ T[row.last].session = s /\ T[row.last].context

SessionOK(T, s, row) ==
  Earned(T, s, row) /\ (row.status = "absent" => row.completed = {})

(* A dry run is PENDING only before its context, so the runner never sees it. *)
TaskOK(t) ==
  /\ t.ran => t.mode = "apply" /\ t.context
  /\ t.status = "PENDING" => ~t.ran
  /\ t.mode = "dry_run" /\ t.context => t.status \notin Active
  /\ t.business # "none" => t.ran

(* What a transaction read and what it is going to write. *)
Pending(T, s, view, out) ==
  /\ Earned(T, s, view) /\ Earned(T, s, out)
  /\ view.completed \subseteq out.completed
  /\ view.status # "absent" /\ out.status # "absent"

(* The runner holds an approved task, which it received unless just polled. *)
JobOK(T, j) ==
  /\ j.at # "idle" =>
       /\ j.task \in DOMAIN T /\ T[j.task].mode = "apply" /\ T[j.task].context
       /\ T[j.task].ran <=> j.at # "polled"
  /\ j.at = "commit" => Pending(T, T[j.task].session, j.view, j.out)

RequestOK(T, S, r) ==
  /\ r.op \in {"get", "ai", "apply", "dry_run", "context", "submit"} => r.session # 0
  /\ r.op \in {"get", "ai", "create", "apply", "dry_run"} /\ r.session # 0 =>
       S[r.session].status # "absent" /\ Pending(T, r.session, r.view, r.out)
  /\ r.op \in {"apply", "dry_run"} => ReadyStages(r.out.plan) # {}
  /\ r.op = "create" /\ r.new # NoSession =>
       /\ r.new.completed = {} /\ r.new.running = None /\ r.new.last = None
       /\ r.new.status # "absent"
  /\ r.op \in {"context", "submit"} =>
       r.task \in DOMAIN T /\ T[r.task].session = r.session
  /\ r.op = "submit" => T[r.task].context

TaskInv ==
  \A t \in DOMAIN task : TaskOK(task[t]) /\ sess[task[t].session].status # "absent"
ReverifyInv == \A t \in Task : reverify[t] # "none" => t \in DOMAIN task /\ task[t].ran
SessionInv == \A s \in Session : SessionOK(task, s, sess[s])
RequestInv == \A c \in Clients : RequestOK(task, sess, req[c])

IInv == TypeOK /\ TaskInv /\ ReverifyInv /\ SessionInv /\ JobOK(task, job) /\ RequestInv

-----------------------------------------------------------------------------
(* A set of numbers that is not empty has a least one. *)
LEMMA LeastNumber ==
  ASSUME NEW S, S \subseteq Nat, S # {}
  PROVE  MinOf(S) \in S /\ \A j \in S : MinOf(S) <= j
<1> DEFINE Below(k) == {j \in Nat : j < k}
           T == {Below(k) : k \in S}
<1>1. \A k \in S : IsFiniteSet(Below(k))
  <2> SUFFICES ASSUME NEW k \in S  PROVE IsFiniteSet(Below(k))
    OBVIOUS
  <2>1. k \in Nat /\ Below(k) = 0..(k-1)
    OBVIOUS
  <2>2. IsFiniteSet(0..(k-1))
    BY <2>1, FS_Interval
  <2>3. QED BY <2>1, <2>2
<1>2. T \subseteq FiniteSubsetsOf(Nat) /\ T # {}
  BY <1>1 DEF FiniteSubsetsOf
<1>3. \E x \in T : \A y \in T : <<y, x>> \notin StrictSubsetOrdering(Nat)
  <2> HIDE DEF T
  <2>1. QED BY <1>2, WFMin, FS_StrictSubsetOrderingWellFounded
<1>4. PICK k \in S : \A y \in T : <<y, Below(k)>> \notin StrictSubsetOrdering(Nat)
  BY <1>3
<1>5. ASSUME NEW j \in S  PROVE k <= j
  <2>1. <<Below(j), Below(k)>> \notin StrictSubsetOrdering(Nat)
    BY <1>4
  <2>2. CASE j < k
    <3>1. Below(j) \subseteq Below(k) /\ j \in Below(k) /\ j \notin Below(j)
      BY <2>2
    <3>2. QED BY <2>1, <3>1 DEF StrictSubsetOrdering
  <2>3. QED BY <2>2
<1>6. QED BY <1>5 DEF MinOf

-----------------------------------------------------------------------------
(* The rows the code starts from. *)
LEMMA FirstRows ==
  /\ NewSession \in SessionRow /\ NoSession \in SessionRow
  /\ NewSession.completed = {} /\ NewSession.running = None
  /\ NewSession.last = None /\ NewSession.status = "draft"
  /\ NoSession.status = "absent" /\ NoSession.completed = {}
  /\ NoSession.running = None /\ NoSession.last = None
  /\ NoRequest \in RequestRow /\ NoJob \in JobRow /\ NoPlan \in Plan
<1>1. NoPlan \in Plan
  BY DEF NoPlan, Plan, Gate, PlanMode
<1>2. NewSession \in SessionRow
  BY <1>1, RemediationAssumption DEF NewSession, SessionRow, SessionStatus, None
<1>3. NoSession \in SessionRow
  BY <1>2 DEF NoSession, SessionRow, SessionStatus
<1>4. NoRequest \in RequestRow
  BY <1>3, RemediationAssumption DEF NoRequest, RequestRow, RequestOp, None
<1>5. NoJob \in JobRow
  BY <1>3, RemediationAssumption DEF NoJob, JobRow, JobStep, None
<1>6. QED BY <1>1, <1>2, <1>3, <1>4, <1>5 DEF NewSession, NoSession

(* What a plan is cached for is a snapshot. *)
LEMMA SnapshotTyped ==
  ASSUME TypeOK, NEW row \in SessionRow, NEW host \in HostStatus
  PROVE  SnapshotOf(row, host) \in Snapshot
BY DEF TypeOK, SnapshotOf, Snapshot, SessionRow

(* Every phase of a plan gets one of the gates. *)
LEMMA GateTyped ==
  ASSUME TypeOK, NEW row \in SessionRow, NEW host \in HostStatus, NEW k \in Stage
  PROVE  GateOf(row, host, k) \in Gate
BY RemediationAssumption DEF TypeOK, GateOf, Gate

(* Every plan gets one of the modes. *)
LEMMA ModeTyped ==
  ASSUME NEW row \in SessionRow, NEW gates
  PROVE  ModeOf(row, gates) \in PlanMode
BY DEF ModeOf, PlanMode, SessionRow

(* Computed or cached, the plan of a row is a plan. *)
LEMMA PlanTyped ==
  ASSUME TypeOK, NEW row \in SessionRow, NEW host \in HostStatus
  PROVE  BuildHostPlan(row, host) \in Plan /\ ResolveSessionPlan(row, host) \in Plan
<1>1. BuildHostPlan(row, host) \in Plan
  BY GateTyped, ModeTyped DEF BuildHostPlan, Plan
<1>2. row.plan \in Plan
  BY DEF SessionRow
<1>3. QED BY <1>1, <1>2 DEF ResolveSessionPlan

(* A listed task is a task row, and its number a number of a task. *)
LEMMA TaskTyped ==
  ASSUME TypeOK, NEW t \in DOMAIN task
  PROVE  task[t] \in TaskRow /\ t \in 1..Len(task) /\ t \in Task /\ t # None
<1>1. Len(task) \in Nat /\ DOMAIN task = 1..Len(task)
  BY LenProperties DEF TypeOK
<1>2. task[t] \in TaskRow
  BY <1>1, ElementOfSeq DEF TypeOK
<1>3. QED BY <1>1, <1>2, RemediationAssumption DEF TypeOK, Task, None

(* Only the progress of a row changes. *)
WithProgress(row, C, n) == [row EXCEPT !.completed = C, !.running = n]

(* The other columns of a row keep their values. *)
LEMMA ProgressChanges ==
  ASSUME NEW row \in SessionRow, NEW C \in SUBSET Stage, NEW n \in 0..NumStages
  PROVE  /\ WithProgress(row, C, n) \in SessionRow
         /\ WithProgress(row, C, n).completed = C
         /\ WithProgress(row, C, n).running = n
         /\ WithProgress(row, C, n).status = row.status
         /\ WithProgress(row, C, n).last = row.last
         /\ WithProgress(row, C, n).plan = row.plan
         /\ WithProgress(row, C, n).snap = row.snap
<1>1. WithProgress(row, C, n) \in SessionRow
  BY DEF SessionRow, WithProgress
<1>2. /\ WithProgress(row, C, n).completed = C
      /\ WithProgress(row, C, n).running = n
  BY DEF SessionRow, WithProgress
<1>3. /\ WithProgress(row, C, n).status = row.status
      /\ WithProgress(row, C, n).last = row.last
  BY DEF SessionRow, WithProgress
<1>4. /\ WithProgress(row, C, n).plan = row.plan
      /\ WithProgress(row, C, n).snap = row.snap
  BY DEF SessionRow, WithProgress
<1>5. QED BY <1>1, <1>2, <1>3, <1>4

(* The last task is in progress or waits for its verdict; it closed its stage. *)
Busy(t) == t.status \in Active \/ (t.status = "SUCCESS" /\ t.business = "pending")
Closed(t) == t.status = "SUCCESS" /\ t.mode = "apply" /\ t.business = "closed"

(***************************************************************************)
(* Reconcile changes the progress only: the stage of the last task is      *)
(* added to the completed ones after a verdict "closed", and it is running *)
(* exactly as long as that task or its re-verification is.                 *)
(***************************************************************************)
LEMMA ReconcileTyped ==
  ASSUME TypeOK, NEW row \in SessionRow, HasLastTask(row) => row.last \in DOMAIN task
  PROVE  LET r == Reconcile(row)
             t == task[row.last]
         IN  /\ r \in SessionRow
             /\ r.status = row.status /\ r.last = row.last
             /\ r.plan = row.plan /\ r.snap = row.snap
             /\ ~HasLastTask(row) => r = row
             /\ HasLastTask(row) =>
                  /\ Closed(t) => r.completed = row.completed \cup {t.stage}
                  /\ ~Closed(t) => r.completed = row.completed
                  /\ Busy(t) => r.running = t.stage
                  /\ ~Busy(t) /\ row.running = t.stage => r.running = None
                  /\ ~Busy(t) /\ row.running # t.stage => r.running = row.running
<1>1. CASE ~HasLastTask(row)
  BY <1>1 DEF Reconcile
<1>2. CASE HasLastTask(row)
  <2> DEFINE t == task[row.last]
             cleared == IF row.running = t.stage THEN None ELSE row.running
             done == IF Closed(t) THEN row.completed \cup {t.stage} ELSE row.completed
             now == IF Busy(t) THEN t.stage ELSE cleared
  <2>1. t \in TaskRow
    BY <1>2, TaskTyped
  <2>2. t.stage \in Stage /\ t.stage \in 0..NumStages /\ None \in 0..NumStages
    BY <2>1, RemediationAssumption DEF TaskRow, Stage, None
  <2>3. done \in SUBSET Stage /\ now \in 0..NumStages
    BY <2>2 DEF SessionRow
  <2>4. Reconcile(row) = WithProgress(row, done, now)
    <3>1. CASE t.status \in Active
      <4>1. Reconcile(row) = [row EXCEPT !.running = t.stage]
        BY <1>2, <3>1 DEF Reconcile, Active
      <4>2. Busy(t) /\ ~Closed(t)
        BY <3>1 DEF Active, Busy, Closed
      <4>3. [row EXCEPT !.running = t.stage] = WithProgress(row, row.completed, t.stage)
        BY DEF SessionRow, WithProgress
      <4>4. QED BY <4>1, <4>2, <4>3
    <3>2. CASE t.status = "SUCCESS"
      <4>1. t.status \notin Active
        BY <3>2 DEF Active
      <4>2. QED BY <1>2, <3>2, <4>1 DEF Reconcile, WithProgress, Busy, Closed
    <3>3. CASE t.status \notin Active /\ t.status # "SUCCESS"
      <4>1. Reconcile(row) = [row EXCEPT !.running = cleared]
        BY <1>2, <3>3 DEF Reconcile
      <4>2. ~Busy(t) /\ ~Closed(t)
        BY <3>3 DEF Busy, Closed
      <4>3. [row EXCEPT !.running = cleared] = WithProgress(row, row.completed, cleared)
        BY DEF SessionRow, WithProgress
      <4>4. QED BY <4>1, <4>2, <4>3
    <3>4. QED BY <3>1, <3>2, <3>3
  <2> DEFINE r == Reconcile(row)
  <2>5. /\ r \in SessionRow /\ r.status = row.status /\ r.last = row.last
        /\ r.plan = row.plan /\ r.snap = row.snap
        /\ r.completed = done /\ r.running = now
    <3> HIDE DEF done, now
    <3>1. QED BY <2>3, <2>4, ProgressChanges
  <2>6. /\ Closed(t) => done = row.completed \cup {t.stage}
        /\ ~Closed(t) => done = row.completed
        /\ Busy(t) => now = t.stage
        /\ ~Busy(t) /\ row.running = t.stage => now = None
        /\ ~Busy(t) /\ row.running # t.stage => now = row.running
    OBVIOUS
  <2> HIDE DEF done, now, r
  <2>7. /\ Closed(t) => r.completed = row.completed \cup {t.stage}
        /\ ~Closed(t) => r.completed = row.completed
        /\ Busy(t) => r.running = t.stage
        /\ ~Busy(t) /\ row.running = t.stage => r.running = None
        /\ ~Busy(t) /\ row.running # t.stage => r.running = row.running
    BY <2>5, <2>6
  <2>8. QED
    BY <1>2, <2>5, <2>7 DEF r
<1>3. QED BY <1>1, <1>2

(* The plan and its snapshot are stored and nothing else changes. *)
LEMMA PersistTyped ==
  ASSUME TypeOK, NEW row \in SessionRow, NEW host \in HostStatus, NEW plan \in Plan
  PROVE  /\ PersistSnapshot(row, plan, host) \in SessionRow
         /\ PersistSnapshot(row, plan, host).plan = plan
         /\ PersistSnapshot(row, plan, host).snap = {SnapshotOf(row, host)}
         /\ PersistSnapshot(row, plan, host).status = row.status
         /\ PersistSnapshot(row, plan, host).last = row.last
         /\ PersistSnapshot(row, plan, host).completed = row.completed
         /\ PersistSnapshot(row, plan, host).running = row.running
<1> DEFINE shot == SnapshotOf(row, host)
<1>1. shot \in Snapshot
  BY SnapshotTyped
<1> HIDE DEF shot
<1>2. PersistSnapshot(row, plan, host) = [row EXCEPT !.plan = plan, !.snap = {shot}]
  BY DEF PersistSnapshot, shot
<1>3. [row EXCEPT !.plan = plan, !.snap = {shot}] \in SessionRow
  BY <1>1 DEF SessionRow
<1>4. /\ [row EXCEPT !.plan = plan, !.snap = {shot}].plan = plan
      /\ [row EXCEPT !.plan = plan, !.snap = {shot}].snap = {shot}
      /\ [row EXCEPT !.plan = plan, !.snap = {shot}].status = row.status
      /\ [row EXCEPT !.plan = plan, !.snap = {shot}].last = row.last
  BY DEF SessionRow
<1>5. /\ [row EXCEPT !.plan = plan, !.snap = {shot}].completed = row.completed
      /\ [row EXCEPT !.plan = plan, !.snap = {shot}].running = row.running
  BY DEF SessionRow
<1>6. QED BY <1>2, <1>3, <1>4, <1>5 DEF shot

(* The last task gives a session a status other than "absent". *)
LEMMA StatusTyped ==
  ASSUME TypeOK, NEW row \in SessionRow, NEW plan \in Plan,
         HasLastTask(row) => row.last \in DOMAIN task
  PROVE  StatusFromTask(row, plan) \in SessionStatus \ {"absent"}
<1>1. CASE ~HasLastTask(row)
  BY <1>1 DEF StatusFromTask, SessionStatus
<1>2. CASE HasLastTask(row)
  <2>1. task[row.last] \in TaskRow
    BY <1>2, TaskTyped
  <2>2. task[row.last].status \in {"PENDING", "RUNNING", "SUCCESS", "FAILURE", "CANCELED"}
    BY <1>2, <2>1 DEF HasLastTask, TaskRow, Active, Terminal
  <2>3. task[row.last].business \in {"none", "pending", "closed", "partial", "failed"}
    BY <2>1 DEF TaskRow, Verdict
  <2>4. QED
    BY <1>2, <2>2, <2>3 DEF StatusFromTask, SessionStatus, Active
<1>3. QED BY <1>1, <1>2

(* The synchronization sets the status and forgets a deleted task. *)
LEMMA SynchronizeTyped ==
  ASSUME TypeOK, NEW row \in SessionRow, NEW plan \in Plan,
         HasLastTask(row) => row.last \in DOMAIN task
  PROVE  /\ Synchronize(row, plan) \in SessionRow
         /\ Synchronize(row, plan).status =
              IF plan.mode \in {"completed", "failed", "running"}
                THEN plan.mode ELSE StatusFromTask(row, plan)
         /\ Synchronize(row, plan).status # "absent"
         /\ Synchronize(row, plan).last = IF HasLastTask(row) THEN row.last ELSE None
         /\ Synchronize(row, plan).completed = row.completed
         /\ Synchronize(row, plan).running = row.running
         /\ Synchronize(row, plan).plan = row.plan
         /\ Synchronize(row, plan).snap = row.snap
<1> DEFINE status == IF plan.mode \in {"completed", "failed", "running"}
                       THEN plan.mode ELSE StatusFromTask(row, plan)
           last == IF HasLastTask(row) THEN row.last ELSE None
<1>1. status \in SessionStatus \ {"absent"}
  BY StatusTyped DEF SessionStatus
<1>2. last \in 0..MaxTasks
  BY RemediationAssumption DEF SessionRow, None
<1>3. Synchronize(row, plan) = [row EXCEPT !.last = last, !.status = status]
  BY DEF Synchronize
<1> HIDE DEF status, last
<1>4. [row EXCEPT !.last = last, !.status = status] \in SessionRow
  BY <1>1, <1>2 DEF SessionRow
<1>5. /\ [row EXCEPT !.last = last, !.status = status].last = last
      /\ [row EXCEPT !.last = last, !.status = status].status = status
      /\ [row EXCEPT !.last = last, !.status = status].completed = row.completed
      /\ [row EXCEPT !.last = last, !.status = status].running = row.running
  BY DEF SessionRow
<1>6. /\ [row EXCEPT !.last = last, !.status = status].plan = row.plan
      /\ [row EXCEPT !.last = last, !.status = status].snap = row.snap
  BY DEF SessionRow
<1>7. QED BY <1>1, <1>3, <1>4, <1>5, <1>6 DEF status, last

(***************************************************************************)
(* A refresh keeps the progress that the reconciliation gives, forgets the *)
(* last task only if it is gone, and stores the plan it found.             *)
(***************************************************************************)
LEMMA RefreshTyped ==
  ASSUME TypeOK, NEW row \in SessionRow, NEW host \in HostStatus,
         HasLastTask(row) => row.last \in DOMAIN task
  PROVE  LET r == Reconcile(row)
             plan == ResolveSessionPlan(r, host)
             kept == PersistSnapshot(r, plan, host)
             new == Refresh(row, host)
         IN  /\ new \in SessionRow /\ new.status # "absent"
             /\ new.completed = r.completed /\ new.running = r.running
             /\ new.last = IF HasLastTask(row) THEN row.last ELSE None
             /\ new.plan = plan /\ new.snap = {SnapshotOf(r, host)}
             /\ new.status = IF plan.mode \in {"completed", "failed", "running"}
                               THEN plan.mode ELSE StatusFromTask(kept, plan)
<1> DEFINE r == Reconcile(row)
           plan == ResolveSessionPlan(r, host)
           kept == PersistSnapshot(r, plan, host)
<1>1. r \in SessionRow /\ r.last = row.last
  BY ReconcileTyped
<1>2. HasLastTask(r) <=> HasLastTask(row)
  BY <1>1 DEF HasLastTask
<1>3. plan \in Plan
  BY <1>1, PlanTyped
<1>4. Refresh(row, host) = Synchronize(kept, plan)
  BY DEF Refresh
<1> HIDE DEF r, plan
<1>5. /\ kept \in SessionRow /\ kept.plan = plan /\ kept.snap = {SnapshotOf(r, host)}
      /\ kept.last = r.last /\ kept.completed = r.completed /\ kept.running = r.running
  BY <1>1, <1>3, PersistTyped
<1> HIDE DEF kept
<1>6. HasLastTask(kept) <=> HasLastTask(row)
  BY <1>2, <1>5 DEF HasLastTask
<1>7. /\ Synchronize(kept, plan) \in SessionRow
      /\ Synchronize(kept, plan).status =
           IF plan.mode \in {"completed", "failed", "running"}
             THEN plan.mode ELSE StatusFromTask(kept, plan)
      /\ Synchronize(kept, plan).status # "absent"
      /\ Synchronize(kept, plan).last = IF HasLastTask(row) THEN kept.last ELSE None
      /\ Synchronize(kept, plan).completed = kept.completed
      /\ Synchronize(kept, plan).running = kept.running
      /\ Synchronize(kept, plan).plan = kept.plan
      /\ Synchronize(kept, plan).snap = kept.snap
  BY <1>1, <1>3, <1>5, <1>6, SynchronizeTyped
<1>8. QED BY <1>1, <1>4, <1>5, <1>7 DEF r, plan, kept

(* The status depends on the row through its last task only. *)
LEMMA StatusFollowsTask ==
  ASSUME NEW row, NEW other, NEW plan, HasLastTask(row) <=> HasLastTask(other),
         HasLastTask(row) => row.last = other.last
  PROVE  StatusFromTask(other, plan) = StatusFromTask(row, plan)
<1> DEFINE idle == IF ReadyStages(plan) # {} THEN "ready" ELSE "draft"
           Of(n) == CASE task[n].status \in Active  -> "running"
                      [] task[n].status = "FAILURE"  -> "failed"
                      [] task[n].status = "CANCELED" -> "canceled"
                      [] task[n].status = "SUCCESS"  ->
                           IF task[n].mode = "dry_run" THEN idle
                           ELSE CASE task[n].business = "pending" -> "running"
                                  [] task[n].business = "failed"  -> "failed"
                                  [] task[n].business = "none"    -> "completed"
                                  [] OTHER                        -> idle
<1>1. ASSUME NEW r, HasLastTask(r)  PROVE StatusFromTask(r, plan) = Of(r.last)
  BY <1>1 DEF StatusFromTask
<1>2. ASSUME NEW r, ~HasLastTask(r)  PROVE StatusFromTask(r, plan) = idle
  BY <1>2 DEF StatusFromTask
<1> HIDE DEF Of
<1>3. QED BY <1>1, <1>2

(***************************************************************************)
(* The repair of a row is complete after one read: a second one with       *)
(* nothing in between finds the progress, the plan and the status as they  *)
(* are.                                                                    *)
(***************************************************************************)
LEMMA RefreshIsComplete ==
  ASSUME TypeOK, NEW row \in SessionRow, NEW host \in HostStatus,
         HasLastTask(row) => row.last \in DOMAIN task
  PROVE  Refresh(Refresh(row, host), host).status = Refresh(row, host).status
<1> DEFINE r1 == Reconcile(row)
           plan1 == ResolveSessionPlan(r1, host)
           kept1 == PersistSnapshot(r1, plan1, host)
           first == Refresh(row, host)
           r2 == Reconcile(first)
           plan2 == ResolveSessionPlan(r2, host)
           kept2 == PersistSnapshot(r2, plan2, host)
           second == Refresh(first, host)
<1>1. /\ first \in SessionRow /\ first.plan = plan1 /\ first.snap = {SnapshotOf(r1, host)}
      /\ first.completed = r1.completed /\ first.running = r1.running
      /\ first.last = IF HasLastTask(row) THEN row.last ELSE None
      /\ first.status = IF plan1.mode \in {"completed", "failed", "running"}
                          THEN plan1.mode ELSE StatusFromTask(kept1, plan1)
  BY RefreshTyped
<1>2. HasLastTask(first) <=> HasLastTask(row)
  BY <1>1 DEF HasLastTask
<1>3. HasLastTask(first) => first.last = row.last /\ first.last \in DOMAIN task
  BY <1>1, <1>2
<1>4. second.status = IF plan2.mode \in {"completed", "failed", "running"}
                        THEN plan2.mode ELSE StatusFromTask(kept2, plan2)
  <2> HIDE DEF first
  <2>1. QED BY <1>1, <1>3, RefreshTyped
<1>5. r1 \in SessionRow /\ r1.last = row.last
  BY ReconcileTyped
<1>6. /\ r2 \in SessionRow /\ r2.last = first.last /\ r2.plan = plan1 /\ r2.snap = first.snap
      /\ r2.completed = first.completed /\ r2.running = first.running
  <2> HIDE DEF first, plan1
  <2>1. /\ r2 \in SessionRow /\ r2.last = first.last
        /\ r2.plan = first.plan /\ r2.snap = first.snap
    BY <1>1, <1>3, ReconcileTyped
  <2>2. r2.completed = first.completed
    <3>1. CASE ~HasLastTask(row)
      BY <1>2, <3>1 DEF Reconcile
    <3>2. CASE HasLastTask(row)
      <4> DEFINE t == task[row.last]
      <4>1. HasLastTask(first) /\ first.last = row.last
        BY <1>2, <1>3, <3>2
      <4>2. Closed(t) => t.stage \in r1.completed
        BY <3>2, ReconcileTyped
      <4>3. /\ Closed(t) => r2.completed = first.completed \cup {t.stage}
            /\ ~Closed(t) => r2.completed = first.completed
        BY <1>1, <1>3, <4>1, ReconcileTyped
      <4> HIDE DEF r1, r2, t
      <4>4. QED BY <1>1, <4>2, <4>3
    <3>3. QED BY <3>1, <3>2
  <2>3. r2.running = first.running
    <3>1. CASE ~HasLastTask(row)
      BY <1>2, <3>1 DEF Reconcile
    <3>2. CASE HasLastTask(row)
      <4> DEFINE t == task[row.last]
      <4>1. HasLastTask(first) /\ first.last = row.last
        BY <1>2, <1>3, <3>2
      <4>2. /\ Busy(t) => r1.running = t.stage
            /\ ~Busy(t) => r1.running = None \/ r1.running # t.stage
        BY <3>2, ReconcileTyped
      <4>3. /\ Busy(t) => r2.running = t.stage
            /\ ~Busy(t) /\ first.running = t.stage => r2.running = None
            /\ ~Busy(t) /\ first.running # t.stage => r2.running = first.running
        BY <1>1, <1>3, <4>1, ReconcileTyped
      <4> HIDE DEF r1, r2, t
      <4>4. QED BY <1>1, <4>2, <4>3
    <3>3. QED BY <3>1, <3>2
  <2>4. QED BY <1>1, <2>1, <2>2, <2>3
<1>7. plan2 = plan1
  <2>1. SnapshotOf(r2, host) = SnapshotOf(r1, host)
    BY <1>1, <1>6 DEF SnapshotOf
  <2> HIDE DEF first, plan1, r1, r2
  <2>2. QED BY <1>1, <1>6, <2>1 DEF ResolveSessionPlan
<1>8. StatusFromTask(kept2, plan1) = StatusFromTask(kept1, plan1)
  <2>1. plan1 \in Plan
    BY <1>5, PlanTyped
  <2>2. kept1.last = row.last
    BY <1>5, <2>1, PersistTyped
  <2>3. kept2.last = first.last
    <3> HIDE DEF first, plan1, r2
    <3>1. QED BY <1>6, <1>7, <2>1, PersistTyped
  <2> HIDE DEF first, plan1, kept1, kept2
  <2>4. HasLastTask(kept1) <=> HasLastTask(kept2)
    BY <1>2, <1>3, <2>2, <2>3 DEF HasLastTask
  <2>5. HasLastTask(kept1) => kept1.last = kept2.last
    BY <1>2, <1>3, <2>2, <2>3 DEF HasLastTask
  <2>6. QED BY <2>4, <2>5, StatusFollowsTask
<1> HIDE DEF first, plan1, plan2, kept1, kept2, second
<1>9. second.status = first.status
  BY <1>1, <1>4, <1>7, <1>8
<1>10. QED BY <1>9 DEF first, second

-----------------------------------------------------------------------------
(* What a repair and a commit make of a row that its tasks justify. *)

(* A reconciled row is as justified as the row it comes from. *)
LEMMA ReconcileEarned ==
  ASSUME TypeOK, TaskInv, NEW s \in Session, NEW row \in SessionRow, Earned(task, s, row)
  PROVE  /\ Reconcile(row) \in SessionRow /\ Earned(task, s, Reconcile(row))
         /\ row.completed \subseteq Reconcile(row).completed
         /\ Reconcile(row).status = row.status
         /\ HasLastTask(row) => row.last \in DOMAIN task
<1> DEFINE r == Reconcile(row)
<1>1. HasLastTask(row) => row.last \in DOMAIN task
  BY DEF HasLastTask, Earned
<1>2. /\ r \in SessionRow /\ r.status = row.status /\ r.last = row.last
      /\ ~HasLastTask(row) => r = row
  BY <1>1, ReconcileTyped
<1>3. CASE ~HasLastTask(row)
  BY <1>1, <1>2, <1>3
<1>4. CASE HasLastTask(row)
  <2> DEFINE t == task[row.last]
  <2>1. /\ row.last \in DOMAIN task /\ t.session = s /\ t.context
        /\ TaskOK(t)
    BY <1>4 DEF HasLastTask, Earned, TaskInv
  <2>2. /\ Closed(t) => r.completed = row.completed \cup {t.stage}
        /\ ~Closed(t) => r.completed = row.completed
    BY <1>1, <1>4, ReconcileTyped
  <2>3. /\ Busy(t) => r.running = t.stage
        /\ ~Busy(t) => r.running \in {None, row.running}
    <3>1. /\ Busy(t) => r.running = t.stage
          /\ ~Busy(t) /\ row.running = t.stage => r.running = None
          /\ ~Busy(t) /\ row.running # t.stage => r.running = row.running
      BY <1>1, <1>4, ReconcileTyped
    <3>2. QED BY <3>1
  <2>4. Closed(t) => Begun(task, s, t.stage)
    BY <2>1 DEF Closed, TaskOK, Begun
  <2>5. t.mode \in {"apply", "dry_run"}
    BY <2>1, TaskTyped DEF TaskRow
  <2>6. Busy(t) => t.mode = "apply"
    <3>1. t.status \in Active => t.mode = "apply"
      BY <2>1, <2>5 DEF TaskOK
    <3>2. t.business = "pending" => t.mode = "apply"
      BY <2>1 DEF TaskOK
    <3>3. QED BY <3>1, <3>2 DEF Busy
  <2>7. Busy(t) => Approved(task, s, t.stage)
    BY <2>1, <2>6 DEF Approved
  <2> HIDE DEF t, r
  <2>8. \A k \in r.completed : Begun(task, s, k)
    BY <2>2, <2>4 DEF Earned
  <2>9. r.running # None => Approved(task, s, r.running)
    BY <2>3, <2>7 DEF Earned
  <2>10. row.completed \subseteq r.completed
    BY <2>2
  <2>11. Earned(task, s, r)
    BY <1>2, <2>8, <2>9 DEF Earned
  <2>12. QED BY <1>1, <1>2, <2>10, <2>11 DEF r
<1>5. QED BY <1>3, <1>4

(* So is a refreshed one, whatever the host plan says. *)
LEMMA RefreshEarned ==
  ASSUME TypeOK, TaskInv, NEW s \in Session, NEW row \in SessionRow, Earned(task, s, row),
         NEW host \in HostStatus
  PROVE  /\ Refresh(row, host) \in SessionRow /\ Earned(task, s, Refresh(row, host))
         /\ row.completed \subseteq Refresh(row, host).completed
         /\ Refresh(row, host).status # "absent"
<1> DEFINE r == Reconcile(row)
           new == Refresh(row, host)
<1>1. /\ Earned(task, s, r) /\ row.completed \subseteq r.completed
      /\ HasLastTask(row) => row.last \in DOMAIN task
  BY ReconcileEarned
<1>2. /\ new \in SessionRow /\ new.status # "absent"
      /\ new.completed = r.completed /\ new.running = r.running
      /\ new.last = IF HasLastTask(row) THEN row.last ELSE None
  BY <1>1, RefreshTyped
<1> HIDE DEF r, new
<1>3. new.last \in {row.last, None}
  BY <1>2
<1>4. Earned(task, s, new)
  BY <1>1, <1>2, <1>3 DEF Earned
<1>5. QED BY <1>1, <1>2, <1>4 DEF r, new

(* Each column is that of the row it computed or that of the row saved now. *)
LEMMA MergeTyped ==
  ASSUME NEW now \in SessionRow, NEW view \in SessionRow, NEW out \in SessionRow,
         NEW force \in BOOLEAN
  PROVE  LET m == Merge(now, view, out, force)
         IN  /\ m \in SessionRow
             /\ m.status \in {now.status, out.status} /\ m.last \in {now.last, out.last}
             /\ \/ m.completed = now.completed /\ m.running = now.running
                \/ m.completed = out.completed /\ m.running = out.running
<1> DEFINE status == IF out.status # view.status THEN out.status ELSE now.status
           last == IF out.last # view.last THEN out.last ELSE now.last
           plan == IF out.plan # view.plan THEN out.plan ELSE now.plan
           snap == IF out.snap # view.snap THEN out.snap ELSE now.snap
           summary == IF \/ force \/ out.completed # view.completed
                         \/ out.running # view.running
                        THEN out ELSE now
           m == [status |-> status, completed |-> summary.completed,
                 running |-> summary.running, last |-> last,
                 plan |-> plan, snap |-> snap]
<1>1. Merge(now, view, out, force) = m
  BY DEF Merge
<1>2. summary \in {now, out}
  OBVIOUS
<1>3. /\ status \in {now.status, out.status} /\ last \in {now.last, out.last}
      /\ plan \in {now.plan, out.plan} /\ snap \in {now.snap, out.snap}
  OBVIOUS
<1> HIDE DEF status, last, plan, snap, summary
<1>4. m \in SessionRow
  <2>1. /\ status \in SessionStatus /\ last \in 0..MaxTasks
        /\ plan \in Plan /\ snap \in SUBSET Snapshot
    BY <1>3 DEF SessionRow
  <2>2. summary.completed \in SUBSET Stage /\ summary.running \in 0..NumStages
    BY <1>2 DEF SessionRow
  <2>3. QED BY <2>1, <2>2 DEF SessionRow
<1>5. QED BY <1>1, <1>2, <1>3, <1>4

(* A commit takes back no more than what was completed after it had read. *)
LEMMA MergeEarned ==
  ASSUME NEW T, NEW s \in Session, NEW now \in SessionRow, NEW view \in SessionRow,
         NEW out \in SessionRow, NEW force \in BOOLEAN,
         Earned(T, s, now), now.status # "absent", Pending(T, s, view, out)
  PROVE  LET m == Merge(now, view, out, force)
         IN  /\ m \in SessionRow /\ Earned(T, s, m) /\ m.status # "absent"
             /\ \A k \in now.completed \ m.completed : k \notin view.completed
<1> DEFINE m == Merge(now, view, out, force)
<1>1. /\ m \in SessionRow
      /\ m.status \in {now.status, out.status} /\ m.last \in {now.last, out.last}
      /\ \/ m.completed = now.completed /\ m.running = now.running
         \/ m.completed = out.completed /\ m.running = out.running
  BY MergeTyped
<1> HIDE DEF m
<1>2. Earned(T, s, m)
  BY <1>1 DEF Earned, Pending
<1>3. QED BY <1>1, <1>2 DEF m, Pending

-----------------------------------------------------------------------------
(* What a step leaves alone stays justified. *)

(* The tasks T become U: none is lost and none loses what it had. *)
Extends(T, U) ==
  \A t \in DOMAIN T :
    /\ t \in DOMAIN U /\ U[t].session = T[t].session
    /\ U[t].stage = T[t].stage /\ U[t].mode = T[t].mode
    /\ T[t].context => U[t].context
    /\ T[t].ran => U[t].ran

RowsKept(S, R) == \A s \in Session : S[s].status # "absent" => R[s].status # "absent"

(* Tasks that only gain keep justifying a row. *)
LEMMA EarnedStays ==
  ASSUME NEW T, NEW U, NEW s, NEW row, Extends(T, U), Earned(T, s, row)
  PROVE  Earned(U, s, row)
<1>1. ASSUME NEW k, Begun(T, s, k)  PROVE Begun(U, s, k)
  BY <1>1 DEF Begun, Extends
<1>2. ASSUME NEW k, Approved(T, s, k)  PROVE Approved(U, s, k)
  BY <1>2 DEF Approved, Extends
<1>3. QED BY <1>1, <1>2 DEF Earned, Extends

(* And what a transaction is going to write. *)
LEMMA PendingStays ==
  ASSUME NEW T, NEW U, NEW s, NEW view, NEW out, Extends(T, U), Pending(T, s, view, out)
  PROVE  Pending(U, s, view, out)
BY EarnedStays DEF Pending

(* And a request, as long as no session row disappears. *)
LEMMA RequestStays ==
  ASSUME NEW T, NEW U, NEW S, NEW R, NEW r \in RequestRow,
         Extends(T, U), RowsKept(S, R), RequestOK(T, S, r)
  PROVE  RequestOK(U, R, r)
<1>1. r.session # 0 => r.session \in Session
  BY RemediationAssumption DEF RequestRow, Session
<1>2. r.session # 0 /\ S[r.session].status # "absent" => R[r.session].status # "absent"
  BY <1>1 DEF RowsKept
<1>3. Pending(T, r.session, r.view, r.out) => Pending(U, r.session, r.view, r.out)
  BY PendingStays
<1>4. r.task \in DOMAIN T => /\ r.task \in DOMAIN U /\ U[r.task].session = T[r.task].session
                             /\ T[r.task].context => U[r.task].context
  BY DEF Extends
<1>5. QED BY <1>2, <1>3, <1>4 DEF RequestOK

(* And the job of the runner, unless its task is dispatched meanwhile. *)
LEMMA JobStays ==
  ASSUME NEW T, NEW U, NEW j, Extends(T, U), JobOK(T, j),
         j.at # "idle" => U[j.task].ran = T[j.task].ran
  PROVE  JobOK(U, j)
BY PendingStays DEF JobOK, Extends

(* So only what a step changes is left to justify. *)
LEMMA StepKeeps ==
  ASSUME IInv, TypeOK', Extends(task, task'), RowsKept(sess, sess'),
         \A t \in DOMAIN task' :
           /\ TaskOK(task'[t])
           /\ t \notin DOMAIN task => sess'[task'[t].session].status # "absent",
         \A t \in Task : reverify'[t] # "none" =>
           reverify[t] # "none" \/ (t \in DOMAIN task' /\ task'[t].ran),
         \A s \in Session : sess'[s] = sess[s] \/ SessionOK(task', s, sess'[s]),
         JobOK(task', job'),
         \A c \in Clients : req'[c] = req[c] \/ RequestOK(task', sess', req'[c])
  PROVE  IInv'
<1>1. TaskInv'
  <2> SUFFICES ASSUME NEW t \in DOMAIN task'
               PROVE  TaskOK(task'[t]) /\ sess'[task'[t].session].status # "absent"
    BY DEF TaskInv
  <2>1. CASE t \in DOMAIN task
    <3>1. task'[t].session = task[t].session /\ task[t].session \in Session
      <4>1. task[t] \in TaskRow
        BY <2>1, TaskTyped DEF IInv
      <4>2. QED BY <2>1, <4>1 DEF Extends, TaskRow
    <3>2. sess[task[t].session].status # "absent"
      BY <2>1 DEF IInv, TaskInv
    <3>3. QED BY <3>1, <3>2 DEF RowsKept
  <2>2. QED BY <2>1
<1>2. ReverifyInv'
  BY DEF IInv, ReverifyInv, Extends
<1>3. SessionInv'
  <2> SUFFICES ASSUME NEW s \in Session, sess'[s] = sess[s]
               PROVE  SessionOK(task', s, sess'[s])
    BY DEF SessionInv
  <2>1. SessionOK(task, s, sess[s])
    BY DEF IInv, SessionInv
  <2>2. QED BY <2>1, EarnedStays DEF SessionOK
<1>4. RequestInv'
  <2> SUFFICES ASSUME NEW c \in Clients, req'[c] = req[c]
               PROVE  RequestOK(task', sess', req'[c])
    BY DEF RequestInv
  <2>1. req[c] \in RequestRow /\ RequestOK(task, sess, req[c])
    BY DEF IInv, TypeOK, RequestInv
  <2>2. QED BY <2>1, RequestStays
<1>5. QED BY <1>1, <1>2, <1>3, <1>4 DEF IInv

(* Neither a task nor a session is written. *)
LEMMA NothingWritten ==
  ASSUME IInv, TypeOK', UNCHANGED <<sess, task>>,
         \A t \in Task : reverify'[t] # "none" => reverify[t] # "none" \/ (t \in DOMAIN task /\ task[t].ran),
         JobOK(task, job'),
         \A c \in Clients : req'[c] = req[c] \/ RequestOK(task, sess, req'[c])
  PROVE  IInv'
<1>1. Extends(task, task') /\ RowsKept(sess, sess')
  BY DEF Extends, RowsKept
<1>2. \A t \in DOMAIN task' : TaskOK(task'[t])
  BY DEF IInv, TaskInv
<1>3. QED BY <1>1, <1>2, StepKeeps

(* Only the findings, the host and the re-verifications under way move. *)
LEMMA OutsideStep ==
  ASSUME IInv, TypeOK', UNCHANGED <<sess, task, job, req>>,
         \A t \in Task : reverify'[t] # "none" => reverify[t] # "none"
  PROVE  IInv'
BY NothingWritten DEF IInv

(* Other scans and heartbeats. *)
LEMMA EnvironmentStep ==
  ASSUME IInv, FindingsChange \/ HeartbeatLost \/ Heartbeat
  PROVE  IInv'
<1>1. TypeOK'
  BY DEF IInv, TypeOK, FindingsChange, HeartbeatLost, Heartbeat, HostStatus
<1>2. QED
  BY <1>1, OutsideStep DEF FindingsChange, HeartbeatLost, Heartbeat

(* The steps of a re-verification that write neither a task nor a session. *)
LEMMA ReverifyOutsideStep ==
  ASSUME IInv, NEW t \in Task,
         ReverifyStart(t) \/ ReverifyEvaluate(t) \/ ReverifyDone(t) \/ ReverifyLost(t)
  PROVE  IInv'
<1>1. PICK from \in SUBSET {"queued", "running", "evaluated", "judged"},
           to \in {"running", "evaluated", "done", "lost"} : Reverify(t, from, to)
  BY DEF ReverifyStart, ReverifyEvaluate, ReverifyDone, ReverifyLost
<1>2. steps' \in [Stage -> StepStates] /\ UNCHANGED <<sess, task>>
  BY DEF ReverifyStart, ReverifyEvaluate, ReverifyDone, ReverifyLost, IInv, TypeOK
<1>3. /\ reverify' = [reverify EXCEPT ![t] = to] /\ UNCHANGED <<runner, job, req>>
      /\ reverify[t] # "none"
  BY <1>1 DEF Reverify
<1>4. TypeOK'
  BY <1>1, <1>2, <1>3 DEF IInv, TypeOK
<1>5. \A u \in Task : reverify'[u] # "none" => reverify[u] # "none"
  BY <1>3 DEF IInv, TypeOK
<1>6. QED BY <1>2, <1>3, <1>4, <1>5, OutsideStep

(* A request that ends, or begins: nothing else moves. *)
LEMMA RequestBegins ==
  ASSUME IInv, NEW c \in Clients, NEW r \in RequestRow, RequestOK(task, sess, r),
         req' = [req EXCEPT ![c] = r], UNCHANGED <<steps, runner, sess, task, reverify, job>>
  PROVE  IInv'
<1>1. TypeOK'
  BY DEF IInv, TypeOK
<1>2. \A d \in Clients : req'[d] = req[d] \/ RequestOK(task, sess, req'[d])
  BY DEF IInv, TypeOK
<1>3. QED BY <1>1, <1>2, NothingWritten DEF IInv

(* A client without a request. *)
LEMMA IdleRequest ==
  ASSUME NEW T, NEW S
  PROVE  NoRequest \in RequestRow /\ RequestOK(T, S, NoRequest)
<1>1. NoRequest.op = "none"
  BY DEF NoRequest
<1>2. QED BY <1>1, FirstRows DEF RequestOK

(* A request dies before its commit. *)
LEMMA RequestDiesStep ==
  ASSUME IInv, NEW c \in Clients, RequestDies(c)
  PROVE  IInv'
BY IdleRequest, RequestBegins DEF RequestDies, Finish

(* The row a request reads and the row it computes from it. *)
ReadOf(op, s, out) ==
  [NoRequest EXCEPT !.op = op, !.session = s, !.view = sess[s], !.out = out]

(* Such a request is one, with these parts. *)
LEMMA ReadTyped ==
  ASSUME IInv, NEW op \in RequestOp, NEW s \in Session, NEW out \in SessionRow
  PROVE  /\ ReadOf(op, s, out) \in RequestRow
         /\ ReadOf(op, s, out).op = op /\ ReadOf(op, s, out).session = s
         /\ ReadOf(op, s, out).view = sess[s] /\ ReadOf(op, s, out).out = out
<1> DEFINE view == sess[s]
<1>1. view \in SessionRow /\ s \in 0..MaxSessions
  BY RemediationAssumption DEF IInv, TypeOK, Session
<1>2. NoRequest \in RequestRow
  BY FirstRows
<1> HIDE DEF view
<1>3. ReadOf(op, s, out) =
        [NoRequest EXCEPT !.op = op, !.session = s, !.view = view, !.out = out]
  BY DEF ReadOf, view
<1> DEFINE r == [NoRequest EXCEPT !.op = op, !.session = s, !.view = view, !.out = out]
<1>4. r \in RequestRow
  BY <1>1, <1>2 DEF RequestRow
<1>5. r.op = op /\ r.session = s
  BY <1>2 DEF RequestRow
<1>6. r.view = view /\ r.out = out
  BY <1>2 DEF RequestRow
<1> HIDE DEF r
<1>7. ReadOf(op, s, out) = r
  BY <1>3 DEF r
<1>8. QED BY <1>4, <1>5, <1>6, <1>7 DEF view

(* A request that computed a justified row from the one it read. *)
LEMMA ReadBegins ==
  ASSUME IInv, NEW c \in Clients, NEW op \in {"get", "ai", "apply", "dry_run"},
         NEW s \in Rows, NEW out \in SessionRow, Read(c, op, s, out),
         Earned(task, s, out), sess[s].completed \subseteq out.completed,
         out.status # "absent", op \in {"apply", "dry_run"} => ReadyStages(out.plan) # {},
         UNCHANGED <<steps, runner, sess, task, reverify, job>>
  PROVE  IInv'
<1>1. s \in Session /\ sess[s].status # "absent" /\ op \in RequestOp
  BY DEF Rows, RequestOp
<1> DEFINE r == ReadOf(op, s, out)
<1>2. /\ r \in RequestRow /\ r.op = op /\ r.session = s /\ r.view = sess[s] /\ r.out = out
  BY <1>1, ReadTyped
<1>3. req' = [req EXCEPT ![c] = r]
  BY DEF Read, ReadOf
<1> HIDE DEF r
<1>4. Pending(task, s, sess[s], out)
  BY <1>1 DEF Pending, IInv, SessionInv, SessionOK
<1>5. s # 0
  BY <1>1, RemediationAssumption DEF Session
<1>6. RequestOK(task, sess, r)
  BY <1>1, <1>2, <1>4, <1>5 DEF RequestOK
<1>7. QED BY <1>2, <1>3, <1>6, RequestBegins

(* A page reads a session. *)
LEMMA GetBeginStep ==
  ASSUME IInv, NEW c \in Clients, NEW s \in Rows, GetBegin(c, s)
  PROVE  IInv'
<1>1. /\ s \in Session /\ sess[s] \in SessionRow /\ runner \in HostStatus
      /\ Earned(task, s, sess[s])
  BY DEF Rows, IInv, TypeOK, SessionInv, SessionOK
<1>2. QED BY <1>1, RefreshEarned, ReadBegins DEF GetBegin, IInv

(* The AI worker reads a session. *)
LEMMA AiBeginStep ==
  ASSUME IInv, NEW c \in Clients, NEW s \in Rows, AiBegin(c, s)
  PROVE  IInv'
<1>1. /\ s \in Session /\ sess[s] \in SessionRow /\ sess[s].status # "absent"
      /\ Earned(task, s, sess[s])
  BY DEF Rows, IInv, TypeOK, SessionInv, SessionOK
<1>2. QED BY <1>1, ReconcileEarned, ReadBegins DEF AiBegin, IInv

(* An approval reads a session and finds a stage ready. *)
LEMMA ApproveBeginStep ==
  ASSUME IInv, NEW c \in Clients, NEW s \in Rows, NEW mode \in {"apply", "dry_run"},
         ApproveBegin(c, s, mode)
  PROVE  IInv'
<1> DEFINE row == Reconcile(sess[s])
           plan == ResolveSessionPlan(row, runner)
           out == [row EXCEPT !.plan = plan]
<1>1. /\ s \in Session /\ sess[s] \in SessionRow /\ sess[s].status # "absent"
      /\ Earned(task, s, sess[s]) /\ runner \in HostStatus
  BY DEF Rows, IInv, TypeOK, SessionInv, SessionOK
<1>2. /\ row \in SessionRow /\ Earned(task, s, row)
      /\ sess[s].completed \subseteq row.completed /\ row.status # "absent"
  BY <1>1, ReconcileEarned DEF IInv
<1>3. plan \in Plan
  BY <1>1, <1>2, PlanTyped DEF IInv
<1>4. Read(c, mode, s, out) /\ ReadyStages(plan) # {}
  BY DEF ApproveBegin
<1>5. UNCHANGED <<steps, runner, sess, task, reverify, job>>
  BY DEF ApproveBegin
<1> HIDE DEF row, plan
<1>6. /\ out \in SessionRow /\ out.plan = plan /\ out.completed = row.completed
  BY <1>2, <1>3 DEF SessionRow
<1>7. /\ out.running = row.running /\ out.last = row.last /\ out.status = row.status
  BY <1>2 DEF SessionRow
<1> HIDE DEF out
<1>8. Earned(task, s, out)
  BY <1>2, <1>6, <1>7 DEF Earned
<1>9. QED BY <1>2, <1>4, <1>5, <1>6, <1>7, <1>8, ReadBegins

(* The row that the creation of a session inserts: nothing is done yet. *)
FreshRow(row) ==
  /\ row.completed = {} /\ row.running = None /\ row.last = None
  /\ row.status # "absent"

(* The refresh of a new session finds nothing to repair. *)
LEMMA NewRowTyped ==
  ASSUME IInv
  PROVE  Refresh(NewSession, runner) \in SessionRow /\ FreshRow(Refresh(NewSession, runner))
<1> DEFINE new == Refresh(NewSession, runner)
<1>1. ~HasLastTask(NewSession)
  BY FirstRows DEF HasLastTask
<1>2. Reconcile(NewSession) = NewSession
  BY <1>1 DEF Reconcile
<1>3. /\ new \in SessionRow /\ new.status # "absent"
      /\ new.completed = NewSession.completed /\ new.running = NewSession.running
      /\ new.last = None
  BY <1>1, <1>2, FirstRows, RefreshTyped DEF IInv, TypeOK
<1> HIDE DEF new
<1>4. QED BY <1>3, FirstRows DEF FreshRow, new

(* A set of sessions that is not empty has a newest one. *)
LEMMA NewestSession ==
  ASSUME NEW S, S \subseteq Session, S # {}
  PROVE  LET s == CHOOSE s \in S : \A r \in S : r <= s
         IN  s \in S
<1> DEFINE T == {MaxSessions - s : s \in S}
<1>1. T \subseteq Nat /\ T # {}
  <2>1. \A s \in Session : MaxSessions - s \in Nat
    BY RemediationAssumption DEF Session
  <2>2. T \subseteq Nat
    BY <2>1
  <2>3. T # {}
    OBVIOUS
  <2>4. QED BY <2>2, <2>3
<1>2. MinOf(T) \in T /\ \A j \in T : MinOf(T) <= j
  BY <1>1, LeastNumber
<1>3. PICK m \in S : MinOf(T) = MaxSessions - m
  BY <1>2
<1>4. \A r \in S : MaxSessions - m <= MaxSessions - r
  BY <1>2, <1>3
<1>5. \A r \in S : r <= m
  BY <1>4, RemediationAssumption DEF Session
<1>6. QED BY <1>5

CreationOf(new) == [NoRequest EXCEPT !.op = "create", !.new = new]
CreationAfter(s, out, new) ==
  [NoRequest EXCEPT !.op = "create", !.session = s, !.view = sess[s],
     !.out = out, !.new = IF out.status \in Ended THEN new ELSE @]

(* A session is asked for. *)
LEMMA CreateBeginStep ==
  ASSUME IInv, NEW c \in Clients, CreateBegin(c)
  PROVE  IInv'
<1> DEFINE open == {s \in Rows : sess[s].status \notin Ended}
           s == CHOOSE s \in open : \A r \in open : r <= s
           out == Refresh(sess[s], runner)
           new == Refresh(NewSession, runner)
<1>1. new \in SessionRow /\ FreshRow(new)
  BY NewRowTyped
<1>2. NoRequest \in RequestRow /\ NoSession \in SessionRow
  BY FirstRows
<1>3. UNCHANGED <<steps, runner, sess, task, reverify, job>>
  BY DEF CreateBegin
<1>4. req' = [req EXCEPT ![c] =
                IF open = {} THEN CreationOf(new) ELSE CreationAfter(s, out, new)]
  BY DEF CreateBegin, CreationOf, CreationAfter
<1>5. CASE open = {}
  <2> DEFINE r == CreationOf(new)
  <2>1. req' = [req EXCEPT ![c] = r]
    BY <1>4, <1>5
  <2> HIDE DEF new
  <2>2. r \in RequestRow
    BY <1>1, <1>2 DEF RequestRow, RequestOp, CreationOf
  <2>3. r.op = "create" /\ r.new = new
    BY <1>2 DEF RequestRow, CreationOf
  <2>4. r.session = 0
    BY <1>2 DEF RequestRow, CreationOf, NoRequest
  <2> HIDE DEF r
  <2>5. RequestOK(task, sess, r)
    BY <1>1, <2>3, <2>4 DEF RequestOK, FreshRow
  <2>6. QED BY <1>3, <2>1, <2>2, <2>5, RequestBegins
<1>6. CASE open # {}
  <2>1. s \in open
    BY <1>6, NewestSession DEF Rows
  <2>2. s \in Session /\ sess[s].status # "absent"
    BY <2>1 DEF Rows
  <2> HIDE DEF open, s, new
  <2>3. /\ sess[s] \in SessionRow /\ Earned(task, s, sess[s])
        /\ runner \in HostStatus /\ s # 0 /\ s \in 0..MaxSessions
    BY <2>2, RemediationAssumption DEF IInv, TypeOK, SessionInv, SessionOK, Session
  <2>4. /\ out \in SessionRow /\ Earned(task, s, out)
        /\ sess[s].completed \subseteq out.completed /\ out.status # "absent"
    BY <2>2, <2>3, RefreshEarned DEF IInv
  <2> HIDE DEF out
  <2>5. Pending(task, s, sess[s], out)
    BY <2>2, <2>3, <2>4 DEF Pending
  <2> DEFINE view == sess[s]
             made == IF out.status \in Ended THEN new ELSE NoSession
             r == [NoRequest EXCEPT !.op = "create", !.session = s, !.view = view,
                     !.out = out, !.new = made]
  <2>6. CreationAfter(s, out, new) = r
    <3>1. NoRequest.new = NoSession
      BY DEF NoRequest
    <3>2. QED BY <3>1 DEF CreationAfter
  <2>7. made \in SessionRow /\ (made # NoSession => FreshRow(made))
    BY <1>1, <1>2
  <2> HIDE DEF made, view
  <2>8. r \in RequestRow
    BY <1>2, <2>3, <2>4, <2>7 DEF RequestRow, RequestOp, view
  <2>9. r.op = "create" /\ r.session = s
    BY <1>2 DEF RequestRow
  <2>10. r.view = view /\ r.out = out /\ r.new = made
    BY <1>2 DEF RequestRow
  <2> HIDE DEF r
  <2>11. RequestOK(task, sess, r)
    BY <2>2, <2>5, <2>7, <2>9, <2>10 DEF RequestOK, FreshRow, view
  <2>12. req' = [req EXCEPT ![c] = r]
    BY <1>4, <1>6, <2>6
  <2>13. QED BY <1>3, <2>8, <2>11, <2>12, RequestBegins
<1>7. QED BY <1>5, <1>6

-----------------------------------------------------------------------------
(* The commits of a request. *)

(* What a commit writes into its row. *)
LEMMA WrittenTyped ==
  ASSUME IInv, NEW c \in Clients, req[c].op \in {"get", "ai", "create"}, NEW force \in BOOLEAN
  PROVE  LET S == Written(c, force)
         IN  /\ S \in [Session -> SessionRow] /\ RowsKept(sess, S)
             /\ \A s \in Session : S[s] = sess[s] \/ SessionOK(task, s, S[s])
             /\ \A s \in Session : \A k \in sess[s].completed \ S[s].completed :
                  req[c].session = s /\ k \notin req[c].view.completed
<1> DEFINE s == req[c].session
           view == req[c].view
           out == req[c].out
           m == Merge(sess[s], view, out, force)
           S == Written(c, force)
<1>1. /\ req[c] \in RequestRow /\ RequestOK(task, sess, req[c])
      /\ sess \in [Session -> SessionRow]
  BY DEF IInv, TypeOK, RequestInv
<1>2. CASE s = 0
  BY <1>1, <1>2 DEF Written, RowsKept
<1>3. CASE s # 0
  <2>1. /\ s \in Session /\ view \in SessionRow /\ out \in SessionRow
        /\ sess[s] \in SessionRow
    BY <1>1, <1>3, RemediationAssumption DEF RequestRow, Session
  <2>2. Pending(task, s, view, out) /\ sess[s].status # "absent"
    BY <1>1, <1>3 DEF RequestOK
  <2>3. Earned(task, s, sess[s])
    BY <2>1 DEF IInv, SessionInv, SessionOK
  <2>4. /\ m \in SessionRow /\ Earned(task, s, m) /\ m.status # "absent"
        /\ \A k \in sess[s].completed \ m.completed : k \notin view.completed
    BY <2>1, <2>2, <2>3, MergeEarned
  <2>5. S = [sess EXCEPT ![s] = m]
    BY <1>3 DEF Written
  <2> HIDE DEF m, S
  <2>6. S \in [Session -> SessionRow]
    BY <1>1, <2>4, <2>5
  <2>7. S[s] = m /\ \A t \in Session \ {s} : S[t] = sess[t]
    BY <1>1, <2>1, <2>5
  <2>8. RowsKept(sess, S)
    BY <2>4, <2>7 DEF RowsKept
  <2>9. \A t \in Session : S[t] = sess[t] \/ SessionOK(task, t, S[t])
    BY <2>4, <2>7 DEF SessionOK
  <2>10. \A t \in Session : \A k \in sess[t].completed \ S[t].completed :
           s = t /\ k \notin view.completed
    BY <2>4, <2>7
  <2>11. QED BY <2>6, <2>8, <2>9, <2>10 DEF S
<1>4. QED BY <1>2, <1>3

(* A request ends with a commit of session rows. *)
LEMMA RequestEnds ==
  ASSUME IInv, NEW c \in Clients, Finish(c), sess' \in [Session -> SessionRow],
         RowsKept(sess, sess'),
         \A s \in Session : sess'[s] = sess[s] \/ SessionOK(task, s, sess'[s]),
         UNCHANGED <<steps, runner, task, reverify, job>>
  PROVE  IInv'
<1>1. req' \in [Clients -> RequestRow]
  BY IdleRequest DEF Finish, IInv, TypeOK
<1>2. TypeOK'
  BY <1>1 DEF IInv, TypeOK
<1>3. \A d \in Clients : req'[d] = req[d] \/ RequestOK(task', sess', req'[d])
  BY IdleRequest DEF Finish, IInv, TypeOK
<1>4. Extends(task, task')
  BY DEF Extends
<1>5. \A t \in DOMAIN task' : TaskOK(task'[t])
  BY DEF IInv, TaskInv
<1>6. JobOK(task', job')
  BY DEF IInv
<1>7. QED BY <1>2, <1>3, <1>4, <1>5, <1>6, StepKeeps

(* The page and the AI worker commit. *)
LEMMA GetCommitStep ==
  ASSUME IInv, NEW c \in Clients, GetCommit(c) \/ AiCommit(c)
  PROVE  IInv'
<1>1. PICK force \in BOOLEAN : sess' = Written(c, force)
  BY DEF GetCommit, AiCommit
<1>2. req[c].op \in {"get", "ai"} /\ Finish(c) /\ UNCHANGED <<steps, runner, task, reverify, job>>
  BY DEF GetCommit, AiCommit
<1>3. QED BY <1>1, <1>2, WrittenTyped, RequestEnds

(* The creation commits, into a row that was not there. *)
LEMMA CreateCommitStep ==
  ASSUME IInv, NEW c \in Clients, CreateCommit(c)
  PROVE  IInv'
<1>1. PICK force \in BOOLEAN :
        IF FreeRows # {} /\ req[c].new # NoSession
          THEN sess' = [Written(c, force) EXCEPT ![MinOf(FreeRows)] = req[c].new]
          ELSE sess' = Written(c, force)
  BY DEF CreateCommit
<1>2. /\ req[c].op = "create" /\ Finish(c)
      /\ UNCHANGED <<steps, runner, task, reverify, job>>
  BY DEF CreateCommit
<1> DEFINE S == Written(c, force)
           f == MinOf(FreeRows)
           new == req[c].new
<1>3. /\ S \in [Session -> SessionRow] /\ RowsKept(sess, S)
      /\ \A s \in Session : S[s] = sess[s] \/ SessionOK(task, s, S[s])
  BY <1>2, WrittenTyped
<1>4. CASE FreeRows # {} /\ new # NoSession
  <2>1. f \in FreeRows
    BY <1>4, LeastNumber DEF FreeRows, Session
  <2>2. f \in Session /\ sess[f].status = "absent"
    BY <2>1 DEF FreeRows, Rows
  <2>3. new \in SessionRow /\ FreshRow(new)
    BY <1>2, <1>4 DEF IInv, TypeOK, RequestRow, RequestInv, RequestOK, FreshRow
  <2>4. SessionOK(task, f, new)
    BY <2>3 DEF SessionOK, Earned, FreshRow
  <2>5. sess' = [S EXCEPT ![f] = new]
    BY <1>1, <1>4
  <2> HIDE DEF S, f, new
  <2>6. sess' \in [Session -> SessionRow]
    BY <1>3, <2>3, <2>5
  <2>7. sess'[f] = new /\ \A s \in Session \ {f} : sess'[s] = S[s]
    BY <1>3, <2>2, <2>5
  <2>8. RowsKept(sess, sess')
    BY <1>3, <2>2, <2>7 DEF RowsKept
  <2>9. \A s \in Session : sess'[s] = sess[s] \/ SessionOK(task, s, sess'[s])
    BY <1>3, <2>4, <2>7
  <2>10. QED BY <1>2, <2>6, <2>8, <2>9, RequestEnds
<1>5. CASE ~(FreeRows # {} /\ new # NoSession)
  <2>1. sess' = S
    BY <1>1, <1>5
  <2> HIDE DEF S
  <2>2. QED BY <1>2, <1>3, <2>1, RequestEnds
<1>6. QED BY <1>4, <1>5

-----------------------------------------------------------------------------
(* The three commits of an approval. *)

(* The task list is at most as long as its bound. *)
LEMMA TasksTyped ==
  ASSUME TypeOK
  PROVE  /\ Len(task) \in Nat /\ DOMAIN task = 1..Len(task) /\ Len(task) <= MaxTasks
         /\ DOMAIN task \subseteq Task
BY LenProperties, RemediationAssumption DEF TypeOK, Task

(* One task row is replaced by another. *)
LEMMA TaskReplaced ==
  ASSUME TypeOK, NEW t \in DOMAIN task, NEW row \in TaskRow,
         task' = [task EXCEPT ![t] = row]
  PROVE  /\ task' \in Seq(TaskRow) /\ Len(task') = Len(task)
         /\ DOMAIN task' = DOMAIN task
         /\ task'[t] = row
         /\ \A u \in DOMAIN task \ {t} : task'[u] = task[u]
<1>1. task \in Seq(TaskRow) /\ DOMAIN task = 1..Len(task)
  BY LenProperties DEF TypeOK
<1>2. /\ task' \in Seq(TaskRow) /\ Len(task') = Len(task)
      /\ \A u \in 1..Len(task) : task'[u] = IF u = t THEN row ELSE task[u]
  BY <1>1, ExceptSeq
<1>3. DOMAIN task' = 1..Len(task')
  BY <1>2, LenProperties
<1>4. QED BY <1>1, <1>2, <1>3

(* A task row is added at the end. *)
LEMMA TaskAdded ==
  ASSUME TypeOK, NEW row \in TaskRow, Len(task) < MaxTasks, task' = Append(task, row)
  PROVE  /\ task' \in Seq(TaskRow) /\ Len(task') = Len(task) + 1 /\ Len(task') <= MaxTasks
         /\ DOMAIN task' = DOMAIN task \cup {Len(task) + 1}
         /\ task'[Len(task) + 1] = row /\ Len(task) + 1 \notin DOMAIN task
         /\ \A u \in DOMAIN task : task'[u] = task[u]
<1>1. task \in Seq(TaskRow) /\ Len(task) \in Nat /\ DOMAIN task = 1..Len(task)
  BY LenProperties DEF TypeOK
<1>2. /\ task' \in Seq(TaskRow) /\ Len(task') = Len(task) + 1
      /\ \A u \in 1..Len(task) : task'[u] = task[u]
      /\ task'[Len(task) + 1] = row
  BY <1>1, AppendProperties
<1>3. DOMAIN task' = 1..(Len(task) + 1)
  BY <1>2, LenProperties
<1>4. QED BY <1>1, <1>2, <1>3, RemediationAssumption

(* The first commit, and what the request keeps for the next ones. *)
ContextOf(s, t, plan) ==
  [NoRequest EXCEPT !.op = "context", !.session = s, !.task = t, !.out.plan = plan]

(* The request of an approval after its first commit. *)
LEMMA ContextTyped ==
  ASSUME NEW s \in Session, NEW t \in Task, NEW plan \in Plan
  PROVE  /\ ContextOf(s, t, plan) \in RequestRow /\ ContextOf(s, t, plan).op = "context"
         /\ ContextOf(s, t, plan).session = s /\ ContextOf(s, t, plan).task = t
<1> DEFINE out == [NoSession EXCEPT !.plan = plan]
           r == [NoRequest EXCEPT !.op = "context", !.session = s, !.task = t, !.out = out]
<1>1. NoRequest \in RequestRow /\ NoSession \in SessionRow
  BY FirstRows
<1>2. out \in SessionRow
  BY <1>1 DEF SessionRow
<1>3. ContextOf(s, t, plan) = r
  BY DEF ContextOf, NoRequest
<1> HIDE DEF out
<1>4. s \in 0..MaxSessions /\ t \in 0..MaxTasks
  BY RemediationAssumption DEF Session, Task
<1>5. r \in RequestRow
  BY <1>1, <1>2, <1>4 DEF RequestRow, RequestOp
<1>6. r.op = "context" /\ r.session = s /\ r.task = t
  BY <1>1 DEF RequestRow
<1> HIDE DEF r
<1>7. QED BY <1>3, <1>5, <1>6

(* The stage of an approval can be taken from its plan. *)
LEMMA ApprovalTyped ==
  ASSUME IInv, NEW c \in Clients, req[c].op \in {"apply", "dry_run"}
  PROVE  LET s == req[c].session
         IN  /\ s \in Session /\ sess[s] \in SessionRow /\ req[c].out.plan \in Plan
             /\ ReadyStages(req[c].out.plan) # {} /\ sess[s].status # "absent"
<1>1. req[c] \in RequestRow /\ RequestOK(task, sess, req[c])
  BY DEF IInv, TypeOK, RequestInv
<1>2. req[c].session \in Session /\ req[c].out \in SessionRow
  BY <1>1, RemediationAssumption DEF RequestRow, Session, RequestOK
<1>3. ReadyStages(req[c].out.plan) # {} /\ sess[req[c].session].status # "absent"
  BY <1>1 DEF RequestOK
<1>4. sess[req[c].session] \in SessionRow /\ req[c].out.plan \in Plan
  BY <1>2 DEF IInv, TypeOK, SessionRow
<1>5. QED BY <1>2, <1>3, <1>4

(* The first commit inserts the task. *)
LEMMA ApproveTaskStep ==
  ASSUME IInv, NEW c \in Clients, ApproveTask(c)
  PROVE  IInv'
<1> DEFINE s == req[c].session
           plan == req[c].out.plan
           k == MinOf(ReadyStages(plan))
           n == Len(task) + 1
           new == [status |-> "PENDING", session |-> s, stage |-> k, mode |-> req[c].op,
                   context |-> FALSE, business |-> "none", ran |-> FALSE]
<1>1. /\ req[c].op \in {"apply", "dry_run"} /\ Len(task) < MaxTasks
      /\ task' = Append(task, new)
      /\ req' = [req EXCEPT ![c] = ContextOf(s, n, plan)]
      /\ UNCHANGED <<steps, runner, sess, reverify, job>>
  BY DEF ApproveTask, ContextOf
<1>2. /\ sess \in [Session -> SessionRow] /\ TypeOK /\ req \in [Clients -> RequestRow]
  BY DEF IInv, TypeOK
<1>3. /\ s \in Session /\ plan \in Plan /\ ReadyStages(plan) # {} /\ sess[s].status # "absent"
  BY <1>1, ApprovalTyped
<1>5. k \in Stage
  <2>1. ReadyStages(plan) \subseteq Nat
    BY DEF ReadyStages, Stage
  <2>2. k \in ReadyStages(plan)
    BY <1>3, <2>1, LeastNumber
  <2>3. QED BY <2>2 DEF ReadyStages
<1> HIDE DEF plan, k
<1>9. new \in TaskRow
  BY <1>1, <1>3, <1>5 DEF TaskRow, Active, Terminal, Verdict
<1>10. TaskOK(new) /\ new.session = s
  BY DEF TaskOK
<1> HIDE DEF new, s
<1>11. /\ task' \in Seq(TaskRow) /\ Len(task') = Len(task) + 1 /\ Len(task') <= MaxTasks
       /\ DOMAIN task' = DOMAIN task \cup {n} /\ task'[n] = new /\ n \notin DOMAIN task
       /\ \A u \in DOMAIN task : task'[u] = task[u]
  BY <1>1, <1>2, <1>9, TaskAdded
<1>12. n \in Task
  BY <1>1, <1>2, TasksTyped, RemediationAssumption DEF Task
<1> HIDE DEF n
<1>13. Extends(task, task')
  BY <1>11 DEF Extends
<1>15. RowsKept(sess, sess')
  BY <1>1 DEF RowsKept
<1>16. /\ ContextOf(s, n, plan) \in RequestRow /\ ContextOf(s, n, plan).op = "context"
       /\ ContextOf(s, n, plan).session = s /\ ContextOf(s, n, plan).task = n
  BY <1>3, <1>5, <1>12, ContextTyped
<1>17. TypeOK'
  BY <1>1, <1>2, <1>11, <1>16 DEF TypeOK
<1>18. \A t \in DOMAIN task' :
         /\ TaskOK(task'[t])
         /\ t \notin DOMAIN task => sess'[task'[t].session].status # "absent"
  BY <1>1, <1>3, <1>10, <1>11 DEF IInv, TaskInv
<1>19. \A u \in Session : sess'[u] = sess[u] \/ SessionOK(task', u, sess'[u])
  BY <1>1
<1>20. JobOK(task', job')
  BY <1>1, <1>11, <1>13, JobStays DEF IInv, JobOK
<1>21. \A d \in Clients : req'[d] = req[d] \/ RequestOK(task', sess', req'[d])
  <2>1. RequestOK(task', sess', ContextOf(s, n, plan))
    <3>1. s # 0
      BY <1>3, RemediationAssumption DEF Session
    <3>2. QED BY <1>10, <1>11, <1>16, <3>1 DEF RequestOK
  <2>2. QED BY <1>1, <1>2, <2>1
<1>22. QED BY <1>1, <1>13, <1>15, <1>17, <1>18, <1>19, <1>20, <1>21, StepKeeps

(* One task row changes and keeps what it had. *)
LEMMA TaskChanges ==
  ASSUME IInv, NEW t \in DOMAIN task, NEW row \in TaskRow, TaskOK(row),
         task' = [task EXCEPT ![t] = row], row.session = task[t].session,
         row.stage = task[t].stage, row.mode = task[t].mode,
         task[t].context => row.context, task[t].ran => row.ran
  PROVE  /\ task' \in Seq(TaskRow) /\ Len(task') <= MaxTasks
         /\ DOMAIN task' = DOMAIN task /\ Extends(task, task')
         /\ task'[t] = row /\ \A u \in DOMAIN task \ {t} : task'[u] = task[u]
         /\ \A u \in DOMAIN task' : TaskOK(task'[u]) /\ u \in DOMAIN task
<1>1. /\ task' \in Seq(TaskRow) /\ Len(task') = Len(task)
      /\ DOMAIN task' = DOMAIN task
      /\ task'[t] = row
      /\ \A u \in DOMAIN task \ {t} : task'[u] = task[u]
  BY TaskReplaced DEF IInv
<1>2. Len(task') <= MaxTasks
  BY <1>1 DEF IInv, TypeOK
<1>3. Extends(task, task')
  BY <1>1 DEF Extends
<1>4. \A u \in DOMAIN task' : TaskOK(task'[u]) /\ u \in DOMAIN task
  BY <1>1 DEF IInv, TaskInv
<1>5. QED BY <1>1, <1>2, <1>3, <1>4

(* The second one gives it its session and stage. *)
LEMMA ApproveContextStep ==
  ASSUME IInv, NEW c \in Clients, ApproveContext(c)
  PROVE  IInv'
<1> DEFINE t == req[c].task
           s == req[c].session
           apply == task[t].mode = "apply"
<1>1. /\ req[c].op = "context" /\ UNCHANGED <<steps, runner, reverify, job>>
      /\ IF task[t].status = "DELETED"
           THEN Finish(c) /\ UNCHANGED <<sess, task>>
           ELSE /\ task' = [task EXCEPT ![t].context = TRUE,
                     ![t].status = IF apply THEN @ ELSE "SUCCESS"]
                /\ sess' = IF apply THEN [sess EXCEPT ![s].running = task[t].stage]
                           ELSE sess
                /\ req' = [req EXCEPT ![c].op = "submit"]
  BY DEF ApproveContext
<1>2. /\ req[c] \in RequestRow /\ RequestOK(task, sess, req[c]) /\ TypeOK
      /\ req \in [Clients -> RequestRow] /\ sess \in [Session -> SessionRow]
  BY DEF IInv, TypeOK, RequestInv
<1>3. /\ t \in DOMAIN task /\ task[t].session = s /\ s # 0
  BY <1>1, <1>2 DEF RequestOK
<1>4. task[t] \in TaskRow /\ TaskOK(task[t]) /\ s \in Session
  BY <1>2, <1>3, TaskTyped DEF IInv, TaskInv, TaskRow
<1>5. CASE task[t].status = "DELETED"
  BY <1>1, <1>5, IdleRequest, RequestBegins DEF Finish
<1>6. CASE task[t].status # "DELETED"
  <2> DEFINE status == IF apply THEN task[t].status ELSE "SUCCESS"
             row == [task[t] EXCEPT !.context = TRUE, !.status = status]
             next == [req[c] EXCEPT !.op = "submit"]
  <2>1. task' = [task EXCEPT ![t] = row]
    BY <1>1, <1>3, <1>6
  <2>2. req' = [req EXCEPT ![c] = next]
    BY <1>1, <1>6
  <2>3. status \in Active \cup Terminal \cup {"DELETED"}
    BY <1>4 DEF TaskRow, Terminal
  <2>4. task[t].mode = "dry_run" => status \notin Active
    BY DEF Active
  <2>5. status = "PENDING" => task[t].status = "PENDING"
    OBVIOUS
  <2> HIDE DEF status
  <2>6. row \in TaskRow
    BY <1>4, <2>3 DEF TaskRow
  <2>7. /\ row.context = TRUE /\ row.status = status /\ row.session = task[t].session
        /\ row.stage = task[t].stage
    BY <1>4 DEF TaskRow
  <2>8. /\ row.mode = task[t].mode /\ row.ran = task[t].ran
        /\ row.business = task[t].business
    BY <1>4 DEF TaskRow
  <2> HIDE DEF row
  <2>9. TaskOK(row)
    BY <1>4, <2>4, <2>5, <2>7, <2>8 DEF TaskOK
  <2>10. /\ task' \in Seq(TaskRow) /\ Len(task') <= MaxTasks
         /\ DOMAIN task' = DOMAIN task /\ Extends(task, task') /\ task'[t] = row
         /\ \A u \in DOMAIN task \ {t} : task'[u] = task[u]
         /\ \A u \in DOMAIN task' : TaskOK(task'[u]) /\ u \in DOMAIN task
    BY <1>3, <2>1, <2>6, <2>7, <2>8, <2>9, TaskChanges
  <2>11. next \in RequestRow
    BY <1>2 DEF RequestRow, RequestOp
  <2>12. next.op = "submit" /\ next.task = t /\ next.session = s
    BY <1>2 DEF RequestRow
  <2> HIDE DEF next
  <2>13. RequestOK(task', sess', next)
    BY <1>3, <2>7, <2>10, <2>12 DEF RequestOK
  <2>14. /\ sess' \in [Session -> SessionRow] /\ RowsKept(sess, sess')
         /\ \A u \in Session : sess'[u] = sess[u] \/ SessionOK(task', u, sess'[u])
    <3>1. CASE ~apply
      BY <1>1, <1>2, <1>6, <3>1 DEF RowsKept
    <3>2. CASE apply
      <4> DEFINE old == sess[s]
                 k == task[t].stage
                 new == [old EXCEPT !.running = k]
      <4>1. old \in SessionRow /\ k \in 0..NumStages /\ SessionOK(task, s, old)
        BY <1>2, <1>4, RemediationAssumption DEF TaskRow, Stage, IInv, SessionInv
      <4>2. sess' = [sess EXCEPT ![s] = new]
        BY <1>1, <1>6, <3>2
      <4> HIDE DEF old, k
      <4>3. new \in SessionRow /\ new.running = k
        BY <4>1 DEF SessionRow
      <4>4. new.completed = old.completed /\ new.status = old.status /\ new.last = old.last
        BY <4>1 DEF SessionRow
      <4> HIDE DEF new
      <4>5. Approved(task', s, k)
        BY <1>3, <2>7, <2>8, <2>10, <3>2 DEF Approved, k
      <4>6. Earned(task', s, old)
        BY <2>10, <4>1, EarnedStays DEF SessionOK
      <4>7. SessionOK(task', s, new)
        BY <4>1, <4>3, <4>4, <4>5, <4>6 DEF SessionOK, Earned
      <4>8. /\ sess' \in [Session -> SessionRow] /\ sess'[s] = new
            /\ \A u \in Session \ {s} : sess'[u] = sess[u]
        BY <1>2, <1>4, <4>2, <4>3
      <4>9. QED BY <4>4, <4>7, <4>8 DEF RowsKept, old
    <3>3. QED BY <3>1, <3>2
  <2>15. TypeOK'
    BY <1>1, <1>2, <2>2, <2>10, <2>11, <2>14 DEF TypeOK
  <2>16. JobOK(task', job')
    <3>1. job.at # "idle" => job.task \in DOMAIN task /\ task'[job.task].ran = task[job.task].ran
      BY <2>8, <2>10 DEF IInv, JobOK
    <3>2. QED BY <1>1, <2>10, <3>1, JobStays DEF IInv
  <2>17. \A d \in Clients : req'[d] = req[d] \/ RequestOK(task', sess', req'[d])
    BY <1>2, <2>2, <2>13
  <2>18. QED BY <1>1, <2>10, <2>14, <2>15, <2>16, <2>17, StepKeeps
<1>7. QED BY <1>5, <1>6

(* The third one makes it the last task of its session. *)
LEMMA ApproveSubmitStep ==
  ASSUME IInv, NEW c \in Clients, ApproveSubmit(c)
  PROVE  IInv'
<1> DEFINE t == req[c].task
           s == req[c].session
           plan == req[c].out.plan
           status == IF task[t].mode = "apply" THEN "running" ELSE sess[s].status
           row == [sess[s] EXCEPT !.last = t, !.status = status]
           new == PersistSnapshot(row, plan, runner)
<1>1. /\ req[c].op = "submit" /\ Finish(c)
      /\ UNCHANGED <<steps, runner, task, reverify, job>>
      /\ sess' = IF task[t].status = "DELETED" THEN sess ELSE [sess EXCEPT ![s] = new]
  BY DEF ApproveSubmit
<1>2. /\ req[c] \in RequestRow /\ RequestOK(task, sess, req[c]) /\ TypeOK
      /\ sess \in [Session -> SessionRow] /\ runner \in HostStatus
  BY DEF IInv, TypeOK, RequestInv
<1>3. /\ t \in DOMAIN task /\ task[t].session = s /\ task[t].context
  BY <1>1, <1>2 DEF RequestOK
<1>4. /\ task[t] \in TaskRow /\ s \in Session /\ t \in 0..MaxTasks
      /\ sess[s].status # "absent"
  BY <1>2, <1>3, TaskTyped, RemediationAssumption DEF IInv, TaskInv, TaskRow, Task
<1>5. sess[s] \in SessionRow /\ Earned(task, s, sess[s]) /\ plan \in Plan
  <2>1. req[c].out \in SessionRow
    BY <1>2 DEF RequestRow
  <2>2. QED BY <1>2, <1>4, <2>1 DEF IInv, SessionInv, SessionOK, SessionRow
<1>6. status \in SessionStatus /\ status # "absent"
  BY <1>4, <1>5 DEF SessionRow, SessionStatus
<1>7. row \in SessionRow /\ row.last = t /\ row.status = status
      /\ row.completed = sess[s].completed /\ row.running = sess[s].running
  <2> DEFINE old == sess[s]
  <2> HIDE DEF status, t, old
  <2>1. [old EXCEPT !.last = t, !.status = status] \in SessionRow
    BY <1>4, <1>5, <1>6 DEF SessionRow, old
  <2>2. /\ [old EXCEPT !.last = t, !.status = status].last = t
        /\ [old EXCEPT !.last = t, !.status = status].status = status
        /\ [old EXCEPT !.last = t, !.status = status].completed = old.completed
        /\ [old EXCEPT !.last = t, !.status = status].running = old.running
    BY <1>5 DEF SessionRow, old
  <2>3. QED BY <2>1, <2>2 DEF old
<1> HIDE DEF status, row
<1>8. /\ new \in SessionRow /\ new.status = row.status /\ new.last = row.last
      /\ new.completed = row.completed /\ new.running = row.running
  BY <1>2, <1>5, <1>7, PersistTyped
<1> HIDE DEF new, t
<1>9. SessionOK(task, s, new) /\ new.status # "absent"
  BY <1>3, <1>5, <1>6, <1>7, <1>8 DEF SessionOK, Earned
<1> HIDE DEF s
<1>10. sess' \in [Session -> SessionRow] /\ RowsKept(sess, sess')
       /\ \A u \in Session : sess'[u] = sess[u] \/ SessionOK(task, u, sess'[u])
  <2>1. CASE task[t].status = "DELETED"
    BY <1>1, <1>2, <2>1 DEF RowsKept
  <2>2. CASE task[t].status # "DELETED"
    <3>1. /\ sess' \in [Session -> SessionRow] /\ sess'[s] = new
          /\ \A u \in Session \ {s} : sess'[u] = sess[u]
      BY <1>1, <1>2, <1>4, <1>8, <2>2
    <3>2. QED BY <1>9, <3>1 DEF RowsKept
  <2>3. QED BY <2>1, <2>2
<1>11. QED BY <1>1, <1>10, RequestEnds

(* The third commit leaves the completed stages alone. *)
LEMMA SubmitKeepsProgress ==
  ASSUME IInv, NEW c \in Clients, ApproveSubmit(c), NEW s \in Session
  PROVE  sess'[s].completed = sess[s].completed
<1> DEFINE u == req[c].session
           t == req[c].task
           old == sess[u]
           status == IF task[t].mode = "apply" THEN "running" ELSE old.status
           plan == req[c].out.plan
           shot == SnapshotOf([old EXCEPT !.last = t, !.status = status], runner)
           new == [[old EXCEPT !.last = t, !.status = status]
                     EXCEPT !.plan = plan, !.snap = {shot}]
<1>1. sess' = sess \/ sess' = [sess EXCEPT ![u] = new]
  BY DEF ApproveSubmit, PersistSnapshot
<1>2. sess \in [Session -> SessionRow]
  BY DEF IInv, TypeOK
<1>3. s = u => new.completed = old.completed
  <2> HIDE DEF status, shot, t, plan
  <2>1. QED BY <1>2 DEF SessionRow
<1> HIDE DEF new
<1>4. QED BY <1>1, <1>2, <1>3

-----------------------------------------------------------------------------
(* The runner. *)

(* A runner without a job. *)
LEMMA IdleJob ==
  ASSUME NEW T
  PROVE  NoJob \in JobRow /\ JobOK(T, NoJob)
<1>1. NoJob.at = "idle"
  BY DEF NoJob
<1>2. QED BY <1>1, FirstRows DEF JobOK

(* The runner goes on with its job and nobody else is concerned. *)
LEMMA JobMoves ==
  ASSUME IInv, job' \in JobRow, JobOK(task, job'), runner' \in HostStatus,
         UNCHANGED <<steps, sess, task, reverify, req>>
  PROVE  IInv'
<1>1. TypeOK'
  BY DEF IInv, TypeOK
<1>2. QED BY <1>1, NothingWritten

(* The host or the process that answers it dies. *)
LEMMA JobDiesStep ==
  ASSUME IInv, JobDies
  PROVE  IInv'
BY IdleJob, JobMoves DEF JobDies, IInv, TypeOK

(* The poll picks the oldest task it may dispatch. *)
LEMMA PollReadStep ==
  ASSUME IInv, PollRead
  PROVE  IInv'
<1> DEFINE mine == {t \in DOMAIN task : Dispatchable(t)}
<1>1. UNCHANGED <<steps, sess, task, reverify, req>>
  BY DEF PollRead
<1>2. CASE mine = {}
  <2>1. runner' = "online" /\ job' = job
    BY <1>2 DEF PollRead
  <2>2. QED BY <1>1, <2>1, JobMoves DEF IInv, TypeOK, HostStatus
<1>3. CASE mine # {}
  <2> DEFINE t == MinOf(mine)
             next == [NoJob EXCEPT !.at = "polled", !.task = t]
  <2>1. job' = next /\ runner' = runner
    BY <1>3 DEF PollRead
  <2>2. t \in mine
    <3>1. mine \subseteq Nat
      BY TasksTyped DEF IInv
    <3>2. QED BY <1>3, <3>1, LeastNumber
  <2>3. t \in DOMAIN task /\ task[t].status = "PENDING" /\ task[t].context
    BY <2>2 DEF Dispatchable
  <2> HIDE DEF t, mine
  <2>4. task[t] \in TaskRow /\ t \in 0..MaxTasks /\ TaskOK(task[t])
    BY <2>3, TaskTyped, RemediationAssumption DEF IInv, TaskInv, Task
  <2>5. task[t].mode = "apply" /\ ~task[t].ran
    BY <2>3, <2>4 DEF TaskOK, TaskRow, Active
  <2>6. NoJob \in JobRow
    BY FirstRows
  <2>7. next \in JobRow
    BY <2>4, <2>6 DEF JobRow, JobStep
  <2>8. next.at = "polled" /\ next.task = t
    BY <2>6 DEF JobRow
  <2> HIDE DEF next
  <2>9. JobOK(task, next)
    BY <2>3, <2>5, <2>8 DEF JobOK
  <2>10. QED BY <1>1, <2>1, <2>7, <2>9, JobMoves DEF IInv, TypeOK
<1>4. QED BY <1>2, <1>3

(* What is true of the task that the runner works on. *)
LEMMA JobTask ==
  ASSUME IInv, job.at # "idle"
  PROVE  /\ job \in JobRow /\ job.task \in DOMAIN task /\ task[job.task] \in TaskRow
         /\ TaskOK(task[job.task]) /\ task[job.task].mode = "apply"
         /\ task[job.task].context /\ (task[job.task].ran <=> job.at # "polled")
         /\ task[job.task].session \in Session /\ task[job.task].stage \in Stage
         /\ sess[task[job.task].session].status # "absent"
<1>1. /\ job \in JobRow /\ JobOK(task, job)
  BY DEF IInv, TypeOK
<1>2. /\ job.task \in DOMAIN task /\ task[job.task].mode = "apply"
      /\ task[job.task].context /\ (task[job.task].ran <=> job.at # "polled")
  BY <1>1 DEF JobOK
<1>3. task[job.task] \in TaskRow
  BY <1>2, TaskTyped DEF IInv
<1>4. TaskOK(task[job.task]) /\ sess[task[job.task].session].status # "absent"
  BY <1>2 DEF IInv, TaskInv
<1>5. QED BY <1>1, <1>2, <1>3, <1>4 DEF TaskRow

(* The task of the job changes together with the job. *)
LEMMA JobTaskStep ==
  ASSUME IInv, job.at # "idle", NEW row \in TaskRow, TaskOK(row),
         task' = [task EXCEPT ![job.task] = row],
         row.session = task[job.task].session, row.stage = task[job.task].stage,
         row.mode = "apply", row.context, row.ran, job' \in JobRow, job'.task = job.task,
         job'.at \in {"execute", "update"}, runner' \in HostStatus,
         UNCHANGED <<steps, sess, reverify, req>>
  PROVE  IInv'
<1> DEFINE t == job.task
<1>1. /\ t \in DOMAIN task /\ task[t].mode = "apply"
  BY JobTask
<1>2. /\ task' \in Seq(TaskRow) /\ Len(task') <= MaxTasks
      /\ DOMAIN task' = DOMAIN task /\ Extends(task, task') /\ task'[t] = row
      /\ \A u \in DOMAIN task' : TaskOK(task'[u]) /\ u \in DOMAIN task
  BY <1>1, TaskChanges
<1>3. TypeOK'
  BY <1>2 DEF IInv, TypeOK
<1>4. JobOK(task', job')
  BY <1>1, <1>2 DEF JobOK
<1>5. RowsKept(sess, sess')
  BY DEF RowsKept
<1>6. QED BY <1>2, <1>3, <1>4, <1>5, StepKeeps

(* The poll commits: the task is dispatched. *)
LEMMA PollCommitStep ==
  ASSUME IInv, PollCommit
  PROVE  IInv'
<1> DEFINE t == job.task
           row == [task[t] EXCEPT !.status = "RUNNING", !.ran = TRUE]
           next == [job EXCEPT !.at = "execute"]
<1>1. job.at = "polled" /\ UNCHANGED <<steps, sess, reverify, req>>
  BY DEF PollCommit
<1>2. /\ job \in JobRow /\ t \in DOMAIN task /\ task[t] \in TaskRow
      /\ TaskOK(task[t]) /\ task[t].mode = "apply" /\ task[t].context
  BY <1>1, JobTask
<1>3. CASE task[t].status = "DELETED"
  BY <1>1, <1>3, IdleJob, JobMoves DEF PollCommit, IInv, TypeOK
<1>4. CASE task[t].status # "DELETED"
  <2>1. task' = [task EXCEPT ![t] = row] /\ runner' = "busy" /\ job' = next
    <3>1. task' = [task EXCEPT ![t].status = "RUNNING", ![t].ran = TRUE]
      BY <1>4 DEF PollCommit
    <3>2. QED BY <1>2, <1>4, <3>1 DEF PollCommit
  <2>2. row \in TaskRow
    BY <1>2 DEF TaskRow, Active
  <2>3. /\ row.session = task[t].session /\ row.stage = task[t].stage
        /\ row.mode = task[t].mode /\ row.context = task[t].context
    BY <1>2 DEF TaskRow
  <2>4. row.ran = TRUE /\ row.status = "RUNNING"
    BY <1>2 DEF TaskRow
  <2>5. next \in JobRow
    BY <1>2 DEF JobRow, JobStep
  <2>6. next.at = "execute" /\ next.task = t
    BY <1>2 DEF JobRow
  <2> HIDE DEF row, next
  <2>7. TaskOK(row)
    BY <1>2, <2>3, <2>4 DEF TaskOK
  <2>8. runner' \in HostStatus
    BY <2>1 DEF HostStatus
  <2>9. QED BY <1>1, <1>2, <2>1, <2>2, <2>3, <2>4, <2>5, <2>6, <2>7, <2>8, JobTaskStep
<1>5. QED BY <1>3, <1>4

(* The runner reports, and the re-verification is published. *)
LEMMA CompleteStep ==
  ASSUME IInv, Complete
  PROVE  IInv'
<1> DEFINE t == job.task
<1>1. /\ job.at = "execute" /\ UNCHANGED <<steps, runner, sess, task, req>>
      /\ \E ok, some \in BOOLEAN :
           IF task[t].status = "DELETED"
             THEN job' = NoJob /\ UNCHANGED reverify
             ELSE /\ job' = [job EXCEPT !.at = "report", !.ok = ok,
                                        !.queued = AutoReverify /\ some]
                  /\ reverify' = IF AutoReverify /\ some
                                   THEN [reverify EXCEPT ![t] = "queued"]
                                   ELSE reverify
  BY DEF Complete
<1>2. /\ job \in JobRow /\ t \in DOMAIN task /\ task[t].mode = "apply"
      /\ task[t].context /\ task[t].ran
  BY <1>1, JobTask
<1>3. CASE task[t].status = "DELETED"
  BY <1>1, <1>3, IdleJob, JobMoves DEF IInv, TypeOK
<1>4. CASE task[t].status # "DELETED"
  <2>1. PICK ok \in BOOLEAN, queued \in BOOLEAN :
          /\ job' = [job EXCEPT !.at = "report", !.ok = ok, !.queued = queued]
          /\ reverify' \in {reverify, [reverify EXCEPT ![t] = "queued"]}
    BY <1>1, <1>4, RemediationAssumption
  <2> DEFINE next == [job EXCEPT !.at = "report", !.ok = ok, !.queued = queued]
  <2>2. next \in JobRow
    BY <1>2, <2>1 DEF JobRow, JobStep
  <2>3. next.at = "report" /\ next.task = t
    BY <1>2 DEF JobRow
  <2>4. job' = next
    BY <2>1
  <2> HIDE DEF next, t
  <2>5. JobOK(task, job')
    BY <1>2, <2>3, <2>4 DEF JobOK
  <2>6. /\ reverify' \in [Task -> {"none", "queued", "running", "evaluated",
                                  "judged", "done", "lost"}]
        /\ \A u \in Task : reverify'[u] # "none" => reverify[u] # "none" \/ u = t
    BY <2>1 DEF IInv, TypeOK
  <2>7. TypeOK'
    BY <1>1, <2>2, <2>4, <2>6 DEF IInv, TypeOK
  <2>8. QED BY <1>1, <1>2, <2>5, <2>6, <2>7, NothingWritten
<1>5. QED BY <1>3, <1>4

(* The report is saved in the task. *)
LEMMA CompleteTaskStep ==
  ASSUME IInv, CompleteTask
  PROVE  IInv'
<1> DEFINE t == job.task
           status == IF job.ok THEN "SUCCESS" ELSE "FAILURE"
           business == IF ~job.queued THEN task[t].business
                       ELSE IF job.ok THEN "pending" ELSE "failed"
           row == [task[t] EXCEPT !.status = status, !.business = business]
           next == [job EXCEPT !.at = "update"]
<1>1. job.at = "report" /\ UNCHANGED <<steps, runner, sess, reverify, req>>
  BY DEF CompleteTask
<1>2. /\ job \in JobRow /\ t \in DOMAIN task /\ task[t] \in TaskRow
      /\ TaskOK(task[t]) /\ task[t].mode = "apply" /\ task[t].context /\ task[t].ran
  BY <1>1, JobTask
<1>3. CASE task[t].status = "DELETED"
  BY <1>1, <1>3, IdleJob, JobMoves DEF CompleteTask, IInv, TypeOK
<1>4. CASE task[t].status # "DELETED"
  <2>1. task' = [task EXCEPT ![t] = row] /\ job' = next
    <3>1. task' = [task EXCEPT
                 ![t].status = IF job.ok THEN "SUCCESS" ELSE "FAILURE",
                 ![t].business = IF ~job.queued THEN @
                                 ELSE IF job.ok THEN "pending" ELSE "failed"]
      BY <1>4 DEF CompleteTask
    <3>2. QED BY <1>2, <1>4, <3>1 DEF CompleteTask
  <2>2. status \in {"SUCCESS", "FAILURE"}
    OBVIOUS
  <2>3. business \in Verdict \cup {"none", "pending"}
    <3>1. business \in {task[t].business, "pending", "failed"}
      OBVIOUS
    <3>2. QED BY <1>2, <3>1 DEF TaskRow, Verdict
  <2> HIDE DEF status, business
  <2>4. row \in TaskRow
    BY <1>2, <2>2, <2>3 DEF TaskRow, Active, Terminal
  <2>5. /\ row.session = task[t].session /\ row.stage = task[t].stage
        /\ row.mode = task[t].mode /\ row.context = task[t].context
    BY <1>2 DEF TaskRow
  <2>6. row.ran = task[t].ran /\ row.status = status
    BY <1>2 DEF TaskRow
  <2>7. next \in JobRow
    BY <1>2 DEF JobRow, JobStep
  <2>8. next.at = "update" /\ next.task = t
    BY <1>2 DEF JobRow
  <2> HIDE DEF row, next
  <2>9. TaskOK(row)
    BY <1>2, <2>2, <2>5, <2>6 DEF TaskOK
  <2>10. runner' \in HostStatus
    BY <1>1 DEF IInv, TypeOK
  <2>11. QED BY <1>1, <1>2, <2>1, <2>4, <2>5, <2>6, <2>7, <2>8, <2>9, <2>10, JobTaskStep
<1>5. QED BY <1>3, <1>4

(* The report reads its session. *)
LEMMA SessionReadStep ==
  ASSUME IInv, SessionRead
  PROVE  IInv'
<1> DEFINE t == task[job.task]
           s == t.session
           k == t.stage
           old == sess[s]
           completed == IF job.ok THEN old.completed \cup {k} ELSE old.completed
           status == IF job.ok THEN "draft" ELSE "failed"
           n == job.task
           row == [old EXCEPT !.completed = completed, !.running = None,
                     !.last = n, !.status = status]
           out == Refresh(row, "online")
           next == [job EXCEPT !.at = "commit", !.view = old, !.out = out]
<1>1. /\ job.at = "update" /\ job' = next
      /\ UNCHANGED <<steps, runner, sess, task, reverify, req>>
  BY DEF SessionRead
<1>2. /\ job \in JobRow /\ n \in DOMAIN task /\ t.mode = "apply" /\ t.context /\ t.ran
      /\ s \in Session /\ k \in Stage /\ old.status # "absent"
  BY <1>1, JobTask
<1>3. /\ old \in SessionRow /\ Earned(task, s, old) /\ n \in 0..MaxTasks
  BY <1>2, TasksTyped, RemediationAssumption DEF IInv, TypeOK, SessionInv, SessionOK, Task
<1>4. /\ completed \in SUBSET Stage /\ old.completed \subseteq completed
      /\ completed \subseteq old.completed \cup {k}
  BY <1>2, <1>3 DEF SessionRow
<1>5. Begun(task, s, k)
  BY <1>2 DEF Begun
<1>6. status \in SessionStatus /\ None \in 0..NumStages
  BY RemediationAssumption DEF SessionStatus, None
<1> HIDE DEF status, completed, old, n
<1>7. row \in SessionRow
  BY <1>3, <1>4, <1>6 DEF SessionRow
<1>8. /\ row.completed = completed /\ row.running = None /\ row.last = n
  BY <1>3 DEF SessionRow
<1> HIDE DEF row
<1>9. Earned(task, s, row)
  BY <1>2, <1>3, <1>4, <1>5, <1>8 DEF Earned, n
<1>10. /\ out \in SessionRow /\ Earned(task, s, out)
       /\ row.completed \subseteq out.completed /\ out.status # "absent"
  BY <1>2, <1>7, <1>9, RefreshEarned DEF IInv, HostStatus
<1> HIDE DEF out
<1>11. Pending(task, s, old, out)
  BY <1>2, <1>3, <1>4, <1>8, <1>10 DEF Pending
<1>12. next \in JobRow
  BY <1>2, <1>3, <1>10 DEF JobRow, JobStep
<1>13. /\ next.at = "commit" /\ next.task = job.task
       /\ next.view = old /\ next.out = out
  BY <1>2 DEF JobRow
<1> HIDE DEF next
<1>14. JobOK(task, job')
  BY <1>1, <1>2, <1>11, <1>13 DEF JobOK, n
<1>15. QED BY <1>1, <1>12, <1>14, JobMoves DEF IInv, TypeOK

(* The commit of the report, as the one of a request. *)
LEMMA ReportCommitted ==
  ASSUME IInv, SessionCommit, task[job.task].status # "DELETED"
  PROVE  LET s == task[job.task].session
         IN  /\ s \in Session /\ sess' \in [Session -> SessionRow] /\ RowsKept(sess, sess')
             /\ \A u \in Session : u # s => sess'[u] = sess[u]
             /\ SessionOK(task, s, sess'[s])
             /\ \A k \in sess[s].completed \ sess'[s].completed : k \notin job.view.completed
<1> DEFINE s == task[job.task].session
           old == sess[s]
           view == job.view
           out == job.out
<1>1. PICK force \in BOOLEAN :
        /\ job.at = "commit"
        /\ sess' = [sess EXCEPT ![s] = Merge(old, view, out, force)]
  BY DEF SessionCommit
<1>2. /\ s \in Session /\ old.status # "absent" /\ job \in JobRow
  BY <1>1, JobTask
<1>3. /\ old \in SessionRow /\ Earned(task, s, old) /\ Pending(task, s, view, out)
      /\ view \in SessionRow /\ out \in SessionRow /\ sess \in [Session -> SessionRow]
  BY <1>1, <1>2 DEF IInv, TypeOK, SessionInv, SessionOK, JobOK, JobRow
<1> DEFINE m == Merge(old, view, out, force)
<1> HIDE DEF old, view, out, s
<1>4. /\ m \in SessionRow /\ Earned(task, s, m) /\ m.status # "absent"
      /\ \A k \in old.completed \ m.completed : k \notin view.completed
  BY <1>2, <1>3, MergeEarned
<1> HIDE DEF m
<1>5. /\ sess' \in [Session -> SessionRow] /\ sess'[s] = m
      /\ \A u \in Session : u # s => sess'[u] = sess[u]
  BY <1>1, <1>2, <1>3, <1>4 DEF m
<1>6. RowsKept(sess, sess')
  BY <1>4, <1>5 DEF RowsKept
<1>7. QED BY <1>2, <1>4, <1>5, <1>6 DEF SessionOK, s, old, view

(* The report commits its session. *)
LEMMA SessionCommitStep ==
  ASSUME IInv, SessionCommit
  PROVE  IInv'
<1>1. job.at = "commit" /\ job' = NoJob /\ UNCHANGED <<steps, task, reverify, req>>
  BY DEF SessionCommit
<1>2. CASE task[job.task].status = "DELETED"
  BY <1>1, <1>2, IdleJob, JobMoves DEF SessionCommit, IInv, TypeOK
<1>3. CASE task[job.task].status # "DELETED"
  <2>1. /\ sess' \in [Session -> SessionRow] /\ RowsKept(sess, sess')
        /\ \A u \in Session : sess'[u] = sess[u] \/ SessionOK(task, u, sess'[u])
    BY <1>3, ReportCommitted
  <2>2. runner' = "online"
    BY <1>3 DEF SessionCommit
  <2>3. TypeOK'
    BY <1>1, <2>1, <2>2, IdleJob DEF IInv, TypeOK, HostStatus
  <2>4. Extends(task, task') /\ JobOK(task', job')
    BY <1>1, IdleJob DEF Extends
  <2>5. \A t \in DOMAIN task' : TaskOK(task'[t])
    BY <1>1 DEF IInv, TaskInv
  <2>6. QED BY <1>1, <2>1, <2>3, <2>4, <2>5, StepKeeps
<1>4. QED BY <1>2, <1>3

-----------------------------------------------------------------------------
(* The verdict of a re-verification, written into its task and its session. *)

(* A verdict is saved by a re-verification under way. *)
LEMMA VerdictStep ==
  ASSUME IInv, NEW t \in Task, NEW verdict \in Verdict, NEW to \in {"judged", "done"},
         reverify[t] # "none", reverify' = [reverify EXCEPT ![t] = to], Finalize(t, verdict),
         UNCHANGED <<steps, runner, job, req>>
  PROVE  IInv'
<1> DEFINE s == task[t].session
           k == task[t].stage
           old == sess[s]
           completed == IF verdict = "closed" THEN old.completed \cup {k}
                        ELSE old.completed \ {k}
           running == IF old.running = k THEN None ELSE old.running
           status == IF verdict = "failed" THEN "failed" ELSE "ready"
           new == [old EXCEPT !.completed = completed, !.running = running, !.status = status]
           row == [task[t] EXCEPT !.business = verdict]
<1>1. t \in DOMAIN task /\ task[t].ran
  BY DEF IInv, ReverifyInv
<1>2. /\ task[t] \in TaskRow /\ TaskOK(task[t]) /\ s \in Session /\ k \in Stage
  BY <1>1, TaskTyped DEF IInv, TaskInv, TaskRow
<1>3. /\ old \in SessionRow /\ Earned(task, s, old) /\ sess \in [Session -> SessionRow]
  BY <1>2 DEF IInv, TypeOK, SessionInv, SessionOK
<1>4. /\ reverify' \in [Task -> {"none", "queued", "running", "evaluated",
                                "judged", "done", "lost"}]
      /\ \A u \in Task : reverify'[u] # "none" => reverify[u] # "none"
  BY DEF IInv, TypeOK
<1>5. CASE task[t].status = "DELETED"
  <2>1. UNCHANGED <<sess, task>>
    BY <1>5 DEF Finalize
  <2>2. TypeOK'
    BY <1>4, <2>1 DEF IInv, TypeOK
  <2>3. QED BY <1>4, <2>1, <2>2, OutsideStep
<1>6. CASE task[t].status # "DELETED"
  <2>1. task' = [task EXCEPT ![t] = row] /\ sess' = [sess EXCEPT ![s] = new]
    <3>1. /\ task' = [task EXCEPT ![t].business = verdict]
          /\ sess' = [sess EXCEPT ![s] = [old EXCEPT
               !.completed = IF verdict = "closed" THEN @ \cup {k} ELSE @ \ {k},
               !.running = IF @ = k THEN None ELSE @,
               !.status = IF verdict = "failed" THEN "failed" ELSE "ready"]]
      BY <1>6 DEF Finalize
    <3>2. QED BY <1>1, <3>1
  <2>2. row \in TaskRow
    BY <1>2 DEF TaskRow
  <2>3. /\ row.session = s /\ row.stage = k /\ row.mode = task[t].mode
        /\ row.context = task[t].context
    BY <1>2 DEF TaskRow
  <2>4. row.ran = task[t].ran /\ row.status = task[t].status
    BY <1>2 DEF TaskRow
  <2> HIDE DEF row
  <2>5. TaskOK(row)
    BY <1>1, <1>2, <2>3, <2>4 DEF TaskOK
  <2>6. /\ task' \in Seq(TaskRow) /\ Len(task') <= MaxTasks
        /\ DOMAIN task' = DOMAIN task /\ Extends(task, task') /\ task'[t] = row
        /\ \A u \in DOMAIN task \ {t} : task'[u] = task[u]
        /\ \A u \in DOMAIN task' : TaskOK(task'[u]) /\ u \in DOMAIN task
    BY <1>1, <2>1, <2>2, <2>3, <2>4, <2>5, TaskChanges
  <2>7. /\ completed \in SUBSET Stage
        /\ completed \subseteq old.completed \cup {k}
        /\ running \in 0..NumStages /\ running \in {None, old.running}
        /\ status \in SessionStatus /\ status # "absent"
    <3>1. completed \in SUBSET Stage /\ completed \subseteq old.completed \cup {k}
      BY <1>2, <1>3 DEF SessionRow
    <3>2. running \in 0..NumStages /\ running \in {None, old.running}
      BY <1>3, RemediationAssumption DEF SessionRow, None
    <3>3. status \in SessionStatus /\ status # "absent"
      BY DEF SessionStatus
    <3>4. QED BY <3>1, <3>2, <3>3
  <2>8. Begun(task', s, k)
    BY <1>1, <2>3, <2>4, <2>6 DEF Begun
  <2>9. Earned(task', s, old)
    BY <1>3, <2>6, EarnedStays
  <2> HIDE DEF completed, running, status, old, s, k
  <2>10. new \in SessionRow
    BY <1>3, <2>7 DEF SessionRow
  <2>11. /\ new.completed = completed /\ new.running = running
         /\ new.status = status /\ new.last = old.last
    BY <1>3 DEF SessionRow
  <2> HIDE DEF new
  <2>12. SessionOK(task', s, new)
    BY <2>7, <2>8, <2>9, <2>11 DEF SessionOK, Earned
  <2>13. /\ sess' \in [Session -> SessionRow] /\ sess'[s] = new
         /\ \A u \in Session \ {s} : sess'[u] = sess[u]
    BY <1>2, <1>3, <2>1, <2>10
  <2>14. /\ RowsKept(sess, sess')
         /\ \A u \in Session : sess'[u] = sess[u] \/ SessionOK(task', u, sess'[u])
    BY <2>7, <2>11, <2>12, <2>13 DEF RowsKept
  <2>15. TypeOK'
    BY <1>4, <2>6, <2>13 DEF IInv, TypeOK
  <2>16. JobOK(task', job')
    <3>1. job.at # "idle" => job.task \in DOMAIN task /\ task'[job.task].ran = task[job.task].ran
      BY <2>4, <2>6 DEF IInv, JobOK
    <3>2. QED BY <2>6, <3>1, JobStays DEF IInv
  <2>17. QED BY <1>4, <2>6, <2>14, <2>15, <2>16, StepKeeps
<1>7. QED BY <1>5, <1>6

(* The two ways to a verdict. *)
LEMMA ReverifyVerdictStep ==
  ASSUME IInv, NEW t \in Task, ReverifyJudge(t) \/ ReverifyRaises(t)
  PROVE  IInv'
<1>1. CASE ReverifyJudge(t)
  <2>1. PICK verdict \in {"closed", "partial"} : Finalize(t, verdict)
    BY <1>1 DEF ReverifyJudge
  <2>2. verdict \in Verdict
    BY DEF Verdict
  <2>3. /\ reverify[t] # "none" /\ reverify' = [reverify EXCEPT ![t] = "judged"]
        /\ UNCHANGED <<steps, runner, job, req>>
    BY <1>1 DEF ReverifyJudge, Reverify
  <2>4. QED BY <2>1, <2>2, <2>3, VerdictStep
<1>2. CASE ReverifyRaises(t)
  <2>1. /\ reverify[t] # "none" /\ reverify' = [reverify EXCEPT ![t] = "done"]
        /\ UNCHANGED <<steps, runner, job, req>> /\ Finalize(t, "failed")
    BY <1>2 DEF ReverifyRaises, Reverify
  <2>2. QED BY <2>1, VerdictStep DEF Verdict
<1>3. QED BY <1>1, <1>2

-----------------------------------------------------------------------------
(* The task list: rows are closed and deleted under the feet of the others. *)

(* Only the status of tasks changes, and it becomes terminal or "DELETED". *)
LEMMA StatusStep ==
  ASSUME IInv, task' \in Seq(TaskRow), Len(task') = Len(task), DOMAIN task' = DOMAIN task,
         \A u \in DOMAIN task :
           \/ task'[u] = task[u]
           \/ /\ task'[u].status \in Terminal \cup {"DELETED"}
              /\ task'[u].session = task[u].session /\ task'[u].stage = task[u].stage
              /\ task'[u].mode = task[u].mode /\ task'[u].context = task[u].context
              /\ task'[u].business = task[u].business /\ task'[u].ran = task[u].ran,
         UNCHANGED <<steps, runner, sess, reverify, job, req>>
  PROVE  IInv'
<1>1. Extends(task, task')
  BY DEF Extends
<1>2. \A u \in DOMAIN task' : TaskOK(task'[u]) /\ u \in DOMAIN task
  BY DEF IInv, TaskInv, TaskOK, Terminal, Active
<1>3. TypeOK'
  BY DEF IInv, TypeOK
<1>4. JobOK(task', job')
  <2>1. job.at # "idle" => task'[job.task].ran = task[job.task].ran
    BY DEF IInv, JobOK
  <2>2. QED BY <1>1, <2>1, JobStays DEF IInv
<1>5. RowsKept(sess, sess')
  BY DEF RowsKept
<1>6. QED BY <1>1, <1>2, <1>3, <1>4, <1>5, StepKeeps

(* A task is canceled or swept. *)
LEMMA CloseTaskStep ==
  ASSUME IInv, NEW t \in DOMAIN task, CancelTask(t) \/ SweepTask(t)
  PROVE  IInv'
<1>1. PICK new \in {"CANCELED", "FAILURE"} : CloseTask(t, new)
  BY DEF CancelTask, SweepTask
<1> DEFINE row == [task[t] EXCEPT !.status = new]
<1>2. /\ task' = [task EXCEPT ![t] = row]
      /\ UNCHANGED <<steps, runner, sess, reverify, job, req>>
  BY <1>1 DEF CloseTask
<1>3. task[t] \in TaskRow
  BY TaskTyped DEF IInv
<1>4. new \in Terminal
  BY <1>1 DEF Terminal
<1>5. row \in TaskRow
  BY <1>3, <1>4 DEF TaskRow
<1>6. /\ row.session = task[t].session /\ row.stage = task[t].stage
      /\ row.mode = task[t].mode /\ row.context = task[t].context
  BY <1>3 DEF TaskRow
<1>7. row.business = task[t].business /\ row.ran = task[t].ran /\ row.status = new
  BY <1>3 DEF TaskRow
<1> HIDE DEF row
<1>8. /\ task' \in Seq(TaskRow) /\ Len(task') = Len(task) /\ DOMAIN task' = DOMAIN task
      /\ task'[t] = row /\ \A u \in DOMAIN task \ {t} : task'[u] = task[u]
  BY <1>2, <1>5, TaskReplaced DEF IInv
<1>9. QED BY <1>2, <1>4, <1>6, <1>7, <1>8, StatusStep

(* Ended tasks are deleted. *)
LEMMA ClearTasksStep ==
  ASSUME IInv, ClearTasks
  PROVE  IInv'
<1>1. PICK S \in SUBSET Terminal :
        task' = [t \in DOMAIN task |->
          IF task[t].status \in S THEN [task[t] EXCEPT !.status = "DELETED"] ELSE task[t]]
  BY DEF ClearTasks
<1>2. UNCHANGED <<steps, runner, sess, reverify, job, req>>
  BY DEF ClearTasks
<1>3. Len(task) \in Nat /\ DOMAIN task = 1..Len(task)
  BY TasksTyped DEF IInv
<1>4. ASSUME NEW u \in DOMAIN task
      PROVE  /\ task'[u] \in TaskRow
             /\ \/ task'[u] = task[u]
                \/ /\ task'[u].status = "DELETED"
                   /\ task'[u].session = task[u].session /\ task'[u].stage = task[u].stage
                   /\ task'[u].mode = task[u].mode /\ task'[u].context = task[u].context
                   /\ task'[u].business = task[u].business /\ task'[u].ran = task[u].ran
  <2> DEFINE old == task[u]
             row == [old EXCEPT !.status = "DELETED"]
  <2>1. old \in TaskRow
    BY <1>4, TaskTyped DEF IInv
  <2>2. task'[u] \in {row, old}
    BY <1>1, <1>4
  <2> HIDE DEF old
  <2>3. row \in TaskRow
    BY <2>1 DEF TaskRow
  <2>4. /\ row.status = "DELETED" /\ row.session = old.session /\ row.stage = old.stage
        /\ row.mode = old.mode
    BY <2>1 DEF TaskRow
  <2>5. /\ row.context = old.context /\ row.business = old.business /\ row.ran = old.ran
    BY <2>1 DEF TaskRow
  <2> HIDE DEF row
  <2>6. QED BY <2>1, <2>2, <2>3, <2>4, <2>5 DEF old
<1>5. task' \in Seq(TaskRow)
  <2>1. task' \in [1..Len(task) -> TaskRow]
    BY <1>1, <1>3, <1>4
  <2>2. QED BY <1>3, <2>1, SeqDef
<1>6. DOMAIN task' = DOMAIN task
  BY <1>1
<1>7. Len(task') = Len(task)
  <2>1. Len(task') \in Nat /\ DOMAIN task' = 1..Len(task')
    BY <1>5, LenProperties
  <2>2. 1..Len(task') = 1..Len(task)
    BY <1>3, <1>6, <2>1
  <2> DEFINE m == Len(task')
             n == Len(task)
  <2>3. m \in Nat /\ n \in Nat /\ 1..m = 1..n
    BY <1>3, <2>1, <2>2
  <2> HIDE DEF m, n
  <2>4. /\ m # 0 => m \in 1..n
        /\ n # 0 => n \in 1..m
    BY <2>3
  <2>5. m = n
    BY <2>3, <2>4
  <2>6. QED BY <2>5 DEF m, n
<1>8. QED BY <1>2, <1>4, <1>5, <1>6, <1>7, StatusStep

-----------------------------------------------------------------------------
(* Nothing is there at first, so all of it is justified. *)
LEMMA Initially == Init => IInv
<1> SUFFICES ASSUME Init  PROVE IInv
  OBVIOUS
<1>1. task = <<>> /\ DOMAIN task = {} /\ Len(task) = 0 /\ task \in Seq(TaskRow)
  BY EmptySeq DEF Init
<1>2. TypeOK
  BY <1>1, FirstRows, RemediationAssumption DEF Init, TypeOK, HostStatus
<1>3. TaskInv /\ ReverifyInv
  BY <1>1 DEF Init, TaskInv, ReverifyInv
<1>4. SessionInv
  BY FirstRows DEF Init, SessionInv, SessionOK, Earned
<1>5. JobOK(task, job) /\ RequestInv
  BY IdleJob, IdleRequest DEF Init, RequestInv
<1>6. QED BY <1>2, <1>3, <1>4, <1>5 DEF IInv

(* Every step of every actor keeps the invariant. *)
LEMMA EveryStep == IInv /\ [Next]_vars => IInv'
<1> SUFFICES ASSUME IInv, [Next]_vars  PROVE IInv'
  OBVIOUS
<1>1. ASSUME NEW c \in Clients, NEW s \in Rows, GetBegin(c, s) \/ AiBegin(c, s)  PROVE IInv'
  BY <1>1, GetBeginStep, AiBeginStep
<1>2. ASSUME NEW c \in Clients, NEW s \in Rows, NEW mode \in {"apply", "dry_run"} \cap Requests,
             ApproveBegin(c, s, mode)
      PROVE  IInv'
  BY <1>2, ApproveBeginStep
<1>3. ASSUME NEW c \in Clients, CreateBegin(c) \/ RequestStep(c) \/ RequestDies(c)  PROVE IInv'
  BY <1>3, CreateBeginStep, GetCommitStep, CreateCommitStep, ApproveTaskStep,
     ApproveContextStep, ApproveSubmitStep, RequestDiesStep DEF RequestStep
<1>4. CASE RunnerStep \/ JobDies
  BY <1>4, PollReadStep, PollCommitStep, CompleteStep, CompleteTaskStep,
     SessionReadStep, SessionCommitStep, JobDiesStep DEF RunnerStep
<1>5. ASSUME NEW t \in Task, ReverifyStep(t) \/ ReverifyLost(t)  PROVE IInv'
  BY <1>5, ReverifyOutsideStep, ReverifyVerdictStep DEF ReverifyStep
<1>6. ASSUME NEW t \in DOMAIN task, CancelTask(t) \/ SweepTask(t)  PROVE IInv'
  BY <1>6, CloseTaskStep
<1>7. CASE ClearTasks \/ FindingsChange \/ HeartbeatLost \/ Heartbeat
  BY <1>7, ClearTasksStep, EnvironmentStep
<1>8. CASE UNCHANGED vars
  BY <1>8 DEF vars, IInv, TypeOK, TaskInv, ReverifyInv, SessionInv, RequestInv
<1>9. QED BY <1>1, <1>2, <1>3, <1>4, <1>5, <1>6, <1>7, <1>8 DEF Next

(* The inductive invariant holds in every state that is reached. *)
THEOREM AlwaysIInv == Spec => []IInv
<1>1. Init => IInv
  BY Initially
<1>2. IInv /\ [Next]_vars => IInv'
  BY EveryStep
<1>3. QED BY <1>1, <1>2, PTL DEF Spec

(***************************************************************************)
(* Rows, tasks, requests and the job keep their types, for any number of   *)
(* sessions, tasks, stages and clients.                                    *)
(***************************************************************************)
THEOREM TypeCorrect == Spec => []TypeOK
<1>1. IInv => TypeOK
  BY DEF IInv
<1>2. QED BY <1>1, AlwaysIInv, PTL

(***************************************************************************)
(* Whatever the runner has received was approved for execution and names   *)
(* its session: a dry run is closed in the commit that gives it a context, *)
(* so it is never PENDING with one.                                        *)
(***************************************************************************)
THEOREM DispatchIsApproved == Spec => []OnlyApprovedWorkIsDispatched
<1>1. IInv => OnlyApprovedWorkIsDispatched
  BY DEF IInv, TaskInv, TaskOK, OnlyApprovedWorkIsDispatched
<1>2. QED BY <1>1, AlwaysIInv, PTL

(***************************************************************************)
(* No row claims progress that the tasks of its session do not justify,    *)
(* although rows are overwritten with what was computed from older ones:   *)
(* tasks never lose what justifies a row, so older rows stay justified.    *)
(***************************************************************************)
THEOREM ProgressStaysEarned == Spec => []ProgressIsEarned
<1>1. IInv => ProgressIsEarned
  BY DEF IInv, SessionInv, SessionOK, Earned, Begun, Approved, ProgressIsEarned
<1>2. QED BY <1>1, AlwaysIInv, PTL

(* Whatever state a session is read in, one read repairs it completely. *)
THEOREM OneReadRepairs == Spec => []SecondReadAgrees
<1>1. IInv => SecondReadAgrees
  <2> SUFFICES ASSUME IInv, NEW s \in Rows
               PROVE  LET first == Refresh(sess[s], runner)
                      IN  Refresh(first, runner).status = first.status
    BY DEF SecondReadAgrees
  <2>1. /\ sess[s] \in SessionRow /\ runner \in HostStatus /\ TypeOK
        /\ Earned(task, s, sess[s])
    BY DEF Rows, IInv, TypeOK, SessionInv, SessionOK
  <2>2. HasLastTask(sess[s]) => sess[s].last \in DOMAIN task
    BY <2>1 DEF HasLastTask, Earned
  <2>3. QED BY <2>1, <2>2, RefreshIsComplete
<1>2. QED BY <1>1, AlwaysIInv, PTL

(***************************************************************************)
(* The commands of an approval reach the runner at most once: only a job   *)
(* that was just polled receives them, and its task has not run yet.       *)
(***************************************************************************)
THEOREM DispatchedAtMostOnce == Spec => NoTaskIsDispatchedTwice
<1> DEFINE Once == \A t \in DOMAIN task :
             task[t].ran => ~(job.at = "polled" /\ job'.at = "execute" /\ job'.task = t)
<1>1. IInv /\ [Next]_vars => [Once]_vars
  <2> SUFFICES ASSUME IInv, Next, NEW t \in DOMAIN task, task[t].ran,
                      job.at = "polled", job'.at = "execute", job'.task = t
               PROVE  FALSE
    OBVIOUS
  <2>1. job \in JobRow /\ ~task[job.task].ran
    BY JobTask
  <2>2. NoJob.at = "idle" /\ job' # job
    BY DEF NoJob
  <2>3. CASE PollCommit
    <3>1. job' = [job EXCEPT !.at = "execute"]
      BY <2>2, <2>3 DEF PollCommit
    <3>2. job'.task = job.task
      BY <2>1, <3>1 DEF JobRow
    <3>3. QED BY <2>1, <3>2
  <2>4. CASE JobDies
    BY <2>2, <2>4 DEF JobDies
  <2>5. CASE PollRead \/ Complete \/ CompleteTask \/ SessionRead \/ SessionCommit
    BY <2>5 DEF PollRead, Complete, CompleteTask, SessionRead, SessionCommit
  <2>6. CASE ~(RunnerStep \/ JobDies)
    <3>1. job' = job
      BY <2>6 DEF Next, GetBegin, AiBegin, ApproveBegin, CreateBegin, RequestStep,
         GetCommit, AiCommit, CreateCommit, ApproveTask, ApproveContext, ApproveSubmit,
         RequestDies, ReverifyStep, ReverifyStart, ReverifyEvaluate, ReverifyJudge,
         ReverifyRaises, ReverifyDone, ReverifyLost, Reverify, CancelTask, SweepTask,
         CloseTask, ClearTasks, FindingsChange, HeartbeatLost, Heartbeat
    <3>2. QED BY <2>2, <3>1
  <2>7. QED BY <2>3, <2>4, <2>5, <2>6 DEF RunnerStep
<1>2. QED BY <1>1, AlwaysIInv, PTL DEF Spec, NoTaskIsDispatchedTwice

(***************************************************************************)
(* A completed stage is given up only by a verdict on one of its tasks, or *)
(* by a commit that had read the session before the stage was completed.   *)
(***************************************************************************)
THEOREM CompletionLasts == Spec => CompletionIsWithdrawnOnlyByVerdict
<1> DEFINE Verdicts(s, k) == \E t \in DOMAIN task :
             /\ task[t].session = s /\ task[t].stage = k
             /\ reverify'[t] # reverify[t] /\ task'[t].business \in {"partial", "failed"}
           Commits(s, k) == \E c \in Clients :
             /\ req[c].op \in {"get", "ai", "create"} /\ req'[c] # req[c]
             /\ req[c].session = s /\ k \notin req[c].view.completed
           Reports(s, k) ==
             /\ job.at = "commit" /\ job' # job
             /\ task[job.task].session = s /\ k \notin job.view.completed
<1>1. ASSUME IInv, Next, NEW s \in Session, NEW k \in sess[s].completed \ sess'[s].completed
      PROVE  Verdicts(s, k) \/ Commits(s, k) \/ Reports(s, k)
  <2>1. /\ sess \in [Session -> SessionRow] /\ req \in [Clients -> RequestRow]
        /\ NoRequest.op = "none" /\ NoJob.at = "idle" /\ sess'[s] # sess[s]
    BY <1>1 DEF IInv, TypeOK, NoRequest, NoJob
  <2>2. ASSUME NEW c \in Clients, GetCommit(c) \/ AiCommit(c) \/ CreateCommit(c)
        PROVE  Commits(s, k)
    <3>1. /\ req[c].op \in {"get", "ai", "create"} /\ req' = [req EXCEPT ![c] = NoRequest]
      BY <2>2 DEF GetCommit, AiCommit, CreateCommit, Finish
    <3>2. PICK force \in BOOLEAN : sess'[s] = Written(c, force)[s] \/ sess[s].status = "absent"
      <4>1. CASE GetCommit(c) \/ AiCommit(c)
        BY <4>1 DEF GetCommit, AiCommit
      <4>2. CASE CreateCommit(c)
        <5>1. PICK force \in BOOLEAN :
                sess' = Written(c, force) \/
                  (FreeRows # {} /\ sess' = [Written(c, force) EXCEPT ![MinOf(FreeRows)] = req[c].new])
          BY <4>2 DEF CreateCommit
        <5>2. FreeRows # {} => MinOf(FreeRows) \in FreeRows
          BY LeastNumber DEF FreeRows, Session
        <5>3. Written(c, force) \in [Session -> SessionRow]
          BY <1>1, <3>1, WrittenTyped
        <5>4. sess'[s] = Written(c, force)[s] \/ s \in FreeRows
          BY <1>1, <5>1, <5>2, <5>3
        <5>5. QED BY <5>4 DEF FreeRows, Rows
      <4>3. QED BY <2>2, <4>1, <4>2
    <3>3. sess[s].status # "absent"
      BY <1>1 DEF IInv, SessionInv, SessionOK
    <3>4. req[c].session = s /\ k \notin req[c].view.completed
      BY <1>1, <3>1, <3>2, <3>3, WrittenTyped
    <3>5. req'[c] # req[c]
      BY <2>1, <3>1
    <3>6. QED BY <3>1, <3>4, <3>5
  <2>3. ASSUME NEW c \in Clients, ApproveTask(c)  PROVE FALSE
    BY <2>1, <2>3 DEF ApproveTask
  <2>4. ASSUME NEW c \in Clients, ApproveContext(c)  PROVE FALSE
    <3>1. sess' = sess \/ sess' = [sess EXCEPT ![req[c].session].running =
                                     task[req[c].task].stage]
      BY <2>4 DEF ApproveContext, Finish
    <3>2. sess'[s].completed = sess[s].completed
      BY <1>1, <2>1, <3>1 DEF SessionRow
    <3>3. QED BY <1>1, <3>2
  <2>5. ASSUME NEW c \in Clients, ApproveSubmit(c)  PROVE FALSE
    BY <1>1, <2>5, SubmitKeepsProgress
  <2>6. ASSUME SessionCommit  PROVE Reports(s, k)
    <3>1. job.at = "commit" /\ job' = NoJob /\ task[job.task].status # "DELETED"
      BY <1>1, <2>1, <2>6 DEF SessionCommit
    <3>2. s = task[job.task].session /\ k \notin job.view.completed
      BY <1>1, <2>1, <2>6, <3>1, ReportCommitted
    <3>3. QED BY <2>1, <3>1, <3>2
  <2>7. ASSUME NEW t \in Task, ReverifyJudge(t) \/ ReverifyRaises(t)  PROVE Verdicts(s, k)
    <3>1. PICK verdict \in Verdict : Finalize(t, verdict)
      BY <2>7 DEF ReverifyJudge, ReverifyRaises, Verdict
    <3>2. reverify'[t] # reverify[t] /\ reverify[t] # "none"
      BY <1>1, <2>7 DEF ReverifyJudge, ReverifyRaises, Reverify, IInv, TypeOK
    <3>3. t \in DOMAIN task /\ task[t] \in TaskRow
      BY <1>1, <3>2, TaskTyped DEF IInv, ReverifyInv
    <3> DEFINE old == sess[task[t].session]
               done == IF verdict = "closed" THEN old.completed \cup {task[t].stage}
                       ELSE old.completed \ {task[t].stage}
               new == [old EXCEPT !.completed = done,
                         !.running = IF @ = task[t].stage THEN None ELSE @,
                         !.status = IF verdict = "failed" THEN "failed" ELSE "ready"]
    <3>4. /\ task' = [task EXCEPT ![t].business = verdict]
          /\ sess' = [sess EXCEPT ![task[t].session] = new]
      BY <2>1, <3>1 DEF Finalize
    <3>5. s = task[t].session /\ sess'[s] = new
      BY <1>1, <2>1, <3>4
    <3>6. new.completed = done
      BY <2>1, <3>5 DEF SessionRow
    <3> HIDE DEF new
    <3>7. k \in old.completed /\ k \notin done
      BY <1>1, <3>5, <3>6
    <3>8. verdict # "closed" /\ k = task[t].stage
      BY <3>7
    <3>9. task'[t].business = verdict
      BY <3>3, <3>4 DEF TaskRow
    <3>10. verdict \in {"partial", "failed"}
      BY <3>8 DEF Verdict
    <3>11. QED BY <3>2, <3>3, <3>5, <3>8, <3>9, <3>10
  <2>8. QED
    <3> HIDE DEF Verdicts, Commits, Reports
    <3>1. CASE \E c \in Clients : RequestStep(c)
      BY <2>2, <2>3, <2>4, <2>5, <3>1 DEF RequestStep
    <3>2. CASE SessionCommit
      BY <2>6, <3>2
    <3>3. CASE \E t \in Task : ReverifyJudge(t) \/ ReverifyRaises(t)
      BY <2>7, <3>3
    <3>4. CASE /\ ~\E c \in Clients : RequestStep(c)
               /\ ~SessionCommit
               /\ ~\E t \in Task : ReverifyJudge(t) \/ ReverifyRaises(t)
      <4>1. sess' = sess
        BY <1>1, <3>4 DEF Next, GetBegin, AiBegin, ApproveBegin, CreateBegin, RequestDies,
           RunnerStep, PollRead, PollCommit, Complete, CompleteTask, SessionRead, JobDies,
           ReverifyStep, ReverifyStart, ReverifyEvaluate, ReverifyDone, ReverifyLost,
           Reverify, CancelTask, SweepTask, CloseTask, ClearTasks, FindingsChange,
           HeartbeatLost, Heartbeat
      <4>2. QED BY <2>1, <4>1
    <3>5. QED BY <3>1, <3>2, <3>3, <3>4
<1>2. IInv /\ [Next]_vars => [CompletionKept]_vars
  BY <1>1 DEF CompletionKept
<1>3. QED BY <1>2, AlwaysIInv, PTL DEF Spec, CompletionIsWithdrawnOnlyByVerdict
=============================================================================
