----------------------------- MODULE AgentTurn -----------------------------
(***************************************************************************)
(* What one conversation with the agent may start, and who follows it up.  *)
(*                                                                         *)
(* A message, or the results of page actions, make a turn: a loop of at    *)
(* most MaxDecisions decisions, of a playbook or of the model, that read   *)
(* the platform in between; the last decision is validated and applied.    *)
(* Its low risk actions run at once, one by one; then it leaves one thing  *)
(* to wait for: an answer, credentials, page actions or an approval.  Each *)
(* action starts a task, and another task, the follow-up, waits for it and *)
(* writes the outcome into the conversation, or goes on with what was to   *)
(* come next.  Turns that overlap, and the claims on the row, are the      *)
(* subject of AgentSession: here one turn runs at a time, beside the       *)
(* follow-ups and the orchestration of one approved plan.                  *)
(***************************************************************************)
EXTENDS Naturals, Sequences

CONSTANTS
  Roles,        \* roles the user may have: subset of {"admin", "analyst"}
  Kinds,        \* actions a decision may name: subset of LowRisk \cup HighRisk
  MaxDecisions, \* MAX_MODEL_DECISION_STEPS
  MaxRounds,    \* MAX_AGENT_LOOP_STEPS
  MaxBatch,     \* bound: actions of a decision, verified logins of a dialog
  MaxTasks,     \* bound: tasks that are started
  MaxTurns      \* bound: messages of the user, approvals, dialogs answered

VARIABLES
  role,    \* of the user
  talk,    \* the row of the conversation
  turn,    \* the request in progress
  tasks,   \* the tasks it started, in that order
  plan,    \* the approved plan and its orchestration
  turns,   \* what the user did so far
  chain    \* history: page results answered by page actions, since then

vars == <<role, talk, turn, tasks, plan, turns, chain>>

(***************************************************************************)
(* fix is create_or_resume_remediation_session with submit_if_ready, and   *)
(* install+fix is install_runner with such a resume_action.                *)
(***************************************************************************)
LowRisk == {"scan", "verify", "install", "install+fix"}
HighRisk == {"fix", "approve"}

AgentTurnAssumption ==
  /\ Roles \subseteq {"admin", "analyst"} /\ Kinds \subseteq LowRisk \cup HighRisk
  /\ {MaxDecisions, MaxRounds, MaxBatch} \subseteq Nat \ {0}
  /\ {MaxTasks, MaxTurns} \subseteq Nat

-----------------------------------------------------------------------------
(***************************************************************************)
(* The row.  plan is pending_plan_json; secure is the resume_action of     *)
(* pending_secure_input, "no" without a dialog.  The status is             *)
(* waiting_approval when there is a plan, unless running says otherwise.   *)
(* intent: last_user_intent asks for something to be done.                 *)
(***************************************************************************)
Resumes == {"none"} \cup LowRisk \cup HighRisk
NewTalk == [phase |-> "idle", running |-> FALSE, plan |-> <<>>, question |-> "none",
            pages |-> FALSE, secure |-> "no", count |-> 0, intent |-> FALSE]

(* _clear_browser_runtime *)
Cleared(t) == [t EXCEPT !.phase = "idle", !.pages = FALSE, !.secure = "no", !.count = 0]

(* _preserve_or_reset_pending_plan: the status is not running any more. *)
WithPlan(t, p) == [t EXCEPT !.plan = p, !.running = FALSE]

(***************************************************************************)
(* A decision: what the reply waits for (asked and scan are questions), if *)
(* not for the plan it proposes, and what is to be done at once.  ok: the  *)
(* validator finds nothing wrong with the asset and the parameters of the  *)
(* action.                                                                 *)
(***************************************************************************)
Batch(S) == UNION {[1..n -> S] : n \in 0..MaxBatch}
Action == [kind: Kinds, ok: BOOLEAN]
Proposal == {<<>>} \cup {<<k>> : k \in Kinds}
Decision ==
  [then: {"asked", "scan"}, auto: {<<>>}, propose: {<<>>}, resume: {"none"}]
  \cup [then: {"text", "pages"}, auto: Batch(Action), propose: Proposal, resume: {"none"}]
  \cup [then: {"secure"}, auto: Batch(Action), propose: {<<>>}, resume: {"none"} \cup Kinds]

Text(auto) == [then |-> "text", auto |-> auto, propose |-> <<>>, resume |-> "none"]
Question(ask) == [Text(<<>>) EXCEPT !.then = ask]

(***************************************************************************)
(* had, asked, ran, count: the plan, the question, the status and the      *)
(* rounds when the turn began; intent: it may act at once; n: the          *)
(* decisions it made.  then, resume, todo, proposed: of the one that is    *)
(* applied.  started: it has a task.                                       *)
(***************************************************************************)
Words == {"withdraw", "deny", "yes", "do it", "fix it", "other"}
NoTurn == [at |-> "none", step |-> FALSE, words |-> "other", had |-> <<>>,
           asked |-> "none", ran |-> FALSE, intent |-> FALSE, count |-> 0, n |-> 1,
           then |-> "text", resume |-> "none", todo |-> <<>>, proposed |-> <<>>, started |-> FALSE]

(***************************************************************************)
(* follow: the follow-up of a task, queued, refused by the broker, done,   *)
(* none at all, or the orchestration of the plan.  by: what started it.    *)
(* A task that exists already and is used again counts as one of its own.  *)
(***************************************************************************)
Task == [kind: LowRisk \cup HighRisk \cup {"refresh"}, state: {"active", "ok", "failed"},
         follow: {"queued", "refused", "written", "none", "plan"},
         by: {"turn", "dialog", "followup", "plan"}]

(* only: the plan had one action, whose outcome is told in detail. *)
NoPlan == [at |-> "idle", todo |-> <<>>, only |-> FALSE]

TypeOK ==
  /\ role \in Roles
  /\ talk.phase \in {"idle", "reply", "ui", "resolving", "secure"}
  /\ {talk.running, talk.pages, talk.intent} \subseteq BOOLEAN
  /\ talk.question \in {"none", "asked", "scan"} /\ talk.count \in 0..MaxRounds
  /\ talk.secure \in Resumes \cup {"no"}
  /\ turn.at \in {"none", "said", "loop", "act", "resume", "broken"}
  /\ turn.words \in Words /\ turn.n \in 1..MaxDecisions
  /\ tasks \in Seq(Task) /\ Len(tasks) <= MaxTasks
  /\ plan.at \in {"idle", "next", "wait"} /\ plan.todo \in Seq(Kinds)
  /\ plan.only \in BOOLEAN /\ turns \in 0..MaxTurns /\ chain \in Nat

Init ==
  /\ role \in Roles /\ talk = NewTalk /\ turn = NoTurn /\ tasks = <<>>
  /\ plan = NoPlan /\ turns = 0 /\ chain = 0

-----------------------------------------------------------------------------
(* Tasks and their follow-ups. *)

(* execution_registry: a host that is not ready to be fixed gets no task. *)
NotReady(kind) == kind \in HighRisk

Started(kind, follow, by) ==
  Append(tasks, [kind |-> kind, state |-> "active", follow |-> follow, by |-> by])

(* A broker that refuses the follow-up is logged, and no more. *)
Sent == {"queued", "refused"}

TaskEnds(i) ==
  /\ tasks[i].state = "active"
  /\ \E state \in {"ok", "failed"} : tasks' = [tasks EXCEPT ![i].state = state]
  /\ UNCHANGED <<role, talk, turn, plan, turns, chain>>

(* append_agent_task_message: page actions it finds are given up. *)
Told(watching) ==
  talk' = [(IF talk.phase \in {"ui", "resolving"} THEN Cleared(talk) ELSE talk)
             EXCEPT !.running = watching]

(* append_blocked_action_result_message *)
Blocked(t) == [Cleared(WithPlan(t, <<>>)) EXCEPT !.question = "none"]

(***************************************************************************)
(* run_agent_auto_followup_task, and after the refresh of a host whose     *)
(* login works now run_agent_secure_post_verify_resume_task: what was to   *)
(* come next is executed as it is, and followed up in turn.                *)
(***************************************************************************)
Next1(i) ==
  /\ tasks[i].state = "ok" /\ tasks[i].kind \in {"install+fix", "refresh"}
  /\ Len(tasks) < MaxTasks
  /\ \E follow \in Sent :
       tasks' = [Started("fix", follow, "followup") EXCEPT ![i].follow = "written"]
  /\ Told(tasks[i].kind = "refresh")

(* The outcome is told; a host that cannot be fixed yet takes the dialog away. *)
Followup(i) ==
  /\ tasks[i].follow = "queued" /\ tasks[i].state # "active"
  /\ \/ Next1(i)
     \/ /\ tasks[i].kind = "refresh" => tasks[i].state = "ok"
        /\ tasks' = [tasks EXCEPT ![i].follow = "written"] /\ Told(FALSE)
     \/ /\ tasks[i].kind = "refresh"
        /\ tasks' = [tasks EXCEPT ![i].follow = "written"] /\ talk' = Blocked(talk)
  /\ UNCHANGED <<role, turn, plan, turns, chain>>

-----------------------------------------------------------------------------
(* A turn begins. *)

Busy == turn.at # "none"
ToldByUser == turns < MaxTurns /\ turns' = turns + 1

(* _message_allows_auto_execution; page actions inherit what the user said. *)
MayAct(step, words, asked) ==
  \/ step /\ talk.intent
  \/ words \in {"do it", "fix it"}
  \/ words = "yes" /\ asked # "none"

Began(step, words, asked) ==
  [NoTurn EXCEPT !.at = IF step THEN "loop" ELSE "said", !.step = step, !.words = words,
                 !.had = talk.plan, !.asked = asked, !.ran = talk.running,
                 !.count = talk.count, !.intent = MayAct(step, words, asked)]

(***************************************************************************)
(* post_agent_message until its first commit.  A reply that opens a new    *)
(* topic drops the question.  Page actions, the dialog and the count stay. *)
(***************************************************************************)
Say ==
  /\ ~Busy /\ ToldByUser /\ chain' = 0
  /\ \E words \in Words, topic \in BOOLEAN :
       LET asked == IF topic THEN "none" ELSE talk.question
       IN  /\ words \in {"deny", "yes"} => asked # "none"
           /\ turn' = Began(FALSE, words, asked)
           /\ talk' = [talk EXCEPT !.phase = "reply", !.question = asked,
                                   !.intent = words \in {"do it", "fix it"}]
  /\ UNCHANGED <<role, tasks, plan>>

(***************************************************************************)
(* post_agent_step until its first commit: results of page actions while a *)
(* dialog is open change nothing, results nobody waits for clear the row,  *)
(* and so does the limit of the rounds.                                    *)
(***************************************************************************)
Step ==
  /\ ~Busy /\ ~talk.running /\ talk.secure = "no"
  /\ IF talk.pages /\ talk.count < MaxRounds
       THEN /\ talk' = [talk EXCEPT !.phase = "resolving", !.pages = FALSE]
            /\ turn' = Began(TRUE, "other", talk.question)
       ELSE talk' = Cleared(talk) /\ UNCHANGED turn
  /\ UNCHANGED <<role, tasks, plan, turns, chain>>

Ends(t) == talk' = t /\ turn' = NoTurn /\ UNCHANGED <<role, tasks, plan, turns, chain>>

(* The user withdraws the plan, or the question. *)
Withdraw ==
  /\ turn.at = "said" /\ turn.words = "withdraw" /\ turn.had # <<>>
  /\ Ends(Cleared([WithPlan(talk, <<>>) EXCEPT !.question = "none"]))

Deny ==
  /\ turn.at = "said" /\ turn.words = "deny"
  /\ Ends(Cleared([WithPlan(talk, turn.had) EXCEPT !.question = "none"]))

(* _build_preflight_clarification: the turn asks before it thinks. *)
Preflight ==
  /\ turn.at = "said" /\ turn.asked = "none" /\ turn.words # "withdraw"
  /\ Ends(Cleared([WithPlan(talk, turn.had) EXCEPT !.question = "asked"]))

-----------------------------------------------------------------------------
(* A decision is made and applied. *)

(* _refresh_message_turn_if_active *)
Claimed == turn.step \/ talk.phase = "reply"
KindsOf(auto) == [i \in DOMAIN auto |-> auto[i].kind]

(* The elements of s that are in S, in their order. *)
Only(s, S) ==
  LET only[n \in 0..Len(s)] ==
        IF n = 0 THEN <<>>
        ELSE IF s[n] \in S THEN Append(only[n - 1], s[n]) ELSE only[n - 1]
  IN only[Len(s)]

(***************************************************************************)
(* _apply_agent_decision up to the actions: only those of low risk may run *)
(* at once, the validator makes proposals of the others; so does a message *)
(* that asks for nothing.  Only an administrator gets a plan.              *)
(***************************************************************************)
Apply(d) ==
  LET Runs == IF role = "admin" THEN [kind: LowRisk, ok: {TRUE}] ELSE {}
      valid == KindsOf(Only(d.auto, Runs))
      rest == d.propose \o KindsOf(Only(d.auto, [kind: LowRisk, ok: BOOLEAN] \ Runs))
      proposed == IF role # "admin" THEN <<>> ELSE IF turn.intent THEN rest ELSE valid \o rest
      asks == d.then \in {"asked", "scan"}
  IN  turn' = [NoTurn EXCEPT !.at = "act", !.step = turn.step, !.had = turn.had,
                 !.count = turn.count, !.resume = d.resume,
                 !.then = IF d.then = "text" /\ proposed # <<>> THEN "plan" ELSE d.then,
                 !.todo = IF asks \/ ~turn.intent THEN <<>> ELSE valid,
                 !.proposed = IF asks THEN <<>> ELSE proposed]

Decide(d) == Claimed /\ Apply(d) /\ UNCHANGED <<role, talk, tasks, plan, turns, chain>>

(* The first words of a message decide alone, or the loop begins. *)
ConfirmScan ==
  /\ turn.at = "said" /\ turn.words = "yes" /\ turn.asked = "scan"
  /\ Decide(Text(IF role = "admin" THEN <<[kind |-> "scan", ok |-> TRUE]>> ELSE <<>>))

Conflict ==
  /\ turn.at = "said" /\ turn.words = "fix it" /\ turn.ran
  /\ Decide(Question("asked"))

BeginLoop ==
  /\ turn.at = "said" /\ turn.words \notin {"deny"}
  /\ ~(turn.words = "withdraw" /\ turn.had # <<>>)
  /\ ~(turn.words = "yes" /\ turn.asked = "scan") /\ ~(turn.words = "fix it" /\ turn.ran)
  /\ turn' = [turn EXCEPT !.at = "loop", !.words = "other", !.ran = FALSE]
  /\ UNCHANGED <<role, talk, tasks, plan, turns, chain>>

(* _run_agent_loop: a decision reads first, and another one is made. *)
Read ==
  /\ turn.at = "loop" /\ turn.n < MaxDecisions
  /\ turn' = [turn EXCEPT !.n = @ + 1]
  /\ UNCHANGED <<role, talk, tasks, plan, turns, chain>>

(* What was read of an unknown network makes a scan the question. *)
Think ==
  /\ turn.at = "loop"
  /\ \E d \in Decision :
       /\ d.then = "scan" => ~turn.step /\ turn.asked = "none" /\ ~turn.intent /\ turn.n > 1
       /\ Decide(d)

LoopFails ==
  /\ turn.at = "loop" /\ Claimed
  /\ Ends(Cleared([WithPlan(talk, turn.had)
                     EXCEPT !.question = IF turn.step THEN @ ELSE turn.asked]))

(* The row was given to somebody else meanwhile. *)
Abandon == turn.at \in {"said", "loop"} /\ ~Claimed /\ Ends(talk)

(* Mutation: the follow-ups are sent when all actions were executed. *)
ActThenFollow ==
  /\ turn.at \in {"act", "resume"} /\ turn.todo # <<>>
  /\ \/ /\ Len(tasks) < MaxTasks
        /\ LET all == Started(Head(turn.todo), "none", IF turn.at = "act" THEN "turn" ELSE "dialog")
           IN  tasks' = IF Len(turn.todo) > 1 THEN all
                        ELSE [i \in DOMAIN all |->
                                IF all[i].follow = "none" THEN [all[i] EXCEPT !.follow = "queued"] ELSE all[i]]
        /\ turn' = [turn EXCEPT !.todo = Tail(@), !.started = TRUE]
     \/ /\ turn' = IF turn.at = "act" THEN [turn EXCEPT !.at = "broken", !.todo = <<>>] ELSE NoTurn
        /\ UNCHANGED tasks
  /\ UNCHANGED <<role, talk, plan, turns, chain>>

(***************************************************************************)
(* _execute_auto_actions: an action starts a task or finds nothing to do.  *)
(* An exception ends the request: the row stays as it was.                 *)
(***************************************************************************)
Act ==
  /\ turn.at \in {"act", "resume"} /\ turn.todo # <<>>
  /\ \/ /\ Len(tasks) < MaxTasks
        /\ \E follow \in Sent :
             tasks' = Started(Head(turn.todo), follow,
                              IF turn.at = "act" THEN "turn" ELSE "dialog")
        /\ turn' = [turn EXCEPT !.todo = Tail(@), !.started = TRUE]
     \/ /\ NotReady(Head(turn.todo)) /\ turn' = [turn EXCEPT !.todo = Tail(@)]
        /\ UNCHANGED tasks
     \/ /\ turn' = IF turn.at = "act" THEN [turn EXCEPT !.at = "broken", !.todo = <<>>] ELSE NoTurn
        /\ UNCHANGED tasks
  /\ UNCHANGED <<role, talk, plan, turns, chain>>

(* Mutation: page actions do not count as a round. *)
PagesUncounted(t) ==
  [t EXCEPT !.phase = "ui", !.pages = TRUE, !.count = IF turn.count = 0 THEN 1 ELSE turn.count]

(* Mutation: the limit lets one round too many through. *)
PagesOffByOne(t) ==
  IF turn.count > MaxRounds THEN Cleared(t)
  ELSE [t EXCEPT !.phase = "ui", !.pages = TRUE, !.count = turn.count + 1]

(* The next round of page actions, unless it is one too many. *)
Pages(t) ==
  IF turn.count + 1 > MaxRounds THEN Cleared(t)
  ELSE [t EXCEPT !.phase = "ui", !.pages = TRUE, !.count = turn.count + 1]

(* The dialog replaces the plan; it resumes what the last one would have. *)
Dialog(t, resume) ==
  [t EXCEPT !.phase = "secure", !.pages = FALSE, !.count = IF turn.count = 0 THEN 1 ELSE turn.count,
            !.secure = IF resume = "none" /\ t.secure # "no" THEN t.secure ELSE resume]

(* _apply_agent_decision from the actions on, and the commit. *)
Finish ==
  LET answered == [WithPlan(talk, turn.had) EXCEPT !.question = "none"]
  IN  /\ turn.at = "act" /\ turn.todo = <<>>
      /\ talk' = CASE turn.then \in {"asked", "scan"} ->
                        [Cleared(answered) EXCEPT !.question = turn.then]
                   [] turn.then = "secure" -> Dialog([answered EXCEPT !.plan = <<>>], turn.resume)
                   [] turn.then = "pages" -> Pages(answered)
                   [] turn.then = "plan" -> [Cleared(answered) EXCEPT !.plan = turn.proposed]
                   [] OTHER -> Cleared(answered)
      /\ turn' = NoTurn
      /\ chain' = IF turn.step /\ talk'.phase = "ui" THEN chain + 1 ELSE chain
      /\ UNCHANGED <<role, tasks, plan, turns>>

-----------------------------------------------------------------------------
(* Credentials, approval and repair. *)

(* _expand_secure_resume_actions: one action for each host it can name. *)
Resumed(kind, n) ==
  IF kind = "none" THEN <<>>
  ELSE IF kind \in {"scan", "approve"} THEN <<kind>> ELSE [i \in 1..n |-> kind]

(***************************************************************************)
(* _handle_secure_input_step with n logins verified, none when the user    *)
(* cancels.  A fix of one host is resumed after a refresh of what is known *)
(* of it, anything else at once.                                           *)
(***************************************************************************)
SecureStep ==
  /\ ~Busy /\ ~talk.running /\ talk.secure # "no" /\ ToldByUser /\ chain' = 0
  /\ \/ talk' = Cleared(talk) /\ UNCHANGED <<turn, tasks>>
     \/ /\ talk.secure = "fix" /\ Len(tasks) < MaxTasks
        /\ \E follow \in Sent : tasks' = Started("refresh", follow, "dialog")
        /\ talk' = [Cleared(talk) EXCEPT !.running = TRUE] /\ UNCHANGED turn
     \/ \E n \in 1..MaxBatch :
          /\ n = 1 => talk.secure # "fix"
          /\ turn' = [NoTurn EXCEPT !.at = "resume", !.todo = Resumed(talk.secure, n)]
          /\ UNCHANGED <<talk, tasks>>
  /\ UNCHANGED <<role, plan>>

SecureDone ==
  /\ turn.at = "resume" /\ turn.todo = <<>>
  /\ Ends([Cleared(talk) EXCEPT !.running = turn.started])

(* approve_agent_session *)
Approve ==
  /\ ~Busy /\ ~talk.running /\ talk.plan # <<>> /\ plan.at = "idle"
  /\ ToldByUser /\ chain' = 0
  /\ talk' = [NewTalk EXCEPT !.running = TRUE]
  /\ plan' = [at |-> "next", todo |-> talk.plan, only |-> Len(talk.plan) = 1]
  /\ UNCHANGED <<role, turn, tasks>>

(* The end of run_agent_orchestrate_task. *)
PlanEnds(t) == plan' = NoPlan /\ talk' = t
ToDialog == [Blocked(talk) EXCEPT !.phase = "secure", !.secure = "fix", !.count = 1]

PlanNext ==
  LET kind == Head(plan.todo)
      rest == Tail(plan.todo)
  IN  /\ plan.at = "next"
      /\ \/ /\ Len(tasks) < MaxTasks /\ tasks' = Started(kind, "plan", "plan")
            /\ plan' = [plan EXCEPT !.at = "wait", !.todo = rest] /\ UNCHANGED talk
         \/ /\ NotReady(kind) /\ rest # <<>>
            /\ plan' = [plan EXCEPT !.todo = rest] /\ UNCHANGED <<tasks, talk>>
         \/ /\ NotReady(kind) /\ plan.only /\ UNCHANGED tasks
            /\ \E t \in {ToDialog, Blocked(talk)} : PlanEnds(t)
         \/ PlanEnds(NewTalk) /\ UNCHANGED tasks
      /\ UNCHANGED <<role, turn, turns, chain>>

PlanWait ==
  /\ plan.at = "wait"
  /\ \A i \in DOMAIN tasks : tasks[i].by = "plan" => tasks[i].state # "active"
  /\ LET last == CHOOSE i \in DOMAIN tasks :
                   /\ tasks[i].by = "plan"
                   /\ \A j \in DOMAIN tasks : tasks[j].by = "plan" => j <= i
     IN  IF tasks[last].state = "ok" /\ plan.todo # <<>>
           THEN plan' = [plan EXCEPT !.at = "next"] /\ UNCHANGED talk
           ELSE PlanEnds(NewTalk)
  /\ UNCHANGED <<role, turn, tasks, turns, chain>>

(***************************************************************************)
(* _reconcile_session_runtime_state: what was left by a request that did   *)
(* not end, page actions nobody did, a status with no orchestration.       *)
(***************************************************************************)
Reconcile ==
  \/ turn.at = "broken" /\ Ends(Cleared(talk))
  \/ ~Busy /\ talk.phase = "ui" /\ Ends(Cleared(talk))
  \/ ~Busy /\ talk.running /\ plan.at = "idle" /\ Ends([talk EXCEPT !.running = FALSE])

Next ==
  \/ Say \/ Step \/ Withdraw \/ Deny \/ Preflight
  \/ ConfirmScan \/ Conflict \/ BeginLoop \/ Read \/ Think \/ LoopFails \/ Abandon
  \/ Act \/ Finish \/ SecureStep \/ SecureDone
  \/ Approve \/ PlanNext \/ PlanWait \/ Reconcile
  \/ \E i \in DOMAIN tasks : TaskEnds(i) \/ Followup(i)

Spec == Init /\ [][Next]_vars

-----------------------------------------------------------------------------
(* Properties *)

(***************************************************************************)
(* The agent does not go on with page actions for ever: since the user     *)
(* last said something it has answered fewer than MAX_AGENT_LOOP_STEPS     *)
(* results of page actions with new page actions.                          *)
(***************************************************************************)
ChainsEnd == chain < MaxRounds

(***************************************************************************)
(* Whatever the agent starts without an approved plan is reported in the   *)
(* conversation: its follow-up was sent to the broker, also when a later   *)
(* action of the turn raised an exception (_execute_auto_actions).  And no *)
(* reply starts an action of high risk: only credentials that were entered *)
(* and an installed runner go on to one (AUTO_EXECUTE_ACTIONS,             *)
(* validate_agent_write_decisions).                                        *)
(***************************************************************************)
StartsAreAccountedFor ==
  \A i \in DOMAIN tasks :
    /\ tasks[i].follow \in (IF tasks[i].by = "plan" THEN {"plan"} ELSE Sent \cup {"written"})
    /\ tasks[i].by = "turn" => tasks[i].kind \in LowRisk
=============================================================================
