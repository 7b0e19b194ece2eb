-------------------------- MODULE AgentTurnProofs --------------------------
(***************************************************************************)
(* Proofs about AgentTurn, for any roles, kinds of actions and bounds.     *)
(***************************************************************************)
EXTENDS AgentTurn, TLAPS, FiniteSetTheorems, SequenceTheorems, WellFoundedInduction

Risks == LowRisk \cup HighRisk

Talks ==
  [phase : {"idle", "reply", "ui", "resolving", "secure"}, running : BOOLEAN, plan : Seq(Kinds),
   question : {"none", "asked", "scan"}, pages : BOOLEAN, secure : Resumes \cup {"no"},
   count : 0..MaxRounds, intent : BOOLEAN]

Turns ==
  [at : {"none", "said", "loop", "act", "resume", "broken"}, step : BOOLEAN, words : Words,
   had : Seq(Kinds), asked : {"none", "asked", "scan"}, ran : BOOLEAN, intent : BOOLEAN,
   count : 0..MaxRounds, n : 1..MaxDecisions,
   then : {"text", "plan", "asked", "scan", "pages", "secure"}, resume : {"none"} \cup Kinds,
   todo : Seq(Risks), proposed : Seq(Kinds), started : BOOLEAN]

Plans == [at : {"idle", "next", "wait"}, todo : Seq(Kinds), only : BOOLEAN]

(* What the variables are, with every field of the records. *)
Shapes ==
  /\ role \in Roles /\ talk \in Talks /\ turn \in Turns /\ plan \in Plans
  /\ tasks \in Seq(Task) /\ Len(tasks) <= MaxTasks
  /\ turns \in 0..MaxTurns /\ chain \in Nat

(***************************************************************************)
(* What is about to be started: a reply acts on low risks alone, a yes may *)
(* act at once, and the orchestration goes on only with something to do.   *)
(***************************************************************************)
Intended ==
  /\ turn.at = "act" => turn.todo \in Seq(LowRisk)
  /\ turn.at = "said" /\ turn.words = "yes" => turn.intent
  /\ plan.at = "next" => plan.todo # <<>>

(***************************************************************************)
(* The count of rounds, which the user does not reset, is ahead of the     *)
(* chain while page actions are open, and when their results are a turn.   *)
(***************************************************************************)
RoundsAhead ==
  /\ chain < MaxRounds
  /\ talk.pages => chain < talk.count
  /\ turn.at \in {"said", "loop", "act"} =>
       IF turn.step THEN chain < turn.count /\ turn.count < MaxRounds ELSE chain = 0

TurnInv == Shapes /\ Intended /\ RoundsAhead /\ StartsAreAccountedFor

-----------------------------------------------------------------------------
(* Lemmas *)

(* A set of natural numbers has a least one. *)
LEMMA LeastNumber ==
  ASSUME NEW N, N \subseteq Nat, N # {}
  PROVE  \E k \in N : \A j \in N : k <= j
<1> DEFINE Below(k) == {j \in Nat : j < k}
           T == {Below(k) : k \in N}
<1>1. \A k \in N : IsFiniteSet(Below(k))
  <2> SUFFICES ASSUME NEW k \in N  PROVE IsFiniteSet(Below(k))
    OBVIOUS
  <2>1. k \in Nat /\ Below(k) = 0..(k-1)
    OBVIOUS
  <2>2. IsFiniteSet(0..(k-1))
    BY <2>1, FS_Interval
  <2> QED
    BY <2>1, <2>2
<1>2. T \subseteq FiniteSubsetsOf(Nat) /\ T # {}
  BY <1>1 DEF FiniteSubsetsOf
<1>3. \E x \in T : \A y \in T : <<y, x>> \notin StrictSubsetOrdering(Nat)
  <2> HIDE DEF T
  <2> QED
    BY <1>2, WFMin, FS_StrictSubsetOrderingWellFounded
<1>4. PICK k \in N : \A y \in T : <<y, Below(k)>> \notin StrictSubsetOrdering(Nat)
  BY <1>3
<1>5. ASSUME NEW j \in N  PROVE k <= j
  <2>1. <<Below(j), Below(k)>> \notin StrictSubsetOrdering(Nat)
    BY <1>4
  <2>2. CASE j < k
    <3>1. Below(j) \subseteq Below(k) /\ j \in Below(k) /\ j \notin Below(j)
      BY <2>2
    <3> QED
      BY <2>1, <3>1 DEF StrictSubsetOrdering
  <2> QED
    BY <2>2
<1> QED
  BY <1>5

(* What is kept of a sequence was in it, and in the set. *)
LEMMA OnlyThem ==
  ASSUME NEW T, NEW s \in Seq(T), NEW S
  PROVE  Only(s, S) \in Seq(S \cap T)
<1> DEFINE
  After(f, n) == IF n = 0 THEN <<>> ELSE IF s[n] \in S THEN Append(f[n - 1], s[n]) ELSE f[n - 1]
  Fits(f, m) == f = [n \in 0..m |-> After(f, n)]
<1>1. Len(s) \in Nat /\ \A n \in 1..Len(s) : s[n] \in T
  OBVIOUS
<1>2. \E f : Fits(f, Len(s))
  <2> SUFFICES ASSUME ~\E f : Fits(f, Len(s))  PROVE FALSE
    OBVIOUS
  <2> DEFINE Without == {m \in Nat : ~\E f : Fits(f, m)}
  <2>1. PICK m \in Without : \A k \in Without : m <= k
    <3>1. Len(s) \in Without /\ Without \subseteq Nat
      BY <1>1
    <3> HIDE DEF Without
    <3> QED
      BY <3>1, LeastNumber
  <2>2. m # 0
    <3>1. Fits([n \in 0..0 |-> <<>>], 0)
      OBVIOUS
    <3> HIDE DEF Fits
    <3> QED
      BY <2>1, <3>1
  <2>3. m - 1 \in Nat /\ m - 1 \notin Without
    <3>1. m \in Nat
      BY <2>1
    <3> HIDE DEF Without
    <3> QED
      BY <2>1, <2>2, <3>1
  <2>4. PICK f : Fits(f, m - 1)
    BY <2>3
  <2> DEFINE g == [n \in 0..m |-> IF n < m THEN f[n] ELSE After(f, m)]
  <2>5. \A n \in 0..m : g[n] = After(g, n)
    <3> m \in Nat
      BY <2>1
    <3>1. ASSUME NEW n \in 0..(m - 1)  PROVE g[n] = f[n] /\ f[n] = After(f, n)
      <4>1. n \in 0..m /\ n < m
        BY <2>2
      <4>2. f[n] = After(f, n)
        BY <2>4
      <4> QED
        BY <4>1, <4>2
    <3>2. ASSUME NEW n \in 0..m  PROVE After(g, n) = After(f, n)
      BY <2>2, <2>3
    <3>3. g[m] = After(f, m)
      BY <2>3
    <3> SUFFICES ASSUME NEW n \in 0..m  PROVE g[n] = After(g, n)
      OBVIOUS
    <3>4. n = m \/ n \in 0..(m - 1)
      BY <2>2
    <3> HIDE DEF g, After
    <3> QED
      BY <3>1, <3>2, <3>3, <3>4
  <2>6. Fits(g, m)
    BY <2>5
  <2> HIDE DEF Fits, g
  <2> QED
    BY <2>1, <2>6
<1>3. PICK f : Fits(f, Len(s)) /\ Only(s, S) = f[Len(s)]
  BY <1>2 DEF Only
<1>4. \A n \in 0..Len(s) : f[n] \in Seq(S \cap T)
  <2> SUFFICES ASSUME NEW n \in 0..Len(s), f[n] \notin Seq(S \cap T)  PROVE FALSE
    OBVIOUS
  <2> DEFINE Others == {k \in 0..Len(s) : f[k] \notin Seq(S \cap T)}
  <2>1. PICK m \in Others : \A k \in Others : m <= k
    <3>1. n \in Others /\ Others \subseteq Nat
      BY <1>1
    <3> HIDE DEF Others
    <3> QED
      BY <3>1, LeastNumber
  <2>2. f[m] = After(f, m) /\ m \in 0..Len(s) /\ f[m] \notin Seq(S \cap T)
    BY <1>3, <2>1
  <2>3. CASE m = 0
    BY <2>2, <2>3
  <2>4. CASE m # 0
    <3>1. m - 1 \in 0..Len(s) /\ m - 1 \notin Others
      BY <2>1, <2>4
    <3>2. f[m - 1] \in Seq(S \cap T)
      BY <3>1
    <3>3. s[m] \in T
      BY <1>1, <2>1, <2>4
    <3>4. f[m - 1] \in Seq(S \cap T) /\ (s[m] \in S => Append(f[m - 1], s[m]) \in Seq(S \cap T))
      BY <3>2, <3>3
    <3>5. After(f, m) \in Seq(S \cap T)
      BY <2>4, <3>4
    <3> QED
      BY <2>2, <3>5
  <2> QED
    BY <2>3, <2>4
<1> QED
  BY <1>1, <1>3, <1>4

ActionsOf(S) == [kind : S, ok : BOOLEAN]

LEMMA KindsOfActions ==
  ASSUME NEW S, NEW s \in Seq(ActionsOf(S))
  PROVE  KindsOf(s) \in Seq(S)
<1>1. DOMAIN s = 1..Len(s) /\ Len(s) \in Nat /\ \A i \in 1..Len(s) : s[i] \in ActionsOf(S)
  OBVIOUS
<1>2. \A i \in 1..Len(s) : s[i].kind \in S
  BY <1>1 DEF ActionsOf
<1> QED
  BY <1>1, <1>2 DEF KindsOf

LEMMA TalkChanges ==
  ASSUME AgentTurnAssumption, NEW t \in Talks
  PROVE  /\ Cleared(t) \in Talks /\ ~Cleared(t).pages /\ Cleared(t).phase = "idle"
         /\ NewTalk \in Talks /\ ~NewTalk.pages
         /\ \A p \in Seq(Kinds) : WithPlan(t, p) \in Talks /\ WithPlan(t, p).pages = t.pages
                                   /\ WithPlan(t, p).count = t.count
         /\ \A q \in {"none", "asked", "scan"} :
              [t EXCEPT !.question = q] \in Talks /\ [t EXCEPT !.question = q].pages = t.pages
              /\ [t EXCEPT !.question = q].count = t.count
         /\ \A b \in BOOLEAN :
              [t EXCEPT !.running = b] \in Talks /\ [t EXCEPT !.running = b].pages = t.pages
              /\ [t EXCEPT !.running = b].count = t.count
<1>1. 0 \in 0..MaxRounds /\ <<>> \in Seq(Kinds)
  BY DEF AgentTurnAssumption
<1>2. Cleared(t) \in Talks /\ ~Cleared(t).pages /\ Cleared(t).phase = "idle"
  BY <1>1 DEF Talks, Cleared, Resumes
<1>3. NewTalk \in Talks /\ ~NewTalk.pages
  BY <1>1 DEF Talks, NewTalk, Resumes
<1>4. \A p \in Seq(Kinds) : WithPlan(t, p) \in Talks /\ WithPlan(t, p).pages = t.pages
                            /\ WithPlan(t, p).count = t.count
  BY DEF Talks, WithPlan
<1>5. \A q \in {"none", "asked", "scan"} :
        [t EXCEPT !.question = q] \in Talks /\ [t EXCEPT !.question = q].pages = t.pages
        /\ [t EXCEPT !.question = q].count = t.count
  BY DEF Talks
<1>6. \A b \in BOOLEAN :
        [t EXCEPT !.running = b] \in Talks /\ [t EXCEPT !.running = b].pages = t.pages
        /\ [t EXCEPT !.running = b].count = t.count
  BY DEF Talks
<1> QED
  BY <1>2, <1>3, <1>4, <1>5, <1>6

LEMMA NoTurnIsTurn ==
  ASSUME AgentTurnAssumption
  PROVE  NoTurn \in Turns /\ NoTurn.at = "none" /\ NoPlan \in Plans /\ NoPlan.at = "idle"
<1>1. 0 \in 0..MaxRounds /\ 1 \in 1..MaxDecisions
  BY DEF AgentTurnAssumption
<1>2. <<>> \in Seq(Kinds) /\ <<>> \in Seq(Risks)
  OBVIOUS
<1> QED
  BY <1>1, <1>2 DEF NoTurn, Turns, Words, NoPlan, Plans

LEMMA TurnInit ==
  ASSUME AgentTurnAssumption, Init
  PROVE  TurnInv
<1>1. talk \in Talks /\ ~talk.pages
  <2>1. 0 \in 0..MaxRounds /\ <<>> \in Seq(Kinds)
    BY DEF AgentTurnAssumption
  <2> QED
    BY <2>1 DEF Init, Talks, NewTalk, Resumes
<1>2. turn \in Turns /\ turn.at = "none" /\ plan \in Plans /\ plan.at = "idle"
  BY NoTurnIsTurn DEF Init
<1>3. role \in Roles /\ tasks = <<>> /\ turns = 0 /\ chain = 0
  BY DEF Init
<1>4. tasks \in Seq(Task) /\ Len(tasks) = 0 /\ DOMAIN tasks = {}
  BY <1>3
<1>5. 0 <= MaxTasks /\ 0 \in 0..MaxTurns /\ 0 < MaxRounds
  BY DEF AgentTurnAssumption
<1> QED
  BY <1>1, <1>2, <1>3, <1>4, <1>5 DEF TurnInv, Shapes, Intended, RoundsAhead, StartsAreAccountedFor

(* A sequence with one more element. *)
LEMMA OneAppended ==
  ASSUME NEW T, NEW s \in Seq(T), NEW e \in T
  PROVE  /\ Append(s, e) \in Seq(T) /\ Len(Append(s, e)) = Len(s) + 1
         /\ DOMAIN Append(s, e) = 1..(Len(s) + 1)
         /\ Append(s, e)[Len(s) + 1] = e
         /\ \A j \in 1..Len(s) : Append(s, e)[j] = s[j]
  OBVIOUS

(***************************************************************************)
(* A task that is started leaves the others as they are.                   *)
(***************************************************************************)
LEMMA OneMoreTask ==
  ASSUME AgentTurnAssumption, TurnInv, Len(tasks) < MaxTasks,
         NEW kind \in Risks \cup {"refresh"}, NEW by \in {"turn", "dialog", "followup", "plan"},
         NEW follow \in IF by = "plan" THEN {"plan"} ELSE Sent, by = "turn" => kind \in LowRisk,
         tasks' = Started(kind, follow, by)
  PROVE  tasks' \in Seq(Task) /\ Len(tasks') <= MaxTasks /\ StartsAreAccountedFor'
<1> DEFINE one == [kind |-> kind, state |-> "active", follow |-> follow, by |-> by]
<1>1. one \in Task
  BY DEF Task, Sent, Risks
<1>2. tasks \in Seq(Task) /\ Len(tasks) \in Nat /\ DOMAIN tasks = 1..Len(tasks)
  BY DEF TurnInv, Shapes
<1>3. tasks' = Append(tasks, one)
  BY DEF Started
<1>4. /\ one.kind = kind /\ one.follow = follow /\ one.by = by
  OBVIOUS
<1> HIDE DEF one
<1>5. /\ tasks' \in Seq(Task) /\ Len(tasks') = Len(tasks) + 1 /\ DOMAIN tasks' = 1..(Len(tasks) + 1)
      /\ tasks'[Len(tasks) + 1] = one /\ \A i \in 1..Len(tasks) : tasks'[i] = tasks[i]
  BY <1>1, <1>2, <1>3, OneAppended
<1>6. Len(tasks') <= MaxTasks
  BY <1>2, <1>5 DEF AgentTurnAssumption
<1>7. ASSUME NEW i \in DOMAIN tasks'
      PROVE  /\ tasks'[i].follow \in (IF tasks'[i].by = "plan" THEN {"plan"} ELSE Sent \cup {"written"})
             /\ tasks'[i].by = "turn" => tasks'[i].kind \in LowRisk
  <2>1. CASE i = Len(tasks) + 1
    BY <1>4, <1>5, <2>1
  <2>2. CASE i # Len(tasks) + 1
    <3>1. i \in DOMAIN tasks /\ tasks'[i] = tasks[i]
      BY <1>2, <1>5, <2>2
    <3> QED
      BY <3>1 DEF TurnInv, StartsAreAccountedFor
  <2> QED
    BY <2>1, <2>2
<1> QED
  BY <1>5, <1>6, <1>7 DEF StartsAreAccountedFor

(***************************************************************************)
(* A step that keeps the tasks and the plan and changes only the row keeps *)
(* the invariant, if page actions it leaves open are ahead of the chain.   *)
(***************************************************************************)
LEMMA RowChanges ==
  ASSUME AgentTurnAssumption, TurnInv, talk' \in Talks, talk'.pages => chain < talk'.count,
         UNCHANGED <<role, tasks, plan, turns, chain>>,
         turn' = turn \/ turn' = NoTurn
  PROVE  TurnInv'
<1>1. turn' \in Turns /\ (turn' = turn \/ turn'.at = "none")
  BY NoTurnIsTurn DEF TurnInv, Shapes
<1>2. Shapes' /\ StartsAreAccountedFor'
  BY <1>1 DEF TurnInv, Shapes, StartsAreAccountedFor
<1>3. Intended'
  BY <1>1 DEF TurnInv, Intended
<1>4. RoundsAhead'
  BY <1>1 DEF TurnInv, RoundsAhead
<1> QED
  BY <1>2, <1>3, <1>4 DEF TurnInv

LEMMA TurnEnds ==
  ASSUME AgentTurnAssumption, TurnInv, NEW t \in Talks, Ends(t), t.pages => chain < t.count
  PROVE  TurnInv'
BY RowChanges DEF Ends

-----------------------------------------------------------------------------
(* Every step keeps the invariant: the tasks and their follow-ups. *)

LEMMA EndedTasks ==
  ASSUME AgentTurnAssumption, TurnInv, NEW i \in DOMAIN tasks, TaskEnds(i)
  PROVE  TurnInv'
<1>1. PICK state \in {"ok", "failed"} : tasks' = [tasks EXCEPT ![i].state = state]
  BY DEF TaskEnds
<1>2. UNCHANGED <<role, talk, turn, plan, turns, chain>>
  BY DEF TaskEnds
<1>3. tasks \in Seq(Task) /\ Len(tasks) \in Nat /\ DOMAIN tasks = 1..Len(tasks)
  BY DEF TurnInv, Shapes
<1> DEFINE one == [tasks[i] EXCEPT !.state = state]
<1>4. tasks[i] \in Task /\ tasks' = [tasks EXCEPT ![i] = one]
  BY <1>1, <1>3
<1>5. one \in Task /\ one.kind = tasks[i].kind /\ one.by = tasks[i].by /\ one.follow = tasks[i].follow
  BY <1>4 DEF Task
<1> HIDE DEF one
<1>6. /\ tasks' \in Seq(Task) /\ Len(tasks') = Len(tasks) /\ DOMAIN tasks' = DOMAIN tasks
      /\ \A j \in DOMAIN tasks : tasks'[j] = IF j = i THEN one ELSE tasks[j]
  BY <1>3, <1>4, <1>5
<1>7. StartsAreAccountedFor'
  BY <1>5, <1>6 DEF TurnInv, StartsAreAccountedFor
<1>8. Shapes'
  BY <1>2, <1>6 DEF TurnInv, Shapes
<1>9. Intended' /\ RoundsAhead'
  BY <1>2 DEF TurnInv, Intended, RoundsAhead
<1> QED
  BY <1>7, <1>8, <1>9 DEF TurnInv

(* The follow-up of a task that was queued is written, after it one more or not. *)
LEMMA FollowupWritten ==
  ASSUME TurnInv, NEW i \in DOMAIN tasks, tasks[i].follow = "queued"
  PROVE  LET done == [tasks EXCEPT ![i].follow = "written"]
         IN  /\ done \in Seq(Task) /\ Len(done) = Len(tasks) /\ DOMAIN done = DOMAIN tasks
             /\ \A j \in DOMAIN tasks :
                  /\ done[j].follow \in (IF done[j].by = "plan" THEN {"plan"} ELSE Sent \cup {"written"})
                  /\ done[j].by = "turn" => done[j].kind \in LowRisk
<1> DEFINE one == [tasks[i] EXCEPT !.follow = "written"]
           done == [tasks EXCEPT ![i].follow = "written"]
<1>1. tasks \in Seq(Task) /\ Len(tasks) \in Nat /\ DOMAIN tasks = 1..Len(tasks)
  BY DEF TurnInv, Shapes
<1>2. tasks[i] \in Task /\ done = [tasks EXCEPT ![i] = one]
  BY <1>1
<1>3. one \in Task /\ one.kind = tasks[i].kind /\ one.by = tasks[i].by /\ one.follow = "written"
  BY <1>2 DEF Task
<1>4. tasks[i].by # "plan" /\ (tasks[i].by = "turn" => tasks[i].kind \in LowRisk)
  BY DEF TurnInv, StartsAreAccountedFor, Sent
<1> HIDE DEF one, done
<1>5. /\ done \in Seq(Task) /\ Len(done) = Len(tasks) /\ DOMAIN done = DOMAIN tasks
      /\ \A j \in DOMAIN tasks : done[j] = IF j = i THEN one ELSE tasks[j]
  BY <1>1, <1>2, <1>3
<1>6. ASSUME NEW j \in DOMAIN tasks
      PROVE  /\ done[j].follow \in (IF done[j].by = "plan" THEN {"plan"} ELSE Sent \cup {"written"})
             /\ done[j].by = "turn" => done[j].kind \in LowRisk
  <2>1. CASE j = i
    BY <1>3, <1>4, <1>5, <2>1
  <2>2. CASE j # i
    BY <1>5, <2>2 DEF TurnInv, StartsAreAccountedFor
  <2> QED
    BY <2>1, <2>2
<1> QED
  BY <1>5, <1>6 DEF done

LEMMA TellsIt ==
  ASSUME AgentTurnAssumption, TurnInv, NEW watching \in BOOLEAN, Told(watching)
  PROVE  talk' \in Talks /\ (talk'.pages => talk.pages /\ talk'.count = talk.count)
<1> DEFINE t == IF talk.phase \in {"ui", "resolving"} THEN Cleared(talk) ELSE talk
<1>1. talk \in Talks
  BY DEF TurnInv, Shapes
<1>2. t \in Talks /\ (t.pages => talk.pages /\ t.count = talk.count)
  BY <1>1, TalkChanges
<1>3. talk' = [t EXCEPT !.running = watching]
  BY DEF Told
<1> HIDE DEF t
<1>4. [t EXCEPT !.running = watching] \in Talks /\ [t EXCEPT !.running = watching].pages = t.pages
      /\ [t EXCEPT !.running = watching].count = t.count
  BY <1>2 DEF Talks
<1> QED
  BY <1>2, <1>3, <1>4

LEMMA BlockedTalk ==
  ASSUME AgentTurnAssumption, NEW t \in Talks
  PROVE  Blocked(t) \in Talks /\ ~Blocked(t).pages
<1>1. <<>> \in Seq(Kinds)
  OBVIOUS
<1>2. WithPlan(t, <<>>) \in Talks
  BY <1>1, TalkChanges
<1>3. Cleared(WithPlan(t, <<>>)) \in Talks /\ ~Cleared(WithPlan(t, <<>>)).pages
  BY <1>2, TalkChanges
<1> QED
  BY <1>3, TalkChanges DEF Blocked

LEMMA FollowedTasks ==
  ASSUME AgentTurnAssumption, TurnInv, NEW i \in DOMAIN tasks, Followup(i)
  PROVE  TurnInv'
<1> DEFINE done == [tasks EXCEPT ![i].follow = "written"]
<1>1. tasks[i].follow = "queued" /\ UNCHANGED <<role, turn, plan, turns, chain>>
  BY DEF Followup
<1>2. talk \in Talks /\ tasks \in Seq(Task) /\ Len(tasks) \in Nat /\ DOMAIN tasks = 1..Len(tasks)
  BY DEF TurnInv, Shapes
<1>3. /\ done \in Seq(Task) /\ Len(done) = Len(tasks) /\ DOMAIN done = DOMAIN tasks
      /\ \A j \in DOMAIN tasks :
           /\ done[j].follow \in (IF done[j].by = "plan" THEN {"plan"} ELSE Sent \cup {"written"})
           /\ done[j].by = "turn" => done[j].kind \in LowRisk
  BY <1>1, FollowupWritten
<1>4. tasks' \in Seq(Task) /\ Len(tasks') <= MaxTasks /\ StartsAreAccountedFor'
  <2>1. CASE tasks' = done
    <3> HIDE DEF done
    <3> QED
      BY <1>3, <2>1 DEF StartsAreAccountedFor, TurnInv, Shapes
  <2>2. CASE Next1(i)
    <3>1. PICK follow \in Sent :
            tasks' = [Started("fix", follow, "followup") EXCEPT ![i].follow = "written"]
      BY <2>2 DEF Next1
    <3> DEFINE one == [kind |-> "fix", state |-> "active", follow |-> follow, by |-> "followup"]
    <3>2. tasks' = Append(done, one)
      <4>1. Started("fix", follow, "followup") = Append(tasks, one)
        BY DEF Started
      <4>2. Append(tasks, one)[i] = tasks[i] /\ i \in 1..Len(tasks)
        BY <1>2
      <4>3. [Append(tasks, one) EXCEPT ![i].follow = "written"] = Append(done, one)
        <5> DEFINE long == Append(tasks, one)
                   x == [long EXCEPT ![i].follow = "written"]
                   y == Append(done, one)
        <5>1. DOMAIN long = 1..(Len(tasks) + 1) /\ \A k \in 1..(Len(tasks) + 1) :
                long[k] = IF k <= Len(tasks) THEN tasks[k] ELSE one
          BY <1>2
        <5>2. y = [k \in 1..(Len(tasks) + 1) |-> IF k <= Len(tasks) THEN done[k] ELSE one]
          <6>1. one \in Task
            BY DEF Task, Sent, HighRisk
          <6> HIDE DEF one, done
          <6>2. y \in Seq(Task) /\ Len(y) = Len(tasks) + 1 /\ \A k \in 1..(Len(tasks) + 1) :
                  y[k] = IF k <= Len(tasks) THEN done[k] ELSE one
            BY <1>2, <1>3, <6>1
          <6>3. y = [k \in 1..Len(y) |-> y[k]]
            <7> HIDE DEF y
            <7> QED
              BY <6>2
          <6> HIDE DEF y
          <6> QED
            BY <1>2, <6>2, <6>3
        <5>3. x = [k \in 1..(Len(tasks) + 1) |-> IF k = i THEN [long[i] EXCEPT !.follow = "written"] ELSE long[k]]
          <6> HIDE DEF long
          <6> QED
            BY <1>2, <5>1
        <5>4. ASSUME NEW k \in 1..(Len(tasks) + 1)
              PROVE  (IF k = i THEN [long[i] EXCEPT !.follow = "written"] ELSE long[k])
                       = (IF k <= Len(tasks) THEN done[k] ELSE one)
          <6>1. k <= Len(tasks) => done[k] = IF k = i THEN [tasks[i] EXCEPT !.follow = "written"] ELSE tasks[k]
            BY <1>2
          <6> HIDE DEF one, done, long
          <6> QED
            BY <1>2, <5>1, <6>1
        <5> HIDE DEF x, y, one, done, long
        <5>5. x = y
          BY <5>2, <5>3, <5>4
        <5> QED
          BY <5>5 DEF x, y, long
      <4> QED
        BY <3>1, <4>1, <4>3
    <3>3. one \in Task /\ one.follow \in Sent /\ one.by = "followup"
      BY DEF Task, Sent, HighRisk
    <3>4. Len(tasks) < MaxTasks
      BY <2>2 DEF Next1
    <3> HIDE DEF one, done
    <3>5. /\ tasks' \in Seq(Task) /\ Len(tasks') = Len(tasks) + 1 /\ DOMAIN tasks' = 1..(Len(tasks) + 1)
          /\ tasks'[Len(tasks) + 1] = one /\ \A j \in 1..Len(tasks) : tasks'[j] = done[j]
      <4>1. one \in Task /\ done \in Seq(Task) /\ Len(done) = Len(tasks)
        BY <1>3, <3>3
      <4> QED
        BY ONLY <3>2, <4>1, OneAppended
    <3>6. ASSUME NEW j \in DOMAIN tasks'
          PROVE  /\ tasks'[j].follow \in (IF tasks'[j].by = "plan" THEN {"plan"} ELSE Sent \cup {"written"})
                 /\ tasks'[j].by = "turn" => tasks'[j].kind \in LowRisk
      <4>1. CASE j = Len(tasks) + 1
        BY <3>3, <3>5, <4>1
      <4>2. CASE j # Len(tasks) + 1
        <5>1. j \in DOMAIN tasks /\ tasks'[j] = done[j]
          BY <1>2, <3>5, <4>2
        <5> QED
          BY <1>3, <5>1
      <4> QED
        BY <4>1, <4>2
    <3>7. Len(tasks') <= MaxTasks
      BY <1>2, <3>4, <3>5 DEF AgentTurnAssumption
    <3> QED
      BY <3>5, <3>6, <3>7 DEF StartsAreAccountedFor
  <2> QED
    BY <2>1, <2>2 DEF Followup
<1>5. talk' \in Talks /\ (talk'.pages => talk.pages /\ talk'.count = talk.count)
  <2>1. CASE \E watching \in BOOLEAN : Told(watching)
    BY <2>1, TellsIt
  <2>2. CASE talk' = Blocked(talk)
    BY <1>2, <2>2, BlockedTalk
  <2> QED
    BY <2>1, <2>2 DEF Followup, Next1
<1>6. Shapes'
  BY <1>1, <1>4, <1>5 DEF TurnInv, Shapes
<1>7. Intended'
  BY <1>1 DEF TurnInv, Intended
<1>8. RoundsAhead'
  BY <1>1, <1>5 DEF TurnInv, RoundsAhead
<1> QED
  BY <1>4, <1>6, <1>7, <1>8 DEF TurnInv

-----------------------------------------------------------------------------
(* The beginning of a turn. *)

LEMMA BeganTurn ==
  ASSUME AgentTurnAssumption, TurnInv, NEW step \in BOOLEAN, NEW words \in Words,
         NEW asked \in {"none", "asked", "scan"}
  PROVE  /\ Began(step, words, asked) \in Turns
         /\ Began(step, words, asked).at = IF step THEN "loop" ELSE "said"
         /\ Began(step, words, asked).step = step
         /\ Began(step, words, asked).words = words
         /\ Began(step, words, asked).count = talk.count
         /\ words = "yes" /\ asked # "none" => Began(step, words, asked).intent
<1>1. talk \in Talks /\ NoTurn \in Turns
  BY NoTurnIsTurn DEF TurnInv, Shapes
<1>2. talk.plan \in Seq(Kinds) /\ talk.running \in BOOLEAN /\ talk.count \in 0..MaxRounds
  BY <1>1 DEF Talks
<1>3. MayAct(step, words, asked) \in BOOLEAN /\ (words = "yes" /\ asked # "none" => MayAct(step, words, asked))
  BY DEF MayAct
<1> QED
  BY <1>1, <1>2, <1>3, ZenonT(60) DEF Began, Turns

LEMMA ReplyOpens ==
  ASSUME NEW t \in Talks, NEW q \in {"none", "asked", "scan"}, NEW wants \in BOOLEAN
  PROVE  LET r == [t EXCEPT !.phase = "reply", !.question = q, !.intent = wants]
         IN  r \in Talks /\ r.pages = t.pages /\ r.count = t.count
  BY ZenonT(60) DEF Talks

LEMMA Said ==
  ASSUME AgentTurnAssumption, TurnInv, Say
  PROVE  TurnInv'
<1>1. /\ chain' = 0 /\ turns' = turns + 1 /\ turns < MaxTurns /\ UNCHANGED <<role, tasks, plan>>
      /\ \E words \in Words, topic \in BOOLEAN :
           LET asked == IF topic THEN "none" ELSE talk.question
           IN  /\ words \in {"deny", "yes"} => asked # "none"
               /\ turn' = Began(FALSE, words, asked)
               /\ talk' = [talk EXCEPT !.phase = "reply", !.question = asked,
                                       !.intent = words \in {"do it", "fix it"}]
  BY DEF Say, ToldByUser
<1>2. talk \in Talks /\ chain \in Nat /\ turns \in 0..MaxTurns
  BY DEF TurnInv, Shapes
<1>3. PICK words \in Words, asked \in {"none", "asked", "scan"} :
        /\ words = "yes" => asked # "none"
        /\ turn' = Began(FALSE, words, asked)
        /\ talk' = [talk EXCEPT !.phase = "reply", !.question = asked,
                                !.intent = words \in {"do it", "fix it"}]
  <2>1. talk.question \in {"none", "asked", "scan"}
    BY <1>2 DEF Talks
  <2>2. \A topic \in BOOLEAN :
          (IF topic THEN "none" ELSE talk.question) \in {"none", "asked", "scan"}
    BY <2>1
  <2> QED
    BY <1>1, <2>2
<1>4. turn' \in Turns /\ turn'.at = "said" /\ ~turn'.step /\ (turn'.words = "yes" => turn'.intent)
  BY <1>3, BeganTurn, SMTT(30), ZenonT(30)
<1>5. talk' \in Talks /\ talk'.pages = talk.pages /\ talk'.count = talk.count
  <2> DEFINE wants == words \in {"do it", "fix it"}
  <2>1. wants \in BOOLEAN /\ talk' = [talk EXCEPT !.phase = "reply", !.question = asked, !.intent = wants]
    BY <1>3
  <2> HIDE DEF wants
  <2> QED
    BY <1>2, <2>1, ReplyOpens
<1>6. Shapes'
  <2>1. turns' \in 0..MaxTurns /\ chain' \in Nat
    BY <1>1, <1>2 DEF AgentTurnAssumption
  <2> QED
    BY <1>1, <1>4, <1>5, <2>1 DEF TurnInv, Shapes
<1>7. Intended'
  BY <1>1, <1>4 DEF TurnInv, Intended
<1>8. RoundsAhead'
  <2>1. 0 < MaxRounds /\ talk.count \in Nat
    BY <1>2 DEF AgentTurnAssumption, Talks
  <2>2. talk.pages => chain < talk.count
    BY DEF TurnInv, RoundsAhead
  <2> QED
    BY <1>1, <1>2, <1>4, <1>5, <2>1, <2>2 DEF RoundsAhead
<1>9. StartsAreAccountedFor'
  BY <1>1 DEF TurnInv, StartsAreAccountedFor
<1> QED
  BY <1>6, <1>7, <1>8, <1>9 DEF TurnInv

LEMMA Stepped ==
  ASSUME AgentTurnAssumption, TurnInv, Step
  PROVE  TurnInv'
<1>1. talk \in Talks /\ talk.question \in {"none", "asked", "scan"}
  BY DEF TurnInv, Shapes, Talks
<1>2. CASE ~(talk.pages /\ talk.count < MaxRounds)
  BY <1>1, <1>2, TalkChanges, RowChanges, SMTT(30), ZenonT(30) DEF Step
<1>3. CASE talk.pages /\ talk.count < MaxRounds
  <2>1. /\ talk' = [talk EXCEPT !.phase = "resolving", !.pages = FALSE]
        /\ turn' = Began(TRUE, "other", talk.question)
        /\ UNCHANGED <<role, tasks, plan, turns, chain>>
    BY <1>3 DEF Step
  <2>2. turn' \in Turns /\ turn'.at = "loop" /\ turn'.step /\ turn'.count = talk.count
    <3>1. "other" \in Words /\ TRUE \in BOOLEAN
      BY DEF Words
    <3>2. Began(TRUE, "other", talk.question) \in Turns
      BY <1>1, <3>1, BeganTurn
    <3>3. /\ Began(TRUE, "other", talk.question).at = "loop"
          /\ Began(TRUE, "other", talk.question).step = TRUE
          /\ Began(TRUE, "other", talk.question).count = talk.count
      BY NoTurnIsTurn DEF Began, Turns
    <3> QED
      BY <2>1, <3>2, <3>3
  <2>3. talk' \in Talks /\ ~talk'.pages
    BY <1>1, <2>1 DEF Talks
  <2>4. Shapes'
    BY <2>1, <2>2, <2>3 DEF TurnInv, Shapes
  <2>5. Intended'
    BY <2>1, <2>2 DEF TurnInv, Intended
  <2>6. RoundsAhead'
    BY <1>3, <2>1, <2>2, <2>3 DEF TurnInv, RoundsAhead
  <2>7. StartsAreAccountedFor'
    BY <2>1 DEF TurnInv, StartsAreAccountedFor
  <2> QED
    BY <2>4, <2>5, <2>6, <2>7 DEF TurnInv
<1> QED
  BY <1>2, <1>3

LEMMA WithoutDecision ==
  ASSUME AgentTurnAssumption, TurnInv, Withdraw \/ Deny \/ Preflight \/ LoopFails \/ Abandon
  PROVE  TurnInv'
<1>1. talk \in Talks /\ turn \in Turns /\ (talk.pages => chain < talk.count)
  BY DEF TurnInv, Shapes, RoundsAhead
<1>2. /\ turn.had \in Seq(Kinds) /\ turn.asked \in {"none", "asked", "scan"}
      /\ talk.question \in {"none", "asked", "scan"} /\ <<>> \in Seq(Kinds)
  BY <1>1 DEF Turns, Talks
<1>3. ASSUME NEW p \in Seq(Kinds), NEW q \in {"none", "asked", "scan"}
      PROVE  LET t == Cleared([WithPlan(talk, p) EXCEPT !.question = q])
             IN  t \in Talks /\ ~t.pages
  <2>1. WithPlan(talk, p) \in Talks
    BY <1>1, TalkChanges
  <2>2. [WithPlan(talk, p) EXCEPT !.question = q] \in Talks
    BY <2>1, TalkChanges
  <2> QED
    BY <2>2, TalkChanges
<1>4. CASE Withdraw
  BY <1>2, <1>3, <1>4, TurnEnds DEF Withdraw
<1>5. CASE Deny
  BY <1>2, <1>3, <1>5, TurnEnds DEF Deny
<1>6. CASE Preflight
  BY <1>2, <1>3, <1>6, TurnEnds DEF Preflight
<1>7. CASE LoopFails
  <2> DEFINE q == IF turn.step THEN talk.question ELSE turn.asked
  <2>1. WithPlan(talk, turn.had).question = talk.question
    BY <1>1 DEF WithPlan, Talks
  <2>2. Ends(Cleared([WithPlan(talk, turn.had) EXCEPT !.question = q]))
    BY <1>7, <2>1 DEF LoopFails
  <2>3. q \in {"none", "asked", "scan"}
    BY <1>2
  <2> HIDE DEF q
  <2> QED
    BY <1>2, <1>3, <2>2, <2>3, TurnEnds
<1>8. CASE Abandon
  BY <1>1, <1>8, TurnEnds DEF Abandon
<1> QED
  BY <1>4, <1>5, <1>6, <1>7, <1>8

-----------------------------------------------------------------------------
(***************************************************************************)
(* A decision is applied: what is to be done at once has a low risk, and   *)
(* what is proposed is one of the kinds a decision may name.               *)
(***************************************************************************)
FitActions == [kind : LowRisk, ok : {TRUE}]

LEMMA Narrow ==
  ASSUME NEW S, NEW T, S \subseteq T, NEW s \in Seq(S)
  PROVE  s \in Seq(T)
OBVIOUS

Decidable(d) ==
  /\ d.then \in {"text", "asked", "scan", "pages", "secure"} /\ d.resume \in {"none"} \cup Kinds
  /\ d.propose \in Seq(Kinds)
  /\ \/ d.auto \in Seq(Action)
     \/ turn.intent /\ role = "admin" /\ d.auto \in Seq(FitActions)

LEMMA DecisionApplied ==
  ASSUME AgentTurnAssumption, TurnInv, turn.at \in {"said", "loop"}, NEW d, Decidable(d), Decide(d)
  PROVE  TurnInv'
<1> DEFINE
  Runs == IF role = "admin" THEN [kind : LowRisk, ok : {TRUE}] ELSE {}
  Others == [kind : LowRisk, ok : BOOLEAN] \ Runs
  valid == KindsOf(Only(d.auto, Runs))
  rest == d.propose \o KindsOf(Only(d.auto, Others))
  proposed == IF role # "admin" THEN <<>> ELSE IF turn.intent THEN rest ELSE valid \o rest
  asks == d.then \in {"asked", "scan"}
  then == IF d.then = "text" /\ proposed # <<>> THEN "plan" ELSE d.then
  todo == IF asks \/ ~turn.intent THEN <<>> ELSE valid
  plans == IF asks THEN <<>> ELSE proposed
<1>1. turn \in Turns /\ UNCHANGED <<role, talk, tasks, plan, turns, chain>>
  BY DEF TurnInv, Shapes, Decide
<1> /\ d.then \in {"text", "asked", "scan", "pages", "secure"} /\ d.resume \in {"none"} \cup Kinds
    /\ d.propose \in Seq(Kinds)
    /\ \/ d.auto \in Seq(Action)
       \/ turn.intent /\ role = "admin" /\ d.auto \in Seq(FitActions)
  BY DEF Decidable
<1>2. turn' = [NoTurn EXCEPT !.at = "act", !.step = turn.step, !.had = turn.had,
                 !.count = turn.count, !.resume = d.resume, !.then = then,
                 !.todo = todo, !.proposed = plans]
  BY DEF Decide, Apply
<1>3. valid \in Seq(LowRisk)
  <2>1. PICK T : d.auto \in Seq(T)
    OBVIOUS
  <2>2. Only(d.auto, Runs) \in Seq(Runs \cap T)
    BY <2>1, OnlyThem
  <2>3. Runs \cap T \subseteq ActionsOf(LowRisk)
    BY DEF ActionsOf
  <2> HIDE DEF Runs
  <2>4. Only(d.auto, Runs) \in Seq(ActionsOf(LowRisk))
    BY <2>2, <2>3, Narrow
  <2> QED
    BY <2>4, KindsOfActions
<1>4. ASSUME d.auto \in Seq(Action), NEW S
      PROVE  KindsOf(Only(d.auto, S)) \in Seq(Kinds)
  <2>1. Only(d.auto, S) \in Seq(S \cap Action)
    BY <1>4, OnlyThem
  <2>2. S \cap Action \subseteq ActionsOf(Kinds)
    BY DEF Action, ActionsOf
  <2>3. Only(d.auto, S) \in Seq(ActionsOf(Kinds))
    BY <2>1, <2>2, Narrow
  <2> QED
    BY <2>3, KindsOfActions
<1>5. KindsOf(Only(d.auto, Others)) \in Seq(Kinds)
  <2>1. CASE d.auto \in Seq(Action)
    BY <1>4, <2>1
  <2>2. CASE role = "admin" /\ d.auto \in Seq(FitActions)
    <3>1. Only(d.auto, Others) \in Seq(Others \cap FitActions)
      BY <2>2, OnlyThem
    <3>2. Others \cap FitActions \subseteq ActionsOf(Kinds)
      BY <2>2 DEF FitActions
    <3> HIDE DEF Others
    <3>3. Only(d.auto, Others) \in Seq(ActionsOf(Kinds))
      BY <3>1, <3>2, Narrow
    <3> QED
      BY <3>3, KindsOfActions
  <2> QED
    BY <2>1, <2>2
<1>6. ~turn.intent => valid \in Seq(Kinds)
  BY <1>4
<1> HIDE DEF Runs, Others, valid
<1>7. plans \in Seq(Kinds) /\ todo \in Seq(LowRisk)
  <2>1. <<>> \in Seq(Kinds) /\ <<>> \in Seq(LowRisk)
    OBVIOUS
  <2>2. rest \in Seq(Kinds)
    BY <1>5
  <2>3. ~turn.intent => valid \o rest \in Seq(Kinds)
    <3> HIDE DEF rest
    <3> QED
      BY <1>6, <2>2
  <2> HIDE DEF rest
  <2> QED
    BY <1>3, <2>1, <2>2, <2>3
<1>8. then \in {"text", "plan", "asked", "scan", "pages", "secure"}
  OBVIOUS
<1> HIDE DEF then, todo, plans, rest, proposed
<1>9. turn' \in Turns /\ turn'.at = "act" /\ turn'.step = turn.step /\ turn'.count = turn.count
      /\ turn'.todo = todo
  <2>1. todo \in Seq(Risks)
    BY <1>7, Narrow DEF Risks
  <2>2. NoTurn \in Turns
    BY NoTurnIsTurn
  <2>3. turn.step \in BOOLEAN /\ turn.had \in Seq(Kinds) /\ turn.count \in 0..MaxRounds
    BY <1>1 DEF Turns
  <2> QED
    BY <1>2, <1>7, <1>8, <2>1, <2>2, <2>3 DEF Turns
<1>10. Shapes' /\ StartsAreAccountedFor'
  BY <1>1, <1>9 DEF TurnInv, Shapes, StartsAreAccountedFor
<1>11. Intended'
  BY <1>1, <1>7, <1>9 DEF TurnInv, Intended
<1>12. RoundsAhead'
  BY <1>1, <1>9 DEF TurnInv, RoundsAhead
<1> QED
  BY <1>10, <1>11, <1>12 DEF TurnInv

LEMMA Decided ==
  ASSUME AgentTurnAssumption, TurnInv, ConfirmScan \/ Conflict \/ Think
  PROVE  TurnInv'
<1>1. CASE ConfirmScan
  <2> DEFINE one == [kind |-> "scan", ok |-> TRUE]
             d == Text(IF role = "admin" THEN <<one>> ELSE <<>>)
  <2>1. turn.at = "said" /\ Decide(d) /\ turn.intent
    BY <1>1 DEF ConfirmScan, TurnInv, Intended
  <2>2. one \in FitActions
    BY DEF LowRisk, FitActions
  <2>3. d.then = "text" /\ d.resume = "none" /\ d.propose = <<>>
        /\ d.auto = IF role = "admin" THEN <<one>> ELSE <<>>
    BY DEF Text
  <2>4. Decidable(d)
    <3> HIDE DEF one, d
    <3>1. <<>> \in Seq(Action) /\ <<one>> \in Seq(FitActions) /\ <<>> \in Seq(Kinds)
      BY <2>2
    <3>2. CASE role = "admin"
      BY <2>1, <2>3, <3>1, <3>2 DEF Decidable
    <3>3. CASE role # "admin"
      BY <2>1, <2>3, <3>1, <3>3 DEF Decidable
    <3> QED
      BY <3>2, <3>3
  <2> HIDE DEF d
  <2> QED
    BY <2>1, <2>4, DecisionApplied
<1>2. CASE Conflict
  <2> DEFINE d == Question("asked")
  <2>1. turn.at = "said" /\ Decide(d)
    BY <1>2 DEF Conflict
  <2>2. d.then = "asked" /\ d.resume = "none" /\ d.propose = <<>> /\ d.auto = <<>>
    BY DEF Question, Text
  <2>3. <<>> \in Seq(Kinds) /\ <<>> \in Seq(Action)
    OBVIOUS
  <2> HIDE DEF d
  <2>4. Decidable(d)
    BY <2>2, <2>3 DEF Decidable
  <2> QED
    BY <2>1, <2>4, DecisionApplied
<1>3. CASE Think
  <2>1. PICK d \in Decision : Decide(d)
    BY <1>3 DEF Think
  <2>2. ASSUME NEW b \in Batch(Action)  PROVE b \in Seq(Action)
    <3>1. MaxBatch \in Nat
      BY DEF AgentTurnAssumption
    <3> QED
      BY <3>1 DEF Batch
  <2>3. <<>> \in Seq(Action) /\ <<>> \in Seq(Kinds) /\ \A k \in Kinds : <<k>> \in Seq(Kinds)
    OBVIOUS
  <2>4. /\ d.then \in {"text", "asked", "scan", "pages", "secure"} /\ d.resume \in {"none"} \cup Kinds
        /\ d.auto \in {<<>>} \cup Batch(Action) /\ d.propose \in {<<>>} \cup Proposal
    BY DEF Decision
  <2>5. d.auto \in Seq(Action) /\ d.propose \in Seq(Kinds)
    BY <2>2, <2>3, <2>4 DEF Proposal
  <2>6. Decidable(d) /\ turn.at = "loop"
    BY <1>3, <2>4, <2>5 DEF Decidable, Think
  <2> QED
    BY <2>1, <2>6, DecisionApplied
<1> QED
  BY <1>1, <1>2, <1>3

LEMMA Thinking ==
  ASSUME AgentTurnAssumption, TurnInv, BeginLoop \/ Read
  PROVE  TurnInv'
<1>1. turn \in Turns /\ turn.at \in {"said", "loop"} /\ UNCHANGED <<role, talk, tasks, plan, turns, chain>>
  BY DEF TurnInv, Shapes, BeginLoop, Read
<1>2. turn' \in Turns /\ turn'.at = "loop" /\ turn'.step = turn.step /\ turn'.count = turn.count
  <2>1. CASE BeginLoop
    <3>1. turn' = [turn EXCEPT !.at = "loop", !.words = "other", !.ran = FALSE]
      BY <2>1 DEF BeginLoop
    <3> QED
      BY <1>1, <3>1 DEF Turns, Words
  <2>2. CASE Read
    <3>1. turn' = [turn EXCEPT !.n = turn.n + 1] /\ turn.at = "loop" /\ turn.n < MaxDecisions
      BY <2>2 DEF Read
    <3>2. turn.n + 1 \in 1..MaxDecisions
      BY <1>1, <3>1 DEF Turns, AgentTurnAssumption
    <3> QED
      BY <1>1, <3>1, <3>2 DEF Turns
  <2> QED
    BY <2>1, <2>2
<1>3. Shapes' /\ StartsAreAccountedFor'
  BY <1>1, <1>2 DEF TurnInv, Shapes, StartsAreAccountedFor
<1>4. Intended'
  BY <1>1, <1>2 DEF TurnInv, Intended
<1>5. RoundsAhead'
  BY <1>1, <1>2 DEF TurnInv, RoundsAhead
<1> QED
  BY <1>3, <1>4, <1>5 DEF TurnInv

-----------------------------------------------------------------------------
(* The actions of a turn, and its end. *)

LEMMA Acted ==
  ASSUME AgentTurnAssumption, TurnInv, Act
  PROVE  TurnInv'
<1>1. /\ turn \in Turns /\ turn.at \in {"act", "resume"} /\ turn.todo # <<>>
      /\ UNCHANGED <<role, talk, plan, turns, chain>>
  BY DEF TurnInv, Shapes, Act
<1>2. turn.todo \in Seq(Risks) /\ (turn.at = "act" => turn.todo \in Seq(LowRisk))
  BY <1>1 DEF Turns, TurnInv, Intended
<1>3. /\ Head(turn.todo) \in Risks /\ Tail(turn.todo) \in Seq(Risks)
      /\ turn.at = "act" => Head(turn.todo) \in LowRisk /\ Tail(turn.todo) \in Seq(LowRisk)
  BY <1>1, <1>2
<1>4. /\ turn' \in Turns
      /\ \/ turn'.at = turn.at /\ turn'.todo = Tail(turn.todo) /\ turn'.step = turn.step /\ turn'.count = turn.count
         \/ turn'.at \in {"broken", "none"}
  <2>1. \/ turn' = [turn EXCEPT !.todo = Tail(turn.todo), !.started = TRUE]
        \/ turn' = [turn EXCEPT !.todo = Tail(turn.todo)]
        \/ turn' = [turn EXCEPT !.at = "broken", !.todo = <<>>]
        \/ turn' = NoTurn
    BY <1>1 DEF Act
  <2>2. <<>> \in Seq(Risks)
    OBVIOUS
  <2>3. CASE turn' = [turn EXCEPT !.todo = Tail(turn.todo), !.started = TRUE]
    BY <1>1, <1>3, <2>3 DEF Turns
  <2>4. CASE turn' = [turn EXCEPT !.todo = Tail(turn.todo)]
    BY <1>1, <1>3, <2>4 DEF Turns
  <2>5. CASE turn' = [turn EXCEPT !.at = "broken", !.todo = <<>>]
    BY <1>1, <2>2, <2>5 DEF Turns
  <2>6. CASE turn' = NoTurn
    BY <2>6, NoTurnIsTurn
  <2> QED
    BY <2>1, <2>3, <2>4, <2>5, <2>6
<1>5. tasks' \in Seq(Task) /\ Len(tasks') <= MaxTasks /\ StartsAreAccountedFor'
  <2>1. CASE UNCHANGED tasks
    BY <2>1 DEF TurnInv, Shapes, StartsAreAccountedFor
  <2>2. CASE ~UNCHANGED tasks
    <3>1. Len(tasks) < MaxTasks /\ \E follow \in Sent :
            tasks' = Started(Head(turn.todo), follow, IF turn.at = "act" THEN "turn" ELSE "dialog")
      BY <2>2 DEF Act
    <3>2. PICK follow \in Sent :
            tasks' = Started(Head(turn.todo), follow, IF turn.at = "act" THEN "turn" ELSE "dialog")
      BY <3>1
    <3>3. CASE turn.at = "act"
      BY <1>3, <3>1, <3>2, <3>3, OneMoreTask
    <3>4. CASE turn.at # "act"
      BY <1>3, <3>1, <3>2, <3>4, OneMoreTask
    <3> QED
      BY <3>3, <3>4
  <2> QED
    BY <2>1, <2>2
<1>6. Shapes'
  BY <1>1, <1>4, <1>5 DEF TurnInv, Shapes
<1>7. Intended'
  BY <1>1, <1>3, <1>4 DEF TurnInv, Intended
<1>8. RoundsAhead'
  BY <1>1, <1>4 DEF TurnInv, RoundsAhead
<1> QED
  BY <1>5, <1>6, <1>7, <1>8 DEF TurnInv

(* New page actions are one round further, and not beyond the limit. *)
LEMMA NextRound ==
  ASSUME AgentTurnAssumption, turn \in Turns, NEW t \in Talks
  PROVE  /\ Pages(t) \in Talks
         /\ Pages(t).pages => Pages(t).count = turn.count + 1 /\ turn.count < MaxRounds
         /\ Pages(t).phase = "ui" => turn.count < MaxRounds /\ Pages(t).pages
<1>1. turn.count \in 0..MaxRounds /\ MaxRounds \in Nat
  BY DEF Turns, AgentTurnAssumption
<1>2. CASE turn.count + 1 > MaxRounds
  <2>1. Pages(t) = Cleared(t)
    BY <1>2 DEF Pages
  <2>2. Cleared(t) \in Talks /\ ~Cleared(t).pages /\ Cleared(t).phase = "idle"
    BY TalkChanges
  <2> QED
    BY <2>1, <2>2
<1>3. CASE ~(turn.count + 1 > MaxRounds)
  <2>1. Pages(t) = [t EXCEPT !.phase = "ui", !.pages = TRUE, !.count = turn.count + 1]
    BY <1>3 DEF Pages
  <2>2. turn.count + 1 \in 0..MaxRounds /\ turn.count < MaxRounds
    BY <1>1, <1>3
  <2> QED
    BY <2>1, <2>2 DEF Talks
<1> QED
  BY <1>2, <1>3

LEMMA Finished ==
  ASSUME AgentTurnAssumption, TurnInv, Finish
  PROVE  TurnInv'
<1> DEFINE answered == [WithPlan(talk, turn.had) EXCEPT !.question = "none"]
<1>1. /\ talk \in Talks /\ turn \in Turns /\ turn.at = "act" /\ turn' = NoTurn
      /\ UNCHANGED <<role, tasks, plan, turns>>
  BY DEF TurnInv, Shapes, Finish
<1>2. /\ turn.had \in Seq(Kinds) /\ turn.proposed \in Seq(Kinds) /\ <<>> \in Seq(Kinds)
      /\ turn.then \in {"text", "plan", "asked", "scan", "pages", "secure"}
      /\ turn.count \in 0..MaxRounds /\ turn.resume \in {"none"} \cup Kinds
  BY <1>1 DEF Turns
<1>3. answered \in Talks
  <2>1. WithPlan(talk, turn.had) \in Talks
    BY <1>1, <1>2, TalkChanges
  <2> QED
    BY <2>1, TalkChanges
<1>4. talk' = CASE turn.then \in {"asked", "scan"} -> [Cleared(answered) EXCEPT !.question = turn.then]
                [] turn.then = "secure" -> Dialog([answered EXCEPT !.plan = <<>>], turn.resume)
                [] turn.then = "pages" -> Pages(answered)
                [] turn.then = "plan" -> [Cleared(answered) EXCEPT !.plan = turn.proposed]
                [] OTHER -> Cleared(answered)
  BY DEF Finish
<1> HIDE DEF answered
<1>5. Cleared(answered) \in Talks /\ ~Cleared(answered).pages /\ Cleared(answered).phase = "idle"
  BY <1>3, TalkChanges
<1>6. \/ talk' \in Talks /\ ~talk'.pages /\ talk'.phase # "ui"
      \/ talk' = Pages(answered)
  <2>1. CASE turn.then \in {"asked", "scan"}
    <3>1. talk' = [Cleared(answered) EXCEPT !.question = turn.then]
      BY <1>4, <2>1
    <3> QED
      BY <1>5, <2>1, <3>1 DEF Talks
  <2>2. CASE turn.then = "secure"
    <3> DEFINE t == [answered EXCEPT !.plan = <<>>]
               count == IF turn.count = 0 THEN 1 ELSE turn.count
               secure == IF turn.resume = "none" /\ t.secure # "no" THEN t.secure ELSE turn.resume
    <3>1. talk' = [t EXCEPT !.phase = "secure", !.pages = FALSE, !.count = count, !.secure = secure]
      BY <1>4, <2>2 DEF Dialog
    <3>2. t \in Talks
      BY <1>2, <1>3 DEF Talks
    <3>3. count \in 0..MaxRounds
      BY <1>2 DEF AgentTurnAssumption
    <3>4. secure \in Resumes \cup {"no"}
      <4> HIDE DEF t
      <4>1. turn.resume \in Resumes
        BY <1>2 DEF Resumes, AgentTurnAssumption
      <4> QED
        BY <3>2, <4>1 DEF Talks
    <3> HIDE DEF t, count, secure
    <3> QED
      BY <3>1, <3>2, <3>3, <3>4 DEF Talks
  <2>3. CASE turn.then = "pages"
    BY <1>4, <2>3
  <2>4. CASE turn.then = "plan"
    <3>1. talk' = [Cleared(answered) EXCEPT !.plan = turn.proposed]
      BY <1>4, <2>4
    <3> QED
      BY <1>2, <1>5, <3>1 DEF Talks
  <2>5. CASE turn.then = "text"
    BY <1>4, <1>5, <2>5
  <2> QED
    BY <1>2, <2>1, <2>2, <2>3, <2>4, <2>5
<1>7. chain' = IF turn.step /\ talk'.phase = "ui" THEN chain + 1 ELSE chain
  BY DEF Finish
<1>8. /\ talk' \in Talks
      /\ talk'.pages => talk'.count = turn.count + 1 /\ turn.count < MaxRounds
      /\ talk'.phase = "ui" => turn.count < MaxRounds /\ talk'.pages
  BY <1>1, <1>3, <1>6, NextRound
<1>9. /\ chain \in Nat /\ chain < MaxRounds /\ turn.count \in Nat /\ MaxRounds \in Nat
      /\ IF turn.step THEN chain < turn.count /\ turn.count < MaxRounds ELSE chain = 0
  BY <1>1, <1>2 DEF TurnInv, RoundsAhead, Shapes, AgentTurnAssumption
<1>10. chain' \in Nat /\ chain' < MaxRounds /\ (talk'.pages => chain' < talk'.count)
  BY <1>7, <1>8, <1>9
<1>11. turn' \in Turns /\ turn'.at = "none"
  BY <1>1, NoTurnIsTurn
<1>12. Shapes' /\ StartsAreAccountedFor'
  BY <1>1, <1>8, <1>10, <1>11 DEF TurnInv, Shapes, StartsAreAccountedFor
<1>13. Intended' /\ RoundsAhead'
  BY <1>1, <1>10, <1>11 DEF TurnInv, Intended, RoundsAhead
<1> QED
  BY <1>12, <1>13 DEF TurnInv

-----------------------------------------------------------------------------
(* Credentials, approval and repair. *)

LEMMA SecureStepped ==
  ASSUME AgentTurnAssumption, TurnInv, SecureStep
  PROVE  TurnInv'
<1>1. /\ talk \in Talks /\ turn \in Turns /\ turn.at = "none" /\ talk.secure # "no"
      /\ turns < MaxTurns /\ turns' = turns + 1 /\ chain' = 0 /\ UNCHANGED <<role, plan>>
  BY DEF TurnInv, Shapes, SecureStep, Busy, ToldByUser
<1>2. turns' \in 0..MaxTurns /\ chain' \in Nat
  BY <1>1 DEF TurnInv, Shapes, AgentTurnAssumption
<1>3. talk' \in Talks /\ (talk'.pages => talk' = talk)
  <2>1. CASE talk' = Cleared(talk)
    BY <1>1, <2>1, TalkChanges
  <2>2. CASE talk' = [Cleared(talk) EXCEPT !.running = TRUE]
    <3>1. Cleared(talk) \in Talks /\ ~Cleared(talk).pages
      BY <1>1, TalkChanges
    <3> QED
      BY <2>2, <3>1 DEF Talks
  <2>3. CASE UNCHANGED talk
    BY <1>1, <2>3
  <2> QED
    BY <2>1, <2>2, <2>3 DEF SecureStep
<1>4. turn' \in Turns /\ (turn' = turn \/ turn'.at = "resume")
  <2>1. CASE UNCHANGED turn
    BY <1>1, <2>1
  <2>2. CASE ~UNCHANGED turn
    <3>1. PICK n \in 1..MaxBatch :
            turn' = [NoTurn EXCEPT !.at = "resume", !.todo = Resumed(talk.secure, n)]
      BY <2>2 DEF SecureStep
    <3>2. talk.secure \in {"none"} \cup Risks
      BY <1>1 DEF Talks, Resumes, Risks
    <3>3. Resumed(talk.secure, n) \in Seq(Risks)
      <4>1. n \in Nat
        BY DEF AgentTurnAssumption
      <4>2. <<>> \in Seq(Risks)
        OBVIOUS
      <4>3. \A k \in Risks : <<k>> \in Seq(Risks) /\ [i \in 1..n |-> k] \in Seq(Risks)
        BY <4>1
      <4> QED
        BY <3>2, <4>2, <4>3 DEF Resumed
    <3> QED
      BY <3>1, <3>3, NoTurnIsTurn DEF Turns
  <2> QED
    BY <2>1, <2>2
<1>5. tasks' \in Seq(Task) /\ Len(tasks') <= MaxTasks /\ StartsAreAccountedFor'
  <2>1. CASE UNCHANGED tasks
    BY <2>1 DEF TurnInv, Shapes, StartsAreAccountedFor
  <2>2. CASE ~UNCHANGED tasks
    <3>1. Len(tasks) < MaxTasks /\ \E follow \in Sent : tasks' = Started("refresh", follow, "dialog")
      BY <2>2 DEF SecureStep
    <3> QED
      BY <3>1, OneMoreTask
  <2> QED
    BY <2>1, <2>2
<1>6. Shapes'
  BY <1>1, <1>2, <1>3, <1>4, <1>5 DEF TurnInv, Shapes
<1>7. Intended'
  BY <1>1, <1>4 DEF TurnInv, Intended
<1>8. RoundsAhead'
  <2>1. 0 < MaxRounds /\ chain \in Nat /\ talk.count \in Nat /\ (talk.pages => chain < talk.count)
    BY <1>1 DEF AgentTurnAssumption, TurnInv, Shapes, RoundsAhead, Talks
  <2>2. talk'.pages => 0 < talk'.count
    BY <1>3, <2>1
  <2> QED
    BY <1>1, <1>4, <2>1, <2>2 DEF RoundsAhead
<1> QED
  BY <1>5, <1>6, <1>7, <1>8 DEF TurnInv

LEMMA RowRepaired ==
  ASSUME AgentTurnAssumption, TurnInv, SecureDone \/ Reconcile
  PROVE  TurnInv'
<1>1. talk \in Talks /\ turn \in Turns /\ (talk.pages => chain < talk.count)
  BY DEF TurnInv, Shapes, RoundsAhead
<1>2. Cleared(talk) \in Talks /\ ~Cleared(talk).pages
  BY <1>1, TalkChanges
<1>3. CASE SecureDone
  <2> DEFINE t == [Cleared(talk) EXCEPT !.running = turn.started]
  <2>1. Ends(t)
    BY <1>3 DEF SecureDone
  <2>2. turn.started \in BOOLEAN
    BY <1>1 DEF Turns
  <2>3. t \in Talks /\ ~t.pages
    BY <1>2, <2>2 DEF Talks
  <2> HIDE DEF t
  <2> QED
    BY <2>1, <2>3, TurnEnds
<1>4. CASE Ends(Cleared(talk))
  BY <1>2, <1>4, TurnEnds
<1>5. CASE Ends([talk EXCEPT !.running = FALSE])
  <2> DEFINE t == [talk EXCEPT !.running = FALSE]
  <2>1. t \in Talks /\ t.pages = talk.pages /\ t.count = talk.count
    BY <1>1 DEF Talks
  <2>2. Ends(t)
    BY <1>5
  <2> HIDE DEF t
  <2> QED
    BY <1>1, <2>1, <2>2, TurnEnds
<1> QED
  BY <1>3, <1>4, <1>5 DEF Reconcile

(* A step of the plan changes the row only to one without page actions. *)
LEMMA PlanSteps ==
  ASSUME AgentTurnAssumption, TurnInv, plan' \in Plans, plan'.at = "next" => plan'.todo # <<>>,
         talk' \in Talks, talk'.pages => talk' = talk, UNCHANGED <<role, turn>>,
         turns' \in 0..MaxTurns, chain' = chain \/ (chain' = 0 /\ turn.at = "none"),
         tasks' \in Seq(Task), Len(tasks') <= MaxTasks, StartsAreAccountedFor'
  PROVE  TurnInv'
<1>1. chain' \in Nat /\ chain' <= chain /\ chain \in Nat
  BY DEF TurnInv, Shapes
<1>2. Shapes' /\ Intended'
  BY <1>1 DEF TurnInv, Shapes, Intended
<1>3. talk \in Talks /\ turn \in Turns
  BY DEF TurnInv, Shapes
<1>4. talk.count \in Nat /\ MaxRounds \in Nat /\ chain < MaxRounds /\ (talk.pages => chain < talk.count)
  BY <1>3 DEF TurnInv, RoundsAhead, Talks, AgentTurnAssumption
<1>5. chain' < MaxRounds /\ (talk'.pages => chain' < talk'.count)
  BY <1>1, <1>4
<1>6. RoundsAhead'
  BY <1>5 DEF TurnInv, RoundsAhead
<1> QED
  BY <1>2, <1>6 DEF TurnInv

LEMMA Approved ==
  ASSUME AgentTurnAssumption, TurnInv, Approve
  PROVE  TurnInv'
<1>1. /\ talk \in Talks /\ turn.at = "none" /\ talk.plan # <<>> /\ turns < MaxTurns /\ turns' = turns + 1
      /\ chain' = 0 /\ talk' = [NewTalk EXCEPT !.running = TRUE] /\ UNCHANGED <<role, turn, tasks>>
      /\ plan' = [at |-> "next", todo |-> talk.plan, only |-> Len(talk.plan) = 1]
  BY DEF TurnInv, Shapes, Approve, Busy, ToldByUser
<1>2. talk' \in Talks /\ ~talk'.pages
  <2>1. NewTalk \in Talks /\ ~NewTalk.pages
    BY <1>1, TalkChanges
  <2> QED
    BY <1>1, <2>1 DEF Talks
<1>3. plan' \in Plans /\ plan'.todo # <<>>
  <2>1. talk.plan \in Seq(Kinds) /\ (Len(talk.plan) = 1) \in BOOLEAN
    BY <1>1 DEF Talks
  <2> QED
    BY <1>1, <2>1 DEF Plans
<1>4. turns' \in 0..MaxTurns
  BY <1>1 DEF TurnInv, Shapes, AgentTurnAssumption
<1>5. tasks' \in Seq(Task) /\ Len(tasks') <= MaxTasks /\ StartsAreAccountedFor'
  BY <1>1 DEF TurnInv, Shapes, StartsAreAccountedFor
<1> QED
  BY <1>1, <1>2, <1>3, <1>4, <1>5, PlanSteps

LEMMA Orchestrated ==
  ASSUME AgentTurnAssumption, TurnInv, PlanNext \/ PlanWait
  PROVE  TurnInv'
<1>1. /\ plan \in Plans /\ talk \in Talks /\ turns \in 0..MaxTurns
      /\ UNCHANGED <<role, turn, turns, chain>>
  BY DEF TurnInv, Shapes, PlanNext, PlanWait
<1>2. plan.todo \in Seq(Kinds) /\ (plan.at = "next" => plan.todo # <<>>)
  BY <1>1 DEF Plans, TurnInv, Intended
<1>3. plan.at = "next" => Head(plan.todo) \in Kinds /\ Tail(plan.todo) \in Seq(Kinds)
  BY <1>2
<1>4. plan' \in Plans /\ (plan'.at = "next" => plan'.todo # <<>>)
  <2>1. CASE plan' = NoPlan
    BY <2>1, NoTurnIsTurn
  <2>2. CASE plan.at = "next" /\ plan' = [plan EXCEPT !.at = "wait", !.todo = Tail(plan.todo)]
    BY <1>1, <1>3, <2>2 DEF Plans
  <2>3. CASE plan.at = "next" /\ Tail(plan.todo) # <<>> /\ plan' = [plan EXCEPT !.todo = Tail(plan.todo)]
    BY <1>1, <1>3, <2>3 DEF Plans
  <2>4. CASE plan.todo # <<>> /\ plan' = [plan EXCEPT !.at = "next"]
    BY <1>1, <2>4 DEF Plans
  <2> QED
    BY <2>1, <2>2, <2>3, <2>4 DEF PlanNext, PlanWait, PlanEnds
<1>5. talk' \in Talks /\ (talk'.pages => talk' = talk)
  <2>1. NewTalk \in Talks /\ ~NewTalk.pages
    BY <1>1, TalkChanges
  <2>2. Blocked(talk) \in Talks /\ ~Blocked(talk).pages
    BY <1>1, BlockedTalk
  <2>3. ToDialog \in Talks /\ ~ToDialog.pages
    <3>1. 1 \in 0..MaxRounds /\ "fix" \in Resumes
      BY DEF AgentTurnAssumption, Resumes, HighRisk
    <3> QED
      BY <2>2, <3>1 DEF ToDialog, Talks
  <2>4. talk' \in {talk, NewTalk, Blocked(talk), ToDialog}
    BY DEF PlanNext, PlanWait, PlanEnds
  <2> QED
    BY <1>1, <2>1, <2>2, <2>3, <2>4
<1>6. tasks' \in Seq(Task) /\ Len(tasks') <= MaxTasks /\ StartsAreAccountedFor'
  <2>1. CASE UNCHANGED tasks
    BY <2>1 DEF TurnInv, Shapes, StartsAreAccountedFor
  <2>2. CASE ~UNCHANGED tasks
    <3>1. plan.at = "next" /\ Len(tasks) < MaxTasks /\ tasks' = Started(Head(plan.todo), "plan", "plan")
      BY <2>2 DEF PlanNext, PlanWait
    <3>2. Head(plan.todo) \in Risks
      BY <1>3, <3>1 DEF Risks, AgentTurnAssumption
    <3> QED
      BY <3>1, <3>2, OneMoreTask
  <2> QED
    BY <2>1, <2>2
<1>7. turns' \in 0..MaxTurns /\ chain' = chain /\ UNCHANGED <<role, turn>>
  BY <1>1
<1> QED
  BY <1>4, <1>5, <1>6, <1>7, PlanSteps

-----------------------------------------------------------------------------
(* The invariant. *)

LEMMA TurnStep ==
  ASSUME AgentTurnAssumption, TurnInv, [Next]_vars
  PROVE  TurnInv'
<1>1. CASE UNCHANGED vars
  BY <1>1 DEF vars, TurnInv, Shapes, Intended, RoundsAhead, StartsAreAccountedFor
<1>2. CASE Say \/ Step
  BY <1>2, Said, Stepped
<1>3. CASE Withdraw \/ Deny \/ Preflight \/ LoopFails \/ Abandon
  BY <1>3, WithoutDecision
<1>4. CASE ConfirmScan \/ Conflict \/ Think
  BY <1>4, Decided
<1>5. CASE BeginLoop \/ Read
  BY <1>5, Thinking
<1>6. CASE Act \/ Finish
  BY <1>6, Acted, Finished
<1>7. CASE SecureStep
  BY <1>7, SecureStepped
<1>8. CASE SecureDone \/ Reconcile
  BY <1>8, RowRepaired
<1>9. CASE Approve
  BY <1>9, Approved
<1>10. CASE PlanNext \/ PlanWait
  BY <1>10, Orchestrated
<1>11. ASSUME NEW i \in DOMAIN tasks, TaskEnds(i) \/ Followup(i)  PROVE TurnInv'
  BY <1>11, EndedTasks, FollowedTasks
<1> QED
  BY <1>1, <1>2, <1>3, <1>4, <1>5, <1>6, <1>7, <1>8, <1>9, <1>10, <1>11 DEF Next

LEMMA TurnInvHolds ==
  ASSUME AgentTurnAssumption
  PROVE  Spec => []TurnInv
<1>1. Init => TurnInv
  BY TurnInit
<1>2. TurnInv /\ [Next]_vars => TurnInv'
  BY TurnStep
<1> QED
  BY <1>1, <1>2, PTL DEF Spec

(***************************************************************************)
(* Every variable keeps its type: the count of rounds stays within its     *)
(* limit, and a plan holds only kinds a decision may name.                 *)
(***************************************************************************)
THEOREM TypeCorrect ==
  ASSUME AgentTurnAssumption
  PROVE  Spec => []TypeOK
<1>1. TurnInv => TypeOK
  <2> SUFFICES ASSUME TurnInv  PROVE TypeOK
    OBVIOUS
  <2>1. Shapes
    BY DEF TurnInv
  <2>2. talk \in Talks /\ turn \in Turns /\ plan \in Plans
    BY <2>1 DEF Shapes
  <2>3. /\ talk.phase \in {"idle", "reply", "ui", "resolving", "secure"}
        /\ talk.running \in BOOLEAN /\ talk.pages \in BOOLEAN /\ talk.intent \in BOOLEAN
        /\ talk.question \in {"none", "asked", "scan"} /\ talk.count \in 0..MaxRounds
        /\ talk.secure \in Resumes \cup {"no"}
    BY <2>2 DEF Talks
  <2>4. /\ turn.at \in {"none", "said", "loop", "act", "resume", "broken"}
        /\ turn.words \in Words /\ turn.n \in 1..MaxDecisions
    BY <2>2 DEF Turns
  <2>5. plan.at \in {"idle", "next", "wait"} /\ plan.todo \in Seq(Kinds) /\ plan.only \in BOOLEAN
    BY <2>2 DEF Plans
  <2> QED
    BY <2>1, <2>3, <2>4, <2>5 DEF TypeOK, Shapes
<1> QED
  BY <1>1, TurnInvHolds, PTL

(***************************************************************************)
(* The agent answers fewer than MAX_AGENT_LOOP_STEPS results of page       *)
(* actions with new ones before the user speaks again, whatever messages,  *)
(* dialogs, repairs and follow-ups come in between.                        *)
(***************************************************************************)
THEOREM ChainsAreBounded ==
  ASSUME AgentTurnAssumption
  PROVE  Spec => []ChainsEnd
<1>1. TurnInv => ChainsEnd
  BY DEF TurnInv, RoundsAhead, ChainsEnd
<1> QED
  BY <1>1, TurnInvHolds, PTL

(***************************************************************************)
(* What is started without an approved plan has its follow-up sent, and a  *)
(* reply starts nothing of high risk, for any decisions of any length.     *)
(***************************************************************************)
THEOREM StartsAccounted ==
  ASSUME AgentTurnAssumption
  PROVE  Spec => []StartsAreAccountedFor
<1>1. TurnInv => StartsAreAccountedFor
  BY DEF TurnInv
<1> QED
  BY <1>1, TurnInvHolds, PTL
=============================================================================
