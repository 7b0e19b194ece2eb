------------------------- MODULE TokenRotationProofs -------------------------
(***************************************************************************)
(* Proofs about TokenRotation, for every number of tokens and any set of   *)
(* requests: type correctness, that no token is taken for a replay before  *)
(* it was exchanged, and that a browser holds one live token at most.      *)
(***************************************************************************)
EXTENDS TokenRotation, TLAPS

(***************************************************************************)
(* What keeps a missing record from meaning "not stored yet": a token that *)
(* was handed out, that a request is about to hand out, or that a rotated  *)
(* record names as its successor, is known: it has its record, or had it   *)
(* replaced by "rotated" before.                                           *)
(***************************************************************************)
Known(t) == record[t].status = "missing" => t \in marked

KnownHeld == \A t \in held : Known(t)

KnownUnderWay ==
  \A c \in Callers :
    /\ call[c].at # "idle" => call[c].token \in held
    /\ call[c].at \in {"store", "mark"} => call[c].new \in 1..issued
    /\ call[c].new \in 0..issued
    /\ call[c].at \in {"mark", "answer"} /\ call[c].new # None => Known(call[c].new)

KnownRotated ==
  \A t \in Tokens :
    record[t].status = "rotated" =>
      /\ t \in marked
      /\ record[t].next \in 1..issued
      /\ Known(record[t].next)

IInv ==
  /\ TypeOK
  /\ KnownHeld
  /\ KnownUnderWay
  /\ KnownRotated
  /\ NoFalseAlarm

-----------------------------------------------------------------------------
(* The records the code writes. *)
LEMMA Records ==
  ASSUME TokenRotationAssumption
  PROVE  /\ Missing \in [status : Status, next : 0..MaxTokens, grace : BOOLEAN]
         /\ Active \in [status : Status, next : 0..MaxTokens, grace : BOOLEAN]
         /\ Revoked \in [status : Status, next : 0..MaxTokens, grace : BOOLEAN]
         /\ \A n \in 0..MaxTokens :
              Rotated(n) \in [status : Status, next : 0..MaxTokens, grace : BOOLEAN]
         /\ Missing.status = "missing" /\ Active.status = "active"
         /\ Revoked.status = "revoked"
         /\ \A n : Rotated(n).status = "rotated" /\ Rotated(n).next = n
         /\ 0 \in 0..MaxTokens /\ 1 \in Tokens
<1>1. 0 \in 0..MaxTokens /\ 1 \in Tokens
  BY DEF TokenRotationAssumption, Tokens
<1>2. Missing = [status |-> "missing", next |-> 0, grace |-> FALSE]
  BY DEF Missing, Plain, None
<1>3. Active = [status |-> "active", next |-> 0, grace |-> FALSE]
  BY DEF Active, Plain, None
<1>4. Revoked = [status |-> "revoked", next |-> 0, grace |-> FALSE]
  BY DEF Revoked, Plain, None
<1>5. \A n \in 0..MaxTokens :
        Rotated(n) \in [status : Status, next : 0..MaxTokens, grace : BOOLEAN]
  BY DEF Rotated, Status
<1>6. \A n : Rotated(n).status = "rotated" /\ Rotated(n).next = n
  BY DEF Rotated
<1> QED
  BY <1>1, <1>2, <1>3, <1>4, <1>5, <1>6 DEF Status

(* A request that goes on keeps the shape of a request. *)
LEMMA GoesTyped ==
  ASSUME TypeOK, NEW c \in Callers, NEW step \in CallStep, NEW n \in 0..MaxTokens,
         Goes(c, step, n)
  PROVE  call' \in [Callers -> [at : CallStep, token : Tokens, new : 0..MaxTokens]]
BY DEF TypeOK, Goes

(* The login establishes the invariant. *)
LEMMA InitIInv ==
  ASSUME TokenRotationAssumption, Init
  PROVE  IInv
<1>1. TypeOK
  <2>1. record \in [Tokens -> [status : Status, next : 0..MaxTokens, grace : BOOLEAN]]
    BY Records DEF Init
  <2>2. call \in [Callers -> [at : CallStep, token : Tokens, new : 0..MaxTokens]]
    BY Records DEF Init, Idle, CallStep, None
  <2>3. issued \in Tokens /\ 1..issued = {1}
    BY Records DEF Init
  <2>4. lock \in [Tokens -> Callers \cup {Free, Orphan}]
    BY DEF Init
  <2> QED
    BY <2>1, <2>2, <2>3, <2>4 DEF Init, TypeOK
<1>2. KnownHeld
  BY Records DEF Init, KnownHeld, Known
<1>3. KnownUnderWay
  BY DEF Init, KnownUnderWay, Known, Idle, None
<1>4. KnownRotated
  BY Records DEF Init, KnownRotated
<1>5. NoFalseAlarm
  BY DEF Init, NoFalseAlarm
<1> QED
  BY <1>1, <1>2, <1>3, <1>4, <1>5 DEF IInv

(* The writes of a rotation, in their order. *)
LEMMA WriteOrder ==
  /\ Writes[1] = "store" /\ After("store") = "mark" /\ After("mark") = "answer"
BY DEF Writes, After

(* Every step keeps the types. *)
LEMMA TypeStep ==
  ASSUME TokenRotationAssumption, TypeOK, KnownUnderWay, KnownRotated, [Next]_vars
  PROVE  TypeOK'
<1> DEFINE Rec == [status : Status, next : 0..MaxTokens, grace : BOOLEAN]
           Call == [at : CallStep, token : Tokens, new : 0..MaxTokens]
<1> USE DEF TypeOK
<1>1. ASSUME NEW c \in Callers, NEW t \in Tokens, Begin(c, t)  PROVE TypeOK'
  BY <1>1, Records DEF Begin, CallStep, None
<1>2. ASSUME NEW c \in Callers, NEW t \in Tokens, Logout(c, t)  PROVE TypeOK'
  BY <1>2, Records DEF Logout, CallStep, None
<1>3. ASSUME NEW c \in Callers, Acquire(c)  PROVE TypeOK'
  <2>1. call' \in [Callers -> Call]
    <3>1. Goes(c, "holding", None) \/ Goes(c, "waiting", None)
      BY <1>3 DEF Acquire
    <3>2. "holding" \in CallStep /\ "waiting" \in CallStep /\ None \in 0..MaxTokens
      BY Records DEF CallStep, None
    <3> QED
      BY <3>1, <3>2, GoesTyped
  <2>2. lock' \in [Tokens -> Callers \cup {Free, Orphan}]
    BY <1>3 DEF Acquire
  <2> QED
    BY <1>3, <2>1, <2>2 DEF Acquire
<1>4. ASSUME NEW c \in Callers, ReadActive(c)  PROVE TypeOK'
  <2>1. MayRotate(c) => issued + 1 \in 0..MaxTokens
    BY <1>4 DEF ReadActive, Tokens, TokenRotationAssumption
  <2>2. issued' \in Tokens /\ issued \in Tokens /\ issued <= issued'
    BY <1>4, TokenRotationAssumption DEF ReadActive, Tokens, TokenRotationAssumption
  <2>3. 1..issued \subseteq 1..issued'
    BY <2>2 DEF Tokens
  <2>4. call' \in [Callers -> Call]
    BY <1>4, <2>1, GoesTyped, Records, WriteOrder DEF ReadActive, CallStep, None
  <2> QED
    BY <1>4, <2>2, <2>3, <2>4 DEF ReadActive
<1>5. ASSUME NEW c \in Callers, ReadRotated(c)  PROVE TypeOK'
  <2>1. call[c].token \in Tokens /\ record[call[c].token].next \in 0..MaxTokens
    OBVIOUS
  <2>2. call' \in [Callers -> Call]
    BY <1>5, <2>1, GoesTyped DEF ReadRotated, CallStep
  <2> QED
    BY <1>5, <2>2 DEF ReadRotated
<1>6. ASSUME NEW c \in Callers, ReadRevoked(c)  PROVE TypeOK'
  <2>1. call' \in [Callers -> Call]
    BY <1>6, GoesTyped, Records DEF ReadRevoked, CallStep, None
  <2> QED
    BY <1>6, <2>1 DEF ReadRevoked
<1>7. ASSUME NEW c \in Callers, ReadReplay(c)  PROVE TypeOK'
  <2>1. call[c].token \in held
    BY <1>7 DEF ReadReplay, KnownUnderWay
  <2>2. call' \in [Callers -> Call]
    BY <1>7, GoesTyped, Records DEF ReadReplay, CallStep, None
  <2> QED
    BY <1>7, <2>1, <2>2 DEF ReadReplay
<1>8. ASSUME NEW c \in Callers, Store(c)  PROVE TypeOK'
  <2>1. call' \in [Callers -> Call]
    BY <1>8, GoesTyped, WriteOrder DEF Store, CallStep
  <2>2. record' \in [Tokens -> Rec]
    BY <1>8, Records DEF Store
  <2> QED
    BY <1>8, <2>1, <2>2 DEF Store
<1>9. ASSUME NEW c \in Callers, Mark(c)  PROVE TypeOK'
  <2>1. call[c].token \in held
    BY <1>9 DEF Mark, KnownUnderWay
  <2>2. record' \in [Tokens -> Rec]
    BY <1>9, Records DEF Mark
  <2>3. call' \in [Callers -> Call]
    BY <1>9, GoesTyped, WriteOrder DEF Mark, CallStep
  <2>4. marked' \subseteq 1..issued'
    BY <1>9, <2>1 DEF Mark
  <2> QED
    BY <1>9, <2>2, <2>3, <2>4 DEF Mark
<1>10. ASSUME NEW c \in Callers, Answer(c)  PROVE TypeOK'
  <2>1. call[c].new \in 0..issued
    BY DEF KnownUnderWay
  <2>2. held' \subseteq 1..issued
    BY <1>10, <2>1 DEF Answer, None, Tokens
  <2>3. Idle \in Call
    BY Records DEF Idle, CallStep, None
  <2> QED
    BY <1>10, <2>2, <2>3 DEF Answer
<1>11. ASSUME NEW c \in Callers, LogoutRecord(c)  PROVE TypeOK'
  BY <1>11, Records DEF LogoutRecord, Idle, CallStep, None
<1>12. ASSUME NEW c \in Callers, Dies(c)  PROVE TypeOK'
  BY <1>12, Records DEF Dies, Idle, CallStep, None
<1>13. ASSUME NEW t \in Tokens, LockExpires(t)  PROVE TypeOK'
  BY <1>13 DEF LockExpires
<1>14. ASSUME NEW t \in Tokens, GraceEnds(t)  PROVE TypeOK'
  BY <1>14 DEF GraceEnds
<1>15. ASSUME NEW t \in Tokens, Forget(t)  PROVE TypeOK'
  BY <1>15, Records DEF Forget
<1>16. CASE UNCHANGED vars
  BY <1>16 DEF vars
<1> QED
  BY <1>1, <1>2, <1>3, <1>4, <1>5, <1>6, <1>7, <1>8, <1>9, <1>10, <1>11, <1>12,
     <1>13, <1>14, <1>15, <1>16 DEF Next

(* Tokens are only added, so what holds of the issued ones goes on to hold. *)
LEMMA Grows ==
  ASSUME TokenRotationAssumption, TypeOK, [Next]_vars
  PROVE  /\ issued \in Nat /\ issued' \in Nat /\ issued <= issued'
         /\ 1..issued \subseteq Tokens
         /\ held \subseteq held' /\ marked \subseteq marked'
<1>1. issued \in Nat /\ 1..issued \subseteq Tokens
  BY DEF TypeOK, Tokens, TokenRotationAssumption
<1>2. issued' = issued \/ issued' = issued + 1
  BY DEF Next, vars, Begin, Logout, Acquire, ReadActive, ReadRotated, ReadRevoked,
      ReadReplay, Store, Mark, Answer, LogoutRecord, Dies, LockExpires, GraceEnds, Forget
<1>3. held \subseteq held' /\ marked \subseteq marked'
  BY DEF Next, vars, Begin, Logout, Acquire, ReadActive, ReadRotated, ReadRevoked,
      ReadReplay, Store, Mark, Answer, LogoutRecord, Dies, LockExpires, GraceEnds, Forget
<1>4. issued' \in Nat /\ issued <= issued'
  BY <1>1, <1>2
<1> QED
  BY <1>1, <1>3, <1>4

(***************************************************************************)
(* Nothing that is known is forgotten: a record only disappears after it   *)
(* was rotated.                                                            *)
(***************************************************************************)
LEMMA KnownStays ==
  ASSUME TokenRotationAssumption, TypeOK, KnownRotated, [Next]_vars,
         NEW s \in Tokens, Known(s)
  PROVE  Known(s)'
<1>1. ASSUME NEW c \in Callers, Store(c)  PROVE Known(s)'
  BY <1>1, Records DEF Store, Known, TypeOK
<1>2. ASSUME NEW c \in Callers, Mark(c)  PROVE Known(s)'
  BY <1>2, Records DEF Mark, Known, TypeOK
<1>3. ASSUME NEW c \in Callers, LogoutRecord(c)  PROVE Known(s)'
  BY <1>3, Records DEF LogoutRecord, Known, TypeOK
<1>4. ASSUME NEW t \in Tokens, GraceEnds(t)  PROVE Known(s)'
  BY <1>4 DEF GraceEnds, Known, TypeOK
<1>5. ASSUME NEW t \in Tokens, Forget(t)  PROVE Known(s)'
  BY <1>5 DEF Forget, Known, TypeOK, KnownRotated
<1>6. CASE UNCHANGED <<record, marked>>
  BY <1>6 DEF Known
<1> QED
  BY <1>1, <1>2, <1>3, <1>4, <1>5, <1>6
  DEF Next, vars, Begin, Logout, Acquire, ReadActive, ReadRotated, ReadRevoked,
      ReadReplay, Answer, Dies, LockExpires

(* A token is handed out by the answer of a request that knew it. *)
LEMMA HeldStep ==
  ASSUME TokenRotationAssumption, IInv, [Next]_vars
  PROVE  KnownHeld'
<1>1. SUFFICES ASSUME NEW s \in held'  PROVE Known(s)'
  BY DEF KnownHeld
<1>2. CASE s \in held
  <2>1. s \in Tokens /\ Known(s)
    BY <1>2, Grows DEF IInv, TypeOK, KnownHeld
  <2> QED
    BY <2>1, KnownStays DEF IInv
<1>3. ASSUME NEW c \in Callers, Answer(c), s \notin held  PROVE Known(s)'
  <2>1. s = call[c].new /\ s # None
    BY <1>3 DEF Answer
  <2>2. s \in Tokens /\ Known(s)
    BY <1>3, <2>1, Grows DEF Answer, IInv, KnownUnderWay, None
  <2> QED
    BY <2>2, KnownStays DEF IInv
<1> QED
  BY <1>2, <1>3
  DEF Next, vars, Begin, Logout, Acquire, ReadActive, ReadRotated, ReadRevoked,
      ReadReplay, Store, Mark, LogoutRecord, Dies, LockExpires, GraceEnds, Forget

(***************************************************************************)
(* A rotated record names a stored token: Mark comes after Store.          *)
(***************************************************************************)
LEMMA RotatedStep ==
  ASSUME TokenRotationAssumption, IInv, [Next]_vars
  PROVE  KnownRotated'
<1> SUFFICES ASSUME NEW s \in Tokens, (record[s].status = "rotated")'
             PROVE  /\ (s \in marked)'
                    /\ (record[s].next \in 1..issued)'
                    /\ Known(record[s].next)'
  BY DEF KnownRotated
<1> USE DEF IInv
<1>1. CASE record'[s].next = record[s].next /\ record[s].status = "rotated"
  <2>1. s \in marked /\ record[s].next \in 1..issued /\ Known(record[s].next)
    BY <1>1 DEF KnownRotated
  <2>2. record[s].next \in Tokens
    BY <2>1, Grows
  <2>3. Known(record[s].next)'
    BY <1>1, <2>1, <2>2, KnownStays DEF Known
  <2> QED
    BY <1>1, <2>1, <2>3, Grows
<1>2. ASSUME NEW c \in Callers, Mark(c), s = call[c].token
      PROVE  /\ (s \in marked)'
             /\ (record[s].next \in 1..issued)'
             /\ Known(record[s].next)'
  <2>1. PICK n \in Tokens : n = call[c].new /\ n \in 1..issued /\ Known(n)
    BY <1>2, Grows DEF Mark, KnownUnderWay, None
  <2>2. record'[s].next = n /\ s \in marked' /\ issued' = issued
    BY <1>2, <2>1, Records DEF Mark, TypeOK
  <2>3. Known(n)'
    BY <2>1, KnownStays
  <2> QED
    BY <2>1, <2>2, <2>3 DEF Known
<1>3. ASSUME NEW c \in Callers, Mark(c), s # call[c].token
      PROVE  record'[s].next = record[s].next /\ record[s].status = "rotated"
  BY <1>3 DEF Mark, TypeOK
<1>4. ASSUME NEW c \in Callers, Store(c)
      PROVE  record'[s].next = record[s].next /\ record[s].status = "rotated"
  BY <1>4, Records DEF Store, TypeOK
<1>5. ASSUME NEW c \in Callers, LogoutRecord(c)
      PROVE  record'[s].next = record[s].next /\ record[s].status = "rotated"
  BY <1>5, Records DEF LogoutRecord, TypeOK
<1>6. ASSUME NEW t \in Tokens, GraceEnds(t) \/ Forget(t)
      PROVE  record'[s].next = record[s].next /\ record[s].status = "rotated"
  <2>1. record[s] \in [status : Status, next : 0..MaxTokens, grace : BOOLEAN]
    BY DEF TypeOK
  <2>2. CASE GraceEnds(t)
    <3>1. record' = [record EXCEPT ![t].grace = FALSE]
      BY <2>2 DEF GraceEnds
    <3>2. record'[s].status = record[s].status /\ record'[s].next = record[s].next
      BY <2>1, <3>1 DEF TypeOK
    <3> QED
      BY <3>2
  <2>3. CASE Forget(t)
    <3>1. record' = [record EXCEPT ![t] = Missing]
      BY <2>3 DEF Forget
    <3>2. s # t
      BY <3>1, Records DEF TypeOK
    <3> QED
      BY <3>1, <3>2 DEF TypeOK
  <2> QED
    BY <1>6, <2>2, <2>3
<1>7. CASE UNCHANGED record
  BY <1>1, <1>7
<1> QED
  BY <1>1, <1>2, <1>3, <1>4, <1>5, <1>6, <1>7
  DEF Next, vars, Begin, Logout, Acquire, ReadActive, ReadRotated, ReadRevoked,
      ReadReplay, Answer, Dies, LockExpires

(* What Goes leaves of the request that goes, and of the others. *)
LEMMA GoesFields ==
  ASSUME TypeOK, NEW c \in Callers, NEW step, NEW n, Goes(c, step, n)
  PROVE  /\ call'[c].at = step /\ call'[c].new = n
         /\ call'[c].token = call[c].token
         /\ \A d \in Callers \ {c} : call'[d] = call[d]
BY DEF TypeOK, Goes

(* The conjuncts of KnownUnderWay that speak of one request. *)
UnderWay(c) ==
  /\ call[c].at # "idle" => call[c].token \in held
  /\ call[c].at \in {"store", "mark"} => call[c].new \in 1..issued
  /\ call[c].new \in 0..issued
  /\ call[c].at \in {"mark", "answer"} /\ call[c].new # None => Known(call[c].new)

(* A request that does not move stays under way. *)
LEMMA OthersUnderWay ==
  ASSUME TokenRotationAssumption, IInv, [Next]_vars,
         NEW c \in Callers, call'[c] = call[c]
  PROVE  UnderWay(c)'
<1>1. UnderWay(c)
  BY DEF IInv, KnownUnderWay, UnderWay
<1>2. PICK n \in 0..issued : n = call[c].new
  BY <1>1 DEF UnderWay
<1>3. n # None => n \in Tokens
  BY Grows DEF IInv, None
<1>4. n # None /\ Known(n) => Known(n)'
  BY <1>3, KnownStays DEF IInv
<1>5. issued \in Nat /\ issued' \in Nat /\ issued <= issued' /\ held \subseteq held'
  BY Grows DEF IInv
<1> QED
  BY <1>1, <1>2, <1>4, <1>5 DEF UnderWay, Known

(* A request that goes on without a successor. *)
LEMMA GoesWithoutToken ==
  ASSUME TokenRotationAssumption, IInv, [Next]_vars,
         NEW c \in Callers, NEW step \in CallStep \ {"store", "mark"},
         Goes(c, step, None), call[c].at # "idle"
  PROVE  UnderWay(c)'
<1>1. call[c].token \in held'
  BY Grows DEF IInv, KnownUnderWay
<1>2. issued' \in Nat
  BY Grows DEF IInv
<1> QED
  BY <1>1, <1>2, GoesFields DEF UnderWay, IInv, None

(***************************************************************************)
(* A request holds a token of the browser, and the successor it is going   *)
(* to hand out has been stored when it gets there.                         *)
(***************************************************************************)
LEMMA UnderWayStep ==
  ASSUME TokenRotationAssumption, IInv, [Next]_vars
  PROVE  KnownUnderWay'
<1> SUFFICES ASSUME NEW c \in Callers  PROVE UnderWay(c)'
  BY DEF KnownUnderWay, UnderWay
<1>1. issued \in Nat /\ issued' \in Nat /\ issued <= issued' /\ held \subseteq held'
  BY Grows DEF IInv
<1>2. call[c].at # "idle" => call[c].token \in held
  BY DEF IInv, KnownUnderWay
<1>3. ASSUME NEW t \in Tokens, Begin(c, t) \/ Logout(c, t)  PROVE UnderWay(c)'
  <2>1. /\ call'[c].at \in {"begun", "logout"} /\ call'[c].token = t /\ call'[c].new = 0
        /\ t \in held
    BY <1>3 DEF Begin, Logout, IInv, TypeOK, None
  <2> QED
    BY <1>1, <2>1 DEF UnderWay, None
<1>4. CASE Acquire(c)
  <2>1. /\ Goes(c, "holding", None) \/ Goes(c, "waiting", None)
        /\ call[c].at # "idle"
    BY <1>4 DEF Acquire
  <2> QED
    BY <2>1, GoesWithoutToken DEF CallStep
<1>5. CASE ReadActive(c)
  <2>1. CASE MayRotate(c)
    <3>1. Goes(c, "store", issued + 1) /\ issued' = issued + 1 /\ call[c].at # "idle"
      BY <1>5, <2>1, WriteOrder DEF ReadActive
    <3>2. /\ call'[c].at = "store" /\ call'[c].new = issued'
          /\ call'[c].token = call[c].token
      BY <3>1, GoesFields DEF IInv
    <3> QED
      BY <1>1, <1>2, <3>1, <3>2 DEF UnderWay
  <2>2. CASE ~MayRotate(c)
    <3>1. Goes(c, "answer", None) /\ call[c].at # "idle"
      BY <1>5, <2>2 DEF ReadActive
    <3> QED
      BY <3>1, GoesWithoutToken DEF CallStep
  <2> QED
    BY <2>1, <2>2
<1>6. CASE ReadRotated(c)
  <2>1. /\ call[c].token \in Tokens /\ record[call[c].token].status = "rotated"
        /\ call[c].at # "idle"
    BY <1>6 DEF ReadRotated, InGrace, IInv, TypeOK
  <2>2. PICK n \in 1..issued : n = record[call[c].token].next /\ Known(n)
    BY <2>1 DEF IInv, KnownRotated
  <2>3. Known(n)'
    BY <2>2, Grows, KnownStays DEF IInv
  <2>4. /\ call'[c].at = "answer" /\ call'[c].new = n
        /\ call'[c].token = call[c].token /\ issued' = issued
    BY <1>6, <2>2, GoesFields DEF ReadRotated, IInv
  <2> QED
    BY <1>1, <1>2, <2>1, <2>3, <2>4 DEF UnderWay, Known
<1>7. CASE ReadRevoked(c) \/ ReadReplay(c)
  <2>1. Goes(c, "answer", None) /\ call[c].at # "idle"
    BY <1>7 DEF ReadRevoked, ReadReplay
  <2> QED
    BY <2>1, GoesWithoutToken DEF CallStep
<1>8. CASE Store(c)
  <2>1. PICK n \in 1..issued : n = call[c].new
    BY <1>8 DEF Store, IInv, KnownUnderWay
  <2>2. /\ call'[c].at = "mark" /\ call'[c].new = n
        /\ call'[c].token = call[c].token
    BY <1>8, <2>1, GoesFields, WriteOrder DEF Store, IInv
  <2>3. Known(n)'
    BY <1>8, <2>1, Records, Grows DEF Store, Known, IInv, TypeOK
  <2> QED
    BY <1>1, <1>2, <1>8, <2>1, <2>2, <2>3 DEF UnderWay, Known, Store
<1>9. CASE Mark(c)
  <2>1. PICK n \in 1..issued : n = call[c].new /\ Known(n)
    BY <1>9, <1>1 DEF Mark, IInv, KnownUnderWay, None
  <2>2. /\ call'[c].at = "answer" /\ call'[c].new = n
        /\ call'[c].token = call[c].token
    BY <1>9, <2>1, GoesFields, WriteOrder DEF Mark, IInv
  <2>3. Known(n)'
    BY <2>1, Grows, KnownStays DEF IInv
  <2> QED
    BY <1>1, <1>2, <1>9, <2>1, <2>2, <2>3 DEF UnderWay, Known, Mark
<1>10. CASE Answer(c) \/ LogoutRecord(c) \/ Dies(c)
  <2>1. call'[c].at = "idle" /\ call'[c].new = 0
    BY <1>10 DEF Answer, LogoutRecord, Dies, Idle, IInv, TypeOK, None
  <2> QED
    BY <1>1, <2>1 DEF UnderWay
<1>11. CASE call'[c] = call[c]
  BY <1>11, OthersUnderWay
<1>12. ASSUME NEW d \in Callers \ {c}, NEW t \in Tokens,
              \/ Begin(d, t) \/ Logout(d, t) \/ Acquire(d) \/ ReadActive(d)
              \/ ReadRotated(d) \/ ReadRevoked(d) \/ ReadReplay(d) \/ Store(d)
              \/ Mark(d) \/ Answer(d) \/ LogoutRecord(d) \/ Dies(d)
       PROVE  call'[c] = call[c]
  <2>1. CASE \E step, n : Goes(d, step, n)
    BY <2>1, GoesFields DEF IInv
  <2>2. CASE \E x : call' = [call EXCEPT ![d] = x]
    BY <2>2 DEF IInv, TypeOK
  <2> QED
    BY <1>12, <2>1, <2>2
    DEF Begin, Logout, Acquire, ReadActive, ReadRotated, ReadRevoked, ReadReplay,
        Store, Mark, Answer, LogoutRecord, Dies
<1>13. ASSUME NEW t \in Tokens, LockExpires(t) \/ GraceEnds(t) \/ Forget(t)
       PROVE  call'[c] = call[c]
  BY <1>13 DEF LockExpires, GraceEnds, Forget
<1>14. 1 \in Tokens
  BY Records
<1> QED
  BY <1>3, <1>4, <1>5, <1>6, <1>7, <1>8, <1>9, <1>10, <1>11, <1>12, <1>13, <1>14
  DEF Next, vars

(* Only a token that is known to be gone is reported. *)
LEMMA AlarmStep ==
  ASSUME TokenRotationAssumption, IInv, [Next]_vars
  PROVE  NoFalseAlarm'
<1> USE DEF IInv, NoFalseAlarm
<1>1. ASSUME NEW c \in Callers, ReadReplay(c)  PROVE alarm' \subseteq marked
  <2>1. call[c].token \in held /\ call[c].token \in Tokens
    BY <1>1 DEF ReadReplay, KnownUnderWay, TypeOK
  <2>2. call[c].token \in marked
    BY <1>1, <2>1 DEF ReadReplay, KnownHeld, KnownRotated, Known
  <2> QED
    BY <1>1, <2>2 DEF ReadReplay
<1>2. CASE alarm' = alarm
  BY <1>2, Grows
<1> QED
  BY <1>1, <1>2, Grows
  DEF Next, vars, Begin, Logout, Acquire, ReadActive, ReadRotated, ReadRevoked,
      Store, Mark, Answer, LogoutRecord, Dies, LockExpires, GraceEnds, Forget

LEMMA Inductive ==
  ASSUME TokenRotationAssumption, IInv, [Next]_vars
  PROVE  IInv'
BY TypeStep, HeldStep, UnderWayStep, RotatedStep, AlarmStep DEF IInv

-----------------------------------------------------------------------------
(* One live token, as long as no request outlives its lock. *)

Rotating(c) == call[c].at \in {"store", "mark"}

IsActive(t) == record[t].status = "active"

(***************************************************************************)
(* A token the browser has, or gets from a request or a record without     *)
(* another rotation.                                                       *)
(***************************************************************************)
Offered(t) ==
  \/ t \in held
  \/ \E c \in Callers : call[c].at = "answer" /\ call[c].new = t
  \/ \E s \in Tokens : record[s].status = "rotated" /\ record[s].next = t

LockIsMine ==
  \A c \in Callers : call[c].at \in {"holding", "store", "mark"} => lock[call[c].token] = c

OneActiveOffer ==
  \A s, t \in Tokens : Offered(s) /\ Offered(t) /\ IsActive(s) /\ IsActive(t) => s = t

(* While a rotation is on its way, the token it replaces is the live one. *)
RotationIsAlone ==
  \A c \in Callers :
    Rotating(c) =>
      /\ ~Offered(call[c].new)
      /\ \A t \in Tokens : Offered(t) /\ IsActive(t) => t = call[c].token
      /\ \A d \in Callers : Rotating(d) => d = c

LiveInv == overrun \/ (LockIsMine /\ OneActiveOffer /\ RotationIsAlone)

(* What is offered was offered before, but for the successor of a Mark. *)
LEMMA OfferedStep ==
  ASSUME TokenRotationAssumption, IInv, [Next]_vars, NEW t \in Tokens, Offered(t)',
         \A c \in Callers : ~Mark(c)
  PROVE  Offered(t)
<1> USE DEF IInv
<1>1. t # None
  BY DEF Tokens, None
<1>2. ASSUME NEW c \in Callers, NEW u \in Tokens, Begin(c, u) \/ Logout(c, u)  PROVE Offered(t)
  BY <1>2 DEF Begin, Logout, Offered, TypeOK
<1>3. ASSUME NEW c \in Callers, NEW step, Goes(c, step, None), UNCHANGED <<record, held>>
      PROVE  Offered(t)
  BY <1>1, <1>3, GoesFields DEF Offered
<1>4. ASSUME NEW c \in Callers, Acquire(c)  PROVE Offered(t)
  BY <1>3, <1>4 DEF Acquire
<1>5. ASSUME NEW c \in Callers, ReadActive(c)  PROVE Offered(t)
  <2>1. CASE MayRotate(c)
    <3>1. call'[c].at = "store" /\ \A d \in Callers \ {c} : call'[d] = call[d]
      BY <1>5, <2>1, GoesFields, WriteOrder DEF ReadActive
    <3> QED
      BY <1>5, <3>1 DEF Offered, ReadActive
  <2> QED
    BY <1>3, <1>5, <2>1 DEF ReadActive
<1>6. ASSUME NEW c \in Callers, ReadRotated(c)  PROVE Offered(t)
  <2>1. /\ call[c].token \in Tokens /\ record[call[c].token].status = "rotated"
        /\ call'[c].new = record[call[c].token].next
        /\ \A d \in Callers \ {c} : call'[d] = call[d]
    BY <1>6, GoesFields DEF ReadRotated, InGrace, TypeOK
  <2> QED
    BY <1>6, <2>1 DEF Offered, ReadRotated
<1>7. ASSUME NEW c \in Callers, ReadRevoked(c) \/ ReadReplay(c)  PROVE Offered(t)
  BY <1>3, <1>7 DEF ReadRevoked, ReadReplay
<1>8. ASSUME NEW c \in Callers, Store(c)  PROVE Offered(t)
  <2>1. call'[c].at = "mark" /\ \A d \in Callers \ {c} : call'[d] = call[d]
    BY <1>8, GoesFields, WriteOrder DEF Store
  <2>2. \A s \in Tokens : record'[s].status = "rotated" => record'[s] = record[s]
    BY <1>8, Records DEF Store, TypeOK
  <2> QED
    BY <1>8, <2>1, <2>2 DEF Offered, Store
<1>9. ASSUME NEW c \in Callers, Answer(c)  PROVE Offered(t)
  BY <1>9 DEF Answer, Offered, TypeOK, Idle
<1>10. ASSUME NEW c \in Callers, LogoutRecord(c)  PROVE Offered(t)
  <2>1. \A s \in Tokens : record'[s].status = "rotated" => record'[s] = record[s]
    BY <1>10, Records DEF LogoutRecord, TypeOK
  <2> QED
    BY <1>10, <2>1 DEF LogoutRecord, Offered, TypeOK, Idle
<1>11. ASSUME NEW c \in Callers, Dies(c)  PROVE Offered(t)
  BY <1>11 DEF Dies, Offered, TypeOK, Idle
<1>12. ASSUME NEW u \in Tokens, LockExpires(u)  PROVE Offered(t)
  BY <1>12 DEF LockExpires, Offered
<1>13. ASSUME NEW u \in Tokens, GraceEnds(u)  PROVE Offered(t)
  BY <1>13 DEF GraceEnds, Offered, TypeOK
<1>14. ASSUME NEW u \in Tokens, Forget(u)  PROVE Offered(t)
  <2>1. \A s \in Tokens : record'[s].status = "rotated" => record'[s] = record[s]
    BY <1>14, Records DEF Forget, TypeOK
  <2> QED
    BY <1>14, <2>1 DEF Forget, Offered
<1>15. CASE UNCHANGED vars
  BY <1>15 DEF vars, Offered
<1> QED
  BY <1>2, <1>4, <1>5, <1>6, <1>7, <1>8, <1>9, <1>10, <1>11, <1>12, <1>13, <1>14, <1>15
  DEF Next

(* A record only becomes active when it is stored. *)
LEMMA ActiveStep ==
  ASSUME TokenRotationAssumption, TypeOK, [Next]_vars, NEW t \in Tokens, IsActive(t)',
         \A c \in Callers : ~(Store(c) /\ call[c].new = t)
  PROVE  IsActive(t)
<1> USE DEF TypeOK, IsActive
<1>1. ASSUME NEW c \in Callers, Store(c)  PROVE IsActive(t)
  BY <1>1 DEF Store
<1>2. ASSUME NEW c \in Callers, Mark(c)  PROVE IsActive(t)
  BY <1>2, Records DEF Mark
<1>3. ASSUME NEW c \in Callers, LogoutRecord(c)  PROVE IsActive(t)
  BY <1>3, Records DEF LogoutRecord
<1>4. ASSUME NEW u \in Tokens, GraceEnds(u)  PROVE IsActive(t)
  BY <1>4 DEF GraceEnds
<1>5. ASSUME NEW u \in Tokens, Forget(u)  PROVE IsActive(t)
  BY <1>5, Records DEF Forget
<1>6. CASE UNCHANGED record
  BY <1>6
<1> QED
  BY <1>1, <1>2, <1>3, <1>4, <1>5, <1>6
  DEF Next, vars, Begin, Logout, Acquire, ReadActive, ReadRotated, ReadRevoked,
      ReadReplay, Answer, Dies, LockExpires

(* A rotation goes on with what it began with, or begins. *)
LEMMA RotatingStep ==
  ASSUME TokenRotationAssumption, TypeOK, [Next]_vars, NEW c \in Callers, Rotating(c)'
  PROVE  \/ /\ Rotating(c) /\ ~Mark(c)
            /\ call'[c].token = call[c].token /\ call'[c].new = call[c].new
         \/ ReadActive(c) /\ MayRotate(c)
<1> USE DEF TypeOK, Rotating
<1>1. ASSUME NEW d \in Callers, NEW step, NEW n, Goes(d, step, n), d # c
      PROVE  call'[c] = call[c]
  BY <1>1, GoesFields
<1>2. ASSUME NEW step, NEW n, Goes(c, step, n)
      PROVE  call'[c].at = step /\ call'[c].token = call[c].token /\ call'[c].new = n
  BY <1>2, GoesFields
<1>3. ASSUME NEW d \in Callers, NEW u \in Tokens, Begin(d, u) \/ Logout(d, u)
      PROVE  call'[c] = call[c]
  BY <1>3 DEF Begin, Logout
<1>4. ASSUME NEW d \in Callers, Answer(d) \/ LogoutRecord(d) \/ Dies(d)
      PROVE  call'[c] = call[c]
  BY <1>4 DEF Answer, LogoutRecord, Dies, Idle
<1>5. ASSUME NEW d \in Callers,
             Acquire(d) \/ ReadRotated(d) \/ ReadRevoked(d) \/ ReadReplay(d)
      PROVE  call'[c] = call[c]
  BY <1>1, <1>2, <1>5 DEF Acquire, ReadRotated, ReadRevoked, ReadReplay
<1>6. ASSUME NEW d \in Callers, ReadActive(d), d # c  PROVE call'[c] = call[c]
  BY <1>1, <1>6 DEF ReadActive
<1>7. CASE ReadActive(c)
  BY <1>2, <1>7 DEF ReadActive
<1>8. ASSUME NEW d \in Callers, Mark(d)
      PROVE  call'[c] = call[c] /\ d # c
  BY <1>1, <1>2, <1>8, WriteOrder DEF Mark
<1>9. Mark(c) => call'[c].at = "answer"
  BY <1>2, WriteOrder DEF Mark
<1>10. ASSUME NEW d \in Callers, Store(d), d # c
      PROVE  call'[c] = call[c]
  BY <1>1, <1>10 DEF Store
<1>11. CASE Store(c)
  BY <1>2, <1>11, WriteOrder DEF Store, Mark
<1>12. CASE call'[c] = call[c]
  BY <1>9, <1>12
<1> QED
  BY <1>3, <1>4, <1>5, <1>6, <1>7, <1>8, <1>10, <1>11, <1>12
  DEF Next, vars, LockExpires, GraceEnds, Forget

(* Nobody takes the lock of a request that is alive but for an overrun. *)
LEMMA LockStep ==
  ASSUME TokenRotationAssumption, TypeOK, [Next]_vars, LockIsMine, ~overrun'
  PROVE  LockIsMine'
<1> SUFFICES ASSUME NEW c \in Callers, call'[c].at \in {"holding", "store", "mark"}
             PROVE  lock'[call'[c].token] = c
  BY DEF LockIsMine
<1> USE DEF TypeOK, LockIsMine, TokenRotationAssumption
<1>0. Free # c /\ Orphan # c
  OBVIOUS
<1>1. ASSUME NEW d \in Callers, Acquire(d)  PROVE lock'[call'[c].token] = c
  <2>1. PICK step \in {"holding", "waiting"} :
          /\ Goes(d, step, None)
          /\ \/ /\ lock[call[d].token] = Free
                /\ lock' = [lock EXCEPT ![call[d].token] = d]
             \/ step = "waiting" /\ lock' = lock
    BY <1>1 DEF Acquire
  <2>2. /\ call'[d].at = step /\ call'[d].token = call[d].token
        /\ \A e \in Callers \ {d} : call'[e] = call[e]
    BY <2>1, GoesFields
  <2>3. CASE d = c
    BY <2>1, <2>2, <2>3
  <2>4. CASE d # c
    BY <1>0, <2>1, <2>2, <2>4
  <2> QED
    BY <2>3, <2>4
<1>2. ASSUME NEW d \in Callers, Answer(d) \/ Dies(d)  PROVE lock'[call'[c].token] = c
  <2>1. d # c
    BY <1>2 DEF Answer, Dies, Idle
  <2>2. call'[c] = call[c] /\ lock[call[c].token] = c
    BY <1>2, <2>1 DEF Answer, Dies
  <2> QED
    BY <1>2, <2>1, <2>2 DEF Answer, Dies
<1>3. ASSUME NEW t \in Tokens, LockExpires(t)  PROVE lock'[call'[c].token] = c
  BY <1>0, <1>3 DEF LockExpires
<1>4. ASSUME UNCHANGED lock, call'[c].token = call[c].token,
             call[c].at \in {"holding", "store", "mark"}
      PROVE  lock'[call'[c].token] = c
  BY <1>4
<1>5. ASSUME NEW d \in Callers, NEW t \in Tokens, Begin(d, t) \/ Logout(d, t)
      PROVE  lock'[call'[c].token] = c
  BY <1>5 DEF Begin, Logout
<1>6. ASSUME NEW d \in Callers, LogoutRecord(d)  PROVE lock'[call'[c].token] = c
  BY <1>6 DEF LogoutRecord, Idle
<1>7. ASSUME NEW d \in Callers, NEW step, NEW n, Goes(d, step, n), UNCHANGED lock,
             call[d].at \in {"holding", "store", "mark"} \/ step = "answer"
      PROVE  lock'[call'[c].token] = c
  <2>1. /\ call'[d].at = step /\ call'[d].token = call[d].token
        /\ \A e \in Callers \ {d} : call'[e] = call[e]
    BY <1>7, GoesFields
  <2> QED
    BY <1>4, <1>7, <2>1
<1>8. ASSUME NEW d \in Callers, ReadActive(d)  PROVE lock'[call'[c].token] = c
  BY <1>7, <1>8 DEF ReadActive, MayRotate
<1>9. ASSUME NEW d \in Callers, ReadRotated(d) \/ ReadRevoked(d) \/ ReadReplay(d)
      PROVE  lock'[call'[c].token] = c
  BY <1>7, <1>9 DEF ReadRotated, ReadRevoked, ReadReplay
<1>10. ASSUME NEW d \in Callers, Store(d) \/ Mark(d)  PROVE lock'[call'[c].token] = c
  BY <1>7, <1>10 DEF Store, Mark
<1>11. CASE UNCHANGED <<call, lock>>
  BY <1>11
<1> QED
  BY <1>1, <1>2, <1>3, <1>5, <1>6, <1>8, <1>9, <1>10, <1>11
  DEF Next, vars, GraceEnds, Forget

LEMMA OfferedAreIssued ==
  ASSUME IInv, NEW t \in Tokens, Offered(t)
  PROVE  t \in 1..issued
<1> USE DEF IInv, TypeOK
<1>1. CASE t \in held
  BY <1>1
<1>2. ASSUME NEW c \in Callers, call[c].at = "answer", call[c].new = t  PROVE t \in 1..issued
  BY <1>2 DEF KnownUnderWay, Tokens
<1>3. ASSUME NEW s \in Tokens, record[s].status = "rotated", record[s].next = t
      PROVE  t \in 1..issued
  BY <1>3 DEF KnownRotated
<1> QED
  BY <1>1, <1>2, <1>3 DEF Offered

(* The last write of a rotation offers the successor, and nothing else is live. *)
LEMMA MarkOffers ==
  ASSUME TokenRotationAssumption, IInv, RotationIsAlone, NEW c \in Callers, Mark(c),
         NEW t \in Tokens, Offered(t)', IsActive(t)'
  PROVE  t = call[c].new
<1> USE DEF IInv, TypeOK
<1>1. /\ call'[c].new = call[c].new
      /\ \A d \in Callers \ {c} : call'[d] = call[d]
  BY GoesFields DEF Mark
<1>2. t # call[c].token /\ IsActive(t)
  BY Records DEF Mark, IsActive
<1>3. ~Offered(t)
  BY <1>2 DEF RotationIsAlone, Rotating, Mark
<1>4. record'[call[c].token].next = call[c].new
  BY Records DEF Mark
<1>5. ASSUME NEW s \in Tokens, record'[s].status = "rotated", record'[s].next = t
      PROVE  t = call[c].new
  BY <1>3, <1>4, <1>5 DEF Mark, Offered
<1>6. ASSUME NEW d \in Callers, call'[d].at = "answer", call'[d].new = t
      PROVE  t = call[c].new
  BY <1>1, <1>3, <1>6 DEF Offered
<1>7. t \notin held'
  BY <1>3 DEF Mark, Offered
<1> QED
  BY <1>5, <1>6, <1>7 DEF Offered

(* Without that write, what is offered and live was so before. *)
LEMMA QuietStep ==
  ASSUME TokenRotationAssumption, IInv, [Next]_vars, RotationIsAlone,
         \A c \in Callers : ~Mark(c),
         NEW t \in Tokens, Offered(t)', IsActive(t)'
  PROVE  Offered(t) /\ IsActive(t)
<1>1. Offered(t)
  BY OfferedStep
<1>2. ASSUME NEW c \in Callers  PROVE ~(Store(c) /\ call[c].new = t)
  BY <1>1 DEF RotationIsAlone, Rotating, Store
<1> QED
  BY <1>1, <1>2, ActiveStep DEF IInv

LEMMA OfferStep ==
  ASSUME TokenRotationAssumption, IInv, [Next]_vars, RotationIsAlone, OneActiveOffer
  PROVE  OneActiveOffer'
<1> SUFFICES ASSUME NEW s \in Tokens, NEW t \in Tokens,
                    Offered(s)', Offered(t)', IsActive(s)', IsActive(t)'
             PROVE  s = t
  BY DEF OneActiveOffer, Tokens
<1>1. ASSUME NEW c \in Callers, Mark(c)  PROVE s = t
  BY <1>1, MarkOffers
<1>2. CASE \A c \in Callers : ~Mark(c)
  BY <1>2, QuietStep DEF OneActiveOffer
<1> QED
  BY <1>1, <1>2

(* The token that a holder of the lock may exchange is the live one. *)
LEMMA BeginsWithTheLiveOne ==
  ASSUME IInv, NEW c \in Callers, ReadActive(c), MayRotate(c)
  PROVE  /\ call[c].token \in Tokens /\ call[c].at = "holding"
         /\ Offered(call[c].token) /\ IsActive(call[c].token)
BY DEF IInv, TypeOK, KnownUnderWay, ReadActive, MayRotate, Offered, IsActive

LEMMA AloneStep ==
  ASSUME TokenRotationAssumption, IInv, [Next]_vars, LockIsMine, OneActiveOffer,
         RotationIsAlone
  PROVE  RotationIsAlone'
<1> SUFFICES ASSUME NEW c \in Callers, Rotating(c)'
             PROVE  /\ ~Offered(call[c].new)'
                    /\ \A t \in Tokens : Offered(t)' /\ IsActive(t)' => t = call'[c].token
                    /\ \A d \in Callers : Rotating(d)' => d = c
  BY DEF RotationIsAlone, Tokens
<1> USE DEF IInv, TypeOK
<1>1. CASE /\ Rotating(c) /\ ~Mark(c)
           /\ call'[c].token = call[c].token /\ call'[c].new = call[c].new
  <2>1. ASSUME NEW d \in Callers  PROVE ~Mark(d)
    BY <1>1 DEF RotationIsAlone, Rotating, Mark
  <2>2. call[c].new \in Tokens /\ ~Offered(call[c].new)
    BY <1>1 DEF RotationIsAlone, Rotating, KnownUnderWay, Tokens
  <2>3. ~Offered(call[c].new)'
    BY <1>1, <2>1, <2>2, OfferedStep
  <2>4. ASSUME NEW t \in Tokens, Offered(t)', IsActive(t)'  PROVE t = call[c].token
    BY <1>1, <2>1, <2>4, QuietStep DEF RotationIsAlone
  <2>5. ASSUME NEW d \in Callers, Rotating(d)'  PROVE d = c
    <3>1. CASE Rotating(d)
      BY <1>1, <3>1 DEF RotationIsAlone
    <3>2. CASE ReadActive(d) /\ MayRotate(d)
      <4>1. call[d].token = call[c].token /\ call[d].at = "holding"
        BY <1>1, <3>2, BeginsWithTheLiveOne DEF RotationIsAlone
      <4> QED
        BY <1>1, <4>1 DEF LockIsMine, Rotating
    <3> QED
      BY <2>5, <3>1, <3>2, RotatingStep
  <2> QED
    BY <1>1, <2>3, <2>4, <2>5
<1>2. CASE ReadActive(c) /\ MayRotate(c)
  <2>1. /\ call'[c].token = call[c].token /\ call'[c].new = issued + 1
        /\ issued + 1 \in Tokens /\ issued' = issued + 1
    BY <1>2, GoesFields DEF ReadActive, Tokens, TokenRotationAssumption
  <2>2. ASSUME NEW d \in Callers  PROVE ~Mark(d)
    BY <2>1 DEF Mark, Tokens
  <2>3. ~Offered(issued + 1)
    BY <2>1, OfferedAreIssued DEF Tokens
  <2>4. ~Offered(call[c].new)'
    <3>1. PICK n \in Tokens : n = issued + 1
      BY <2>1
    <3>2. ~Offered(n)'
      BY <2>2, <2>3, <3>1, OfferedStep
    <3> QED
      BY <2>1, <3>1, <3>2 DEF Offered
  <2>5. ASSUME NEW t \in Tokens, Offered(t)', IsActive(t)'  PROVE t = call[c].token
    BY <1>2, <2>2, <2>5, QuietStep, BeginsWithTheLiveOne DEF OneActiveOffer
  <2>6. ASSUME NEW d \in Callers, Rotating(d)'  PROVE d = c
    <3>1. CASE Rotating(d)
      <4>1. call[c].token = call[d].token /\ call[c].at = "holding"
        BY <1>2, <3>1, BeginsWithTheLiveOne DEF RotationIsAlone
      <4> QED
        BY <3>1, <4>1 DEF LockIsMine, Rotating
    <3>2. CASE ReadActive(d) /\ MayRotate(d)
      <4>1. call[c].token = call[d].token /\ call[c].at = "holding" /\ call[d].at = "holding"
        BY <1>2, <3>2, BeginsWithTheLiveOne DEF OneActiveOffer
      <4> QED
        BY <4>1 DEF LockIsMine
    <3> QED
      BY <2>6, <3>1, <3>2, RotatingStep
  <2> QED
    BY <2>1, <2>4, <2>5, <2>6
<1> QED
  BY <1>1, <1>2, RotatingStep

LEMMA LiveStep ==
  ASSUME TokenRotationAssumption, IInv, [Next]_vars, LiveInv
  PROVE  LiveInv'
<1>1. overrun => overrun'
  BY DEF IInv, TypeOK, Next, vars, Begin, Logout, Acquire, ReadActive, ReadRotated, ReadRevoked,
      ReadReplay, Store, Mark, Answer, LogoutRecord, Dies, LockExpires, GraceEnds, Forget
<1> QED
  BY <1>1, LockStep, OfferStep, AloneStep DEF IInv, LiveInv

LEMMA InitLiveInv ==
  ASSUME TokenRotationAssumption, Init
  PROVE  LiveInv
<1>1. \A c \in Callers : call[c].at = "idle"
  BY DEF Init, Idle
<1>2. \A t \in Tokens : IsActive(t) => t = 1
  BY Records DEF Init, IsActive
<1> QED
  BY <1>1, <1>2 DEF LiveInv, LockIsMine, OneActiveOffer, RotationIsAlone, Rotating

-----------------------------------------------------------------------------
(* Every reachable state has the declared shape. *)
THEOREM TypeCorrect ==
  ASSUME TokenRotationAssumption
  PROVE  Spec => []TypeOK
<1>1. Init => IInv
  BY InitIInv
<1>2. IInv /\ [Next]_vars => IInv'
  BY Inductive
<1>3. IInv => TypeOK
  BY DEF IInv
<1> QED
  BY <1>1, <1>2, <1>3, PTL DEF Spec

(***************************************************************************)
(* A token the browser received is never taken for a replay before it was  *)
(* itself exchanged, for any number of tokens and overlapping requests     *)
(* (_rotate_active_record stores the successor before it marks the token). *)
(***************************************************************************)
THEOREM NoReplayBeforeExchange ==
  ASSUME TokenRotationAssumption
  PROVE  Spec => []NoFalseAlarm
<1>1. Init => IInv
  BY InitIInv
<1>2. IInv /\ [Next]_vars => IInv'
  BY Inductive
<1>3. IInv => NoFalseAlarm
  BY DEF IInv
<1> QED
  BY <1>1, <1>2, <1>3, PTL DEF Spec

(***************************************************************************)
(* Of the tokens a browser holds at most one is active while no request    *)
(* outlives its lock, for any number of tokens and overlapping requests    *)
(* (rotate_refresh_token).                                                 *)
(***************************************************************************)
THEOREM OneTokenLives ==
  ASSUME TokenRotationAssumption
  PROVE  Spec => []OneLiveToken
<1>1. Init => IInv /\ LiveInv
  BY InitIInv, InitLiveInv
<1>2. IInv /\ LiveInv /\ [Next]_vars => (IInv /\ LiveInv)'
  BY Inductive, LiveStep
<1>3. IInv /\ LiveInv => OneLiveToken
  <2> SUFFICES ASSUME IInv, OneActiveOffer  PROVE OneLiveToken
    BY DEF LiveInv, OneLiveToken
  <2>1. ASSUME NEW t \in held  PROVE t \in Tokens /\ Offered(t)
    BY <2>1 DEF IInv, TypeOK, Tokens, Offered, TokenRotationAssumption
  <2> QED
    BY <2>1 DEF OneActiveOffer, IsActive, OneLiveToken
<1> QED
  BY <1>1, <1>2, <1>3, PTL DEF Spec
=============================================================================
