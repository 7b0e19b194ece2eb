--------------------------- MODULE TokenRotation ---------------------------
(***************************************************************************)
(* The refresh tokens of one login: each exchange of a token (rotation)    *)
(* answers with its successor, and a few seconds of grace let the tabs of  *)
(* one browser that exchange the same token at once get the same           *)
(* successor.  The records are single Redis keys, written one at a time;   *)
(* a lock with a lifetime serializes the exchanges of one token.           *)
(*                                                                         *)
(* Left out: the lifetimes of tokens and of the family mark (days), the    *)
(* access token that comes with each answer, the state of the user.        *)
(***************************************************************************)
EXTENDS Naturals

CONSTANTS
  MaxTokens,  \* bound: refresh tokens of the family, in creation order
  Callers     \* requests that may be under way at once

None == 0
Tokens == 1..MaxTokens
Free == "free"
Orphan == "orphan"   \* the lock of a request that died

TokenRotationAssumption ==
  /\ MaxTokens \in Nat \ {0}
  /\ Free \notin Callers /\ Orphan \notin Callers

VARIABLES
  record,    \* record[t]: the Redis record of a token
  family,    \* the family is marked as revoked
  lock,      \* lock[t]: the rotation lock of a token
  call,      \* call[c]: the request of c
  issued,    \* how many tokens were created
  held,      \* the tokens the browser received
  marked,    \* history: tokens whose record was replaced by "rotated"
  alarm,     \* history: tokens whose use was reported as a replay
  overrun    \* history: a living request lost its lock

vars == <<record, family, lock, call, issued, held, marked, alarm, overrun>>

Status == {"missing", "active", "rotated", "revoked"}
Plain(s) == [status |-> s, next |-> None, grace |-> FALSE]
Missing == Plain("missing")
Active == Plain("active")
Revoked == Plain("revoked")
Rotated(n) == [status |-> "rotated", next |-> n, grace |-> TRUE]

CallStep == {"idle", "begun", "holding", "waiting", "store", "mark", "answer",
             "logout"}
Idle == [at |-> "idle", token |-> 1, new |-> None]

TypeOK ==
  /\ record \in [Tokens -> [status : Status, next : 0..MaxTokens, grace : BOOLEAN]]
  /\ family \in BOOLEAN
  /\ lock \in [Tokens -> Callers \cup {Free, Orphan}]
  /\ call \in [Callers -> [at : CallStep, token : Tokens, new : 0..MaxTokens]]
  /\ issued \in Tokens
  /\ held \subseteq 1..issued
  /\ marked \subseteq 1..issued /\ alarm \subseteq 1..issued
  /\ overrun \in BOOLEAN

(* issue_token_pair: the login has stored the first token. *)
Init ==
  /\ record = [t \in Tokens |-> IF t = 1 THEN Active ELSE Missing]
  /\ family = FALSE
  /\ lock = [t \in Tokens |-> Free]
  /\ call = [c \in Callers |-> Idle]
  /\ issued = 1
  /\ held = {1}
  /\ marked = {} /\ alarm = {} /\ overrun = FALSE

-----------------------------------------------------------------------------
(* rotate_refresh_token *)

Goes(c, step, n) == call' = [call EXCEPT ![c].at = step, ![c].new = n]

(* Only a request that found the family unmarked gets as far as the lock. *)
Begin(c, t) ==
  /\ call[c].at = "idle" /\ t \in held
  /\ ~family
  /\ call' = [call EXCEPT ![c] = [at |-> "begun", token |-> t, new |-> None]]
  /\ UNCHANGED <<record, family, lock, issued, held, marked, alarm, overrun>>

(* SET NX; a request that does not get the lock reads the record anyway. *)
Acquire(c) ==
  LET t == call[c].token IN
  /\ call[c].at = "begun"
  /\ \/ /\ lock[t] = Free
        /\ lock' = [lock EXCEPT ![t] = c]
        /\ Goes(c, "holding", None)
     \/ /\ lock[t] # Free
        /\ Goes(c, "waiting", None)
        /\ UNCHANGED lock
  /\ UNCHANGED <<record, family, issued, held, marked, alarm, overrun>>

(* Mutants of the two definitions below. *)
WritesSwapped == <<"mark", "store">>
MayAlwaysRotate(c) == call[c].at \in {"holding", "waiting"}

(* A rotation first stores the successor, then marks the token as rotated. *)
Writes == <<"store", "mark">>

After(write) == IF write = Writes[1] THEN Writes[2] ELSE "answer"

(* allow_active: only under the lock. *)
MayRotate(c) == call[c].at = "holding"

ReadActive(c) ==
  LET t == call[c].token IN
  /\ call[c].at \in {"holding", "waiting"}
  /\ record[t].status = "active"
  /\ \/ /\ MayRotate(c) /\ issued < MaxTokens
        /\ issued' = issued + 1
        /\ Goes(c, Writes[1], issued + 1)
     \/ /\ ~MayRotate(c)
        /\ Goes(c, "answer", None)
        /\ UNCHANGED issued
  /\ UNCHANGED <<record, family, lock, held, marked, alarm, overrun>>

InGrace(t) == record[t].status = "rotated" /\ record[t].grace

ReadRotated(c) ==
  /\ call[c].at \in {"holding", "waiting"}
  /\ InGrace(call[c].token)
  /\ Goes(c, "answer", record[call[c].token].next)
  /\ UNCHANGED <<record, family, lock, issued, held, marked, alarm, overrun>>

ReadRevoked(c) ==
  /\ call[c].at \in {"holding", "waiting"}
  /\ record[call[c].token].status = "revoked"
  /\ Goes(c, "answer", None)
  /\ UNCHANGED <<record, family, lock, issued, held, marked, alarm, overrun>>

(* No record, or a rotated one after the grace: RefreshTokenReplayError. *)
ReadReplay(c) ==
  LET t == call[c].token IN
  /\ call[c].at \in {"holding", "waiting"}
  /\ record[t].status \in {"missing", "rotated"} /\ ~InGrace(t)
  /\ family' = TRUE
  /\ alarm' = alarm \cup {t}
  /\ Goes(c, "answer", None)
  /\ UNCHANGED <<record, lock, issued, held, marked, overrun>>

Store(c) ==
  /\ call[c].at = "store"
  /\ record' = [record EXCEPT ![call[c].new] = Active]
  /\ Goes(c, After("store"), call[c].new)
  /\ UNCHANGED <<family, lock, issued, held, marked, alarm, overrun>>

Mark(c) ==
  /\ call[c].at = "mark"
  /\ record' = [record EXCEPT ![call[c].token] = Rotated(call[c].new)]
  /\ marked' = marked \cup {call[c].token}
  /\ Goes(c, After("mark"), call[c].new)
  /\ UNCHANGED <<family, lock, issued, held, alarm, overrun>>

(***************************************************************************)
(* The lock is released if it is still this request's, and the answer is   *)
(* sent; it may get lost.                                                  *)
(***************************************************************************)
Answer(c) ==
  LET t == call[c].token IN
  /\ call[c].at = "answer"
  /\ lock' = [lock EXCEPT ![t] = IF @ = c THEN Free ELSE @]
  /\ held' \in {held, held \cup ({call[c].new} \ {None})}
  /\ call' = [call EXCEPT ![c] = Idle]
  /\ UNCHANGED <<record, family, issued, marked, alarm, overrun>>

-----------------------------------------------------------------------------
(* revoke_refresh_token: the mark of the family, then the record. *)

Logout(c, t) ==
  /\ call[c].at = "idle" /\ t \in held
  /\ family' = TRUE
  /\ call' = [call EXCEPT ![c] = [at |-> "logout", token |-> t, new |-> None]]
  /\ UNCHANGED <<record, lock, issued, held, marked, alarm, overrun>>

LogoutRecord(c) ==
  /\ call[c].at = "logout"
  /\ record' = [record EXCEPT ![call[c].token] = Revoked]
  /\ call' = [call EXCEPT ![c] = Idle]
  /\ UNCHANGED <<family, lock, issued, held, marked, alarm, overrun>>

-----------------------------------------------------------------------------
(* Faults and time *)

(* The process dies, or Redis refuses a command. *)
Dies(c) ==
  /\ call[c].at # "idle"
  /\ call' = [call EXCEPT ![c] = Idle]
  /\ lock' = [lock EXCEPT ![call[c].token] = IF @ = c THEN Orphan ELSE @]
  /\ UNCHANGED <<record, family, issued, held, marked, alarm, overrun>>

(***************************************************************************)
(* The lock lives for the grace period, at least two seconds, whether its  *)
(* holder is done or not.  (A release reads and deletes the lock in two    *)
(* commands; what it may delete by then, its own lock having expired, may  *)
(* as well expire.)                                                        *)
(***************************************************************************)
LockExpires(t) ==
  /\ lock[t] # Free
  /\ lock' = [lock EXCEPT ![t] = Free]
  /\ overrun' = (overrun \/ lock[t] # Orphan)
  /\ UNCHANGED <<record, family, call, issued, held, marked, alarm>>

(* The grace is over, and a second later the record is gone. *)
GraceEnds(t) ==
  /\ InGrace(t)
  /\ record' = [record EXCEPT ![t].grace = FALSE]
  /\ UNCHANGED <<family, lock, call, issued, held, marked, alarm, overrun>>

Forget(t) ==
  /\ record[t].status = "rotated" /\ ~record[t].grace
  /\ record' = [record EXCEPT ![t] = Missing]
  /\ UNCHANGED <<family, lock, call, issued, held, marked, alarm, overrun>>

Next ==
  \/ \E c \in Callers, t \in Tokens : Begin(c, t) \/ Logout(c, t)
  \/ \E c \in Callers :
       \/ Acquire(c) \/ ReadActive(c) \/ ReadRotated(c) \/ ReadRevoked(c)
       \/ ReadReplay(c) \/ Store(c) \/ Mark(c) \/ Answer(c) \/ LogoutRecord(c)
       \/ Dies(c)
  \/ \E t \in Tokens : LockExpires(t) \/ GraceEnds(t) \/ Forget(t)

Spec == Init /\ [][Next]_vars

-----------------------------------------------------------------------------
(* Properties *)

(***************************************************************************)
(* A token the browser received is never taken for a replay before it was  *)
(* itself exchanged, however the two writes of a rotation, crashes and the *)
(* requests of other tabs fall: a missing record means a forgotten one     *)
(* (_rotate_from_existing_record, _rotate_active_record).                  *)
(***************************************************************************)
NoFalseAlarm == alarm \subseteq marked

(***************************************************************************)
(* Of the tokens the browser holds at most one is active: tabs that        *)
(* exchange a token at once, or again after a crash or a lost answer, all  *)
(* end up with one successor (the lock, allow_active and the grace), as    *)
(* long as no exchange outlives its lock.                                  *)
(***************************************************************************)
OneLiveToken ==
  overrun \/ \A s, t \in held :
    record[s].status = "active" /\ record[t].status = "active" => s = t
=============================================================================
