--------------------------- MODULE GatewayConfig ---------------------------
(***************************************************************************)
(* The channel configuration of the model gateway: rows in the database,   *)
(* a copy of them in every process, and the Redis messages that tell the   *)
(* processes to drop it.  A copy is also dropped when it is 30 seconds     *)
(* old.  The rows are one version number here: every edit by an            *)
(* administrator, and every channel disabled because its key was refused,  *)
(* is one more.  A load that fails is stored as a copy without channels.   *)
(***************************************************************************)
EXTENDS Naturals

CONSTANTS
  Processes,  \* API and worker processes with a subscriber thread
  MaxWrites   \* bound: commits

GatewayConfigAssumption == MaxWrites \in Nat

VARIABLES
  version,  \* what the database holds
  cache,    \* cache[p]: _channel_cache
  load,     \* load[p]: what was read by the thread that holds _cache_lock
  unsaid,   \* unsaid[p]: commits of p not yet published
  inbox,    \* inbox[p]: messages its subscriber has not handled
  link,     \* link[p]: its subscription is up
  missed    \* history: missed[p]: a message did not reach p since it last read

vars == <<version, cache, load, unsaid, inbox, link, missed>>

None == MaxWrites + 1
Empty == MaxWrites + 2    \* the list of a load that failed
Versions == 0..MaxWrites

TypeOK ==
  /\ version \in Versions
  /\ cache \in [Processes -> Versions \cup {None, Empty}]
  /\ load \in [Processes -> Versions \cup {None, Empty}]
  /\ unsaid \in [Processes -> Nat]
  /\ inbox \in [Processes -> Nat]
  /\ link \in [Processes -> BOOLEAN]
  /\ missed \in [Processes -> BOOLEAN]

Init ==
  /\ version = 0
  /\ cache = [p \in Processes |-> None] /\ load = [p \in Processes |-> None]
  /\ unsaid = [p \in Processes |-> 0] /\ inbox = [p \in Processes |-> 0]
  /\ link = [p \in Processes |-> FALSE] /\ missed = [p \in Processes |-> FALSE]

-----------------------------------------------------------------------------
(* The lock covers the query too: nobody drops the copy during a load. *)

NoLock(p) == TRUE

LockFree(p) == load[p] = None

(* _load_channels_from_db: an error is logged and no channel returned. *)
FromDatabase == {version, Empty}

(* read_gateway_channels: no copy, an old one, or force_reload. *)
Load(p) ==
  /\ LockFree(p) /\ load[p] = None
  /\ \E channels \in FromDatabase : load' = [load EXCEPT ![p] = channels]
  /\ missed' = [missed EXCEPT ![p] = FALSE]
  /\ UNCHANGED <<version, cache, unsaid, inbox, link>>

(* What was loaded, or the empty list, is the copy for 30 seconds. *)
Loaded(p) ==
  /\ load[p] # None
  /\ cache' = [cache EXCEPT ![p] = load[p]]
  /\ load' = [load EXCEPT ![p] = None]
  /\ UNCHANGED <<version, unsaid, inbox, link, missed>>

(* An endpoint of gateway.py or disable_gateway_channel. *)
Commit(p) ==
  /\ version < MaxWrites
  /\ version' = version + 1
  /\ unsaid' = [unsaid EXCEPT ![p] = @ + 1]
  /\ UNCHANGED <<cache, load, inbox, link, missed>>

(***************************************************************************)
(* publish_gateway_config_updated: the own copy is dropped; Redis hands    *)
(* the message to the subscriptions that are up, or refuses it.            *)
(***************************************************************************)
Publish(p) ==
  /\ unsaid[p] > 0 /\ LockFree(p)
  /\ cache' = [cache EXCEPT ![p] = None]
  /\ unsaid' = [unsaid EXCEPT ![p] = @ - 1]
  /\ \E reached \in {{}, {q \in Processes : link[q]}} :
       /\ inbox' = [q \in Processes |-> inbox[q] + (IF q \in reached THEN 1 ELSE 0)]
       /\ missed' = [q \in Processes |-> missed[q] \/ q \notin reached \cup {p}]
  /\ UNCHANGED <<version, load, link>>

(* _config_subscriber_loop: drop the copy, then load it again. *)
Handle(p) ==
  /\ inbox[p] > 0 /\ LockFree(p)
  /\ inbox' = [inbox EXCEPT ![p] = @ - 1]
  /\ cache' = [cache EXCEPT ![p] = None]
  /\ \E channels \in FromDatabase : load' = [load EXCEPT ![p] = channels]
  /\ missed' = [missed EXCEPT ![p] = FALSE]
  /\ UNCHANGED <<version, unsaid, link>>

(* The connection is lost, with what it had not delivered. *)
Disconnect(p) ==
  /\ link[p]
  /\ link' = [link EXCEPT ![p] = FALSE]
  /\ inbox' = [inbox EXCEPT ![p] = 0]
  /\ missed' = [missed EXCEPT ![p] = @ \/ inbox[p] > 0]
  /\ UNCHANGED <<version, cache, load, unsaid>>

(* A new subscription does not load the copy again. *)
Subscribe(p) ==
  /\ ~link[p]
  /\ link' = [link EXCEPT ![p] = TRUE]
  /\ UNCHANGED <<version, cache, load, unsaid, inbox, missed>>

(* A process ends, perhaps between a commit and its message. *)
Restart(p) ==
  /\ cache' = [cache EXCEPT ![p] = None] /\ load' = [load EXCEPT ![p] = None]
  /\ unsaid' = [unsaid EXCEPT ![p] = 0] /\ inbox' = [inbox EXCEPT ![p] = 0]
  /\ link' = [link EXCEPT ![p] = FALSE]
  /\ missed' = [q \in Processes |-> q # p /\ (missed[q] \/ unsaid[p] > 0)]
  /\ UNCHANGED version

Next ==
  \E p \in Processes :
    \/ Load(p) \/ Loaded(p) \/ Commit(p) \/ Publish(p) \/ Handle(p)
    \/ Disconnect(p) \/ Subscribe(p) \/ Restart(p)

Spec == Init /\ [][Next]_vars

-----------------------------------------------------------------------------
(***************************************************************************)
(* A process that was reached by every message and has handled them serves *)
(* no channels of an earlier version: it has no copy, the current one, or  *)
(* the empty list of a load that failed, whatever commits, loads, errors   *)
(* and messages of several processes overlapped.  A change is only missed  *)
(* for 30 seconds, and only by who was not connected or when the writer    *)
(* died.                                                                   *)
(***************************************************************************)
Told(p) == inbox[p] = 0 /\ ~missed[p] /\ \A q \in Processes : unsaid[q] = 0

CacheFollowsDatabase ==
  \A p \in Processes : Told(p) /\ load[p] = None => cache[p] \in {None, Empty, version}
=============================================================================
