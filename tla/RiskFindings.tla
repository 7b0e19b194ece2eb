---------------------------- MODULE RiskFindings ----------------------------
(***************************************************************************)
(* The findings of one asset and the verification tasks that rewrite them. *)
(* A verification (evaluate_asset) reads the stored ports and snapshots,   *)
(* the findings and the signatures of the open ones, probes the host, and  *)
(* then upserts what it saw and marks FIXED what it did not see: all on    *)
(* the rows it read at the beginning, in one transaction that writes the   *)
(* columns it changed.  Collections and users queue verifications freely,  *)
(* so several of them may work on the same asset.                          *)
(*                                                                         *)
(* A finding's identity is a rule at a port; identity_hash has an index    *)
(* but no unique constraint, so an identity may have several rows.         *)
(***************************************************************************)
EXTENDS Naturals, Sequences

CONSTANTS
  Passive,    \* rules without an active check
  OnMatch,    \* rules whose probe runs when they match (on_passive_match)
  OnService,  \* rules whose probe runs when the service is there
  Verifiers,  \* verifications that may be under way at once
  MaxRows     \* bound: rows of one identity

Rules == Passive \cup OnMatch \cup OnService

RiskFindingsAssumption ==
  /\ Passive \cap OnMatch = {} /\ (Passive \cup OnMatch) \cap OnService = {}
  /\ MaxRows \in Nat \ {0}

VARIABLES
  rows,     \* rows[r]: the statuses of its rows, in the order of detected_at
  run,      \* run[v]: a verification
  alerted,  \* history, until two overlap: findings alerted since they were closed
  overlap   \* history: two verifications were under way at once

vars == <<rows, run, alerted, overlap>>

RowsOfOne == UNION {[1..n -> {"open", "fixed"}] : n \in 0..MaxRows}

(***************************************************************************)
(* view: the rows the verification read; saw: the rules that matched       *)
(* (OnService: whose service was there) in the stored data it read;        *)
(* confirmed: what its probes confirmed; news: the alerts it will publish; alone: no other *)
(* verification that saw something else was committed since it began.      *)
(***************************************************************************)
NoRun == [at |-> "idle", view |-> [r \in Rules |-> <<>>], saw |-> {},
          confirmed |-> {}, news |-> {}, alone |-> TRUE]

TypeOK ==
  /\ rows \in [Rules -> RowsOfOne]
  /\ run \in [Verifiers ->
       [at : {"idle", "read", "probed", "committed"}, view : [Rules -> RowsOfOne],
        saw : SUBSET Rules, confirmed : SUBSET Rules, news : SUBSET Rules,
        alone : BOOLEAN]]
  /\ alerted \subseteq Rules /\ overlap \in BOOLEAN

Init ==
  /\ rows = [r \in Rules |-> <<>>]
  /\ run = [v \in Verifiers |-> NoRun]
  /\ alerted = {} /\ overlap = FALSE

IsOpen(s) == \E i \in DOMAIN s : s[i] = "open"
OpenIn(table) == {r \in Rules : IsOpen(table[r])}

-----------------------------------------------------------------------------
(* What a verification sees *)

(***************************************************************************)
(* A finding whose probe is not confirmed is written again when it has a   *)
(* row, whatever the status of that row was; it gets no row when it has    *)
(* none, and no alert.                                                     *)
(***************************************************************************)
Upserted(v) == run[v].saw \ (OnService \ run[v].confirmed)
Kept(v) == {r \in run[v].saw \cap (OnService \ run[v].confirmed) : run[v].view[r] # <<>>}
Seen(v) == Upserted(v) \cup Kept(v)

(***************************************************************************)
(* _index_findings_by_identity prefers an open row to a fixed one before   *)
(* it and an earlier row to a later one; the relationship is not ordered,  *)
(* so with several rows more than one of them may end up in the map.       *)
(***************************************************************************)
Indexed(s) == IF s[1] = "open" THEN {1} ELSE {1} \cup {i \in DOMAIN s : s[i] = "open"}

(* Mutants: only the first row is converged; fixed rows are not found.      *)
ConvergeFirst(s, w) ==
  [i \in DOMAIN s |-> IF i = 1 /\ i \in DOMAIN w /\ w[i] = "open" THEN "fixed" ELSE s[i]]
FoundWhenOpen(w) == IsOpen(w)

(* The column is written when it differs from the row that was read. *)
Reopen(s, w, i) == [s EXCEPT ![i] = IF w[i] = "open" THEN @ ELSE "open"]

(* _converge_missing_findings: every open row of an identity not seen. *)
Converge(s, w) ==
  [i \in DOMAIN s |-> IF i \in DOMAIN w /\ w[i] = "open" THEN "fixed" ELSE s[i]]

(* _upsert_finding inserts a row only when the map has none. *)
Found(w) == w # <<>>

(* pick: the row the map holds. *)
Picks(v) ==
  {p \in [Rules -> 1..MaxRows] :
     \A r \in Rules : p[r] \in IF run[v].view[r] = <<>> THEN {1} ELSE Indexed(run[v].view[r])}

Written(v, r, pick) ==
  LET s == rows[r] w == run[v].view[r] IN
  CASE r \notin Seen(v) -> Converge(s, w)
    [] r \in Seen(v) /\ Found(w) -> Reopen(s, w, pick)
    [] r \in Seen(v) /\ ~Found(w) -> Append(s, "open")

(* _collect_pending_device_alert, over what was open when it began. *)
News(v) == Upserted(v) \ OpenIn(run[v].view)

-----------------------------------------------------------------------------
(* D: what the ports and snapshots stored by then say. *)
Begin(v, D) ==
  /\ run[v].at = "idle"
  /\ run' = [run EXCEPT ![v] = [NoRun EXCEPT !.at = "read", !.view = rows, !.saw = D]]
  /\ overlap' = (overlap \/ \E u \in Verifiers \ {v} : run[u].at # "idle")
  /\ alerted' = IF overlap' THEN {} ELSE alerted
  /\ UNCHANGED rows

(* _run_active_checks: confirmed, or rejected, skipped or an error. *)
Probe(v, C) ==
  /\ run[v].at = "read"
  /\ C \subseteq run[v].saw \cap (OnMatch \cup OnService)
  /\ run' = [run EXCEPT ![v].at = "probed", ![v].confirmed = C]
  /\ UNCHANGED <<rows, alerted, overlap>>

Commit(v) ==
  /\ run[v].at = "probed"
  /\ \E p \in Picks(v) : rows' = [r \in Rules |-> Written(v, r, p[r])]
  /\ \A r \in Rules : Len(rows'[r]) <= MaxRows
  /\ run' = [u \in Verifiers |->
       IF u = v THEN [NoRun EXCEPT !.at = "committed", !.news = News(v)]
       ELSE IF run[u].at \notin {"read", "probed"} \/ (run[u].at = "probed" /\ Seen(u) = Seen(v)) THEN run[u]
       ELSE [run[u] EXCEPT !.alone = FALSE]]
  /\ alerted' = alerted \cap OpenIn(rows')
  /\ UNCHANGED overlap

(* publish_device_abnormal_alert, after the commit. *)
Publish(v) ==
  /\ run[v].at = "committed"
  /\ alerted' = IF overlap THEN {} ELSE alerted \cup run[v].news
  /\ run' = [run EXCEPT ![v] = NoRun]
  /\ UNCHANGED <<rows, overlap>>

(* The task is canceled at a progress report, or its worker dies. *)
Dies(v) ==
  /\ run[v].at # "idle"
  /\ run' = [run EXCEPT ![v] = NoRun]
  /\ UNCHANGED <<rows, alerted, overlap>>

Next ==
  \/ \E v \in Verifiers :
       \/ Commit(v) \/ Publish(v) \/ Dies(v)
       \/ \E S \in SUBSET Rules : Begin(v, S) \/ Probe(v, S)

Spec == Init /\ [][Next]_vars

-----------------------------------------------------------------------------
(* Properties *)

(***************************************************************************)
(* When a verification is committed and every other one committed since it *)
(* began saw the same, the open findings are exactly what it saw, however  *)
(* many rows earlier overlaps left behind (_upsert_finding,                *)
(* _converge_missing_findings).  An overlap that saw something else may be *)
(* overwritten: an older reading then marks FIXED what a newer one found.  *)
(***************************************************************************)
OpenIsWhatWasSeen ==
  [][\A v \in Verifiers :
       run[v].at = "probed" /\ run[v].alone /\ run'[v].at = "committed" => OpenIn(rows') = Seen(v)]_vars

(***************************************************************************)
(* A device alert is not repeated while its finding stays open, as long as *)
(* no two verifications overlap (_load_open_device_alert_signatures).      *)
(***************************************************************************)
AlertsAreNews ==
  [][\A v \in Verifiers :
       Publish(v) /\ ~overlap => run[v].news \cap alerted = {}]_vars
=============================================================================
