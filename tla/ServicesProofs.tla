--------------------------- MODULE ServicesProofs ---------------------------
(***************************************************************************)
(* Proofs about the ten services of MCServices, for all their constants.   *)
(* Each of them keeps an invariant of its own; the specification of all    *)
(* implements that of each, so its properties follow from theirs.          *)
(***************************************************************************)
EXTENDS MCServices, TokenRotationProofs, FiniteSetTheorems, SequenceTheorems

(* A step is one of the service that moves; the others do not change. *)
LEMMA OneServiceMoves ==
  ASSUME [ServicesNext]_services
  PROVE  /\ UNCHANGED service
         /\ [Next]_vars /\ [F!Next]_findings /\ [G!Next]_gateway /\ [S!Next]_scan
         /\ [R!Next]_versions /\ [H!Next]_access /\ [M!Next]_model /\ [X!Next]_fix
         /\ [P!Next]_settings /\ [C!Next]_steps
<1> USE DEF services
<1>1. CASE UNCHANGED services
  BY <1>1 DEF tokens, vars
<1>2. CASE ServicesNext
  BY <1>2 DEF ServicesNext, tokens, vars
<1> QED
  BY <1>1, <1>2

(***************************************************************************)
(* What the services do together each of them may do alone.                *)
(***************************************************************************)
THEOREM EachServiceRuns ==
  ServicesSpec => /\ Spec /\ F!Spec /\ G!Spec /\ S!Spec /\ R!Spec
                  /\ H!Spec /\ M!Spec /\ X!Spec /\ P!Spec /\ C!Spec
<1>1. ServicesInit => /\ Init /\ F!Init /\ G!Init /\ S!Init /\ R!Init
                      /\ H!Init /\ M!Init /\ X!Init /\ P!Init /\ C!Init
  BY DEF ServicesInit
<1>2. [ServicesNext]_services =>
        /\ [Next]_vars /\ [F!Next]_findings /\ [G!Next]_gateway /\ [S!Next]_scan
        /\ [R!Next]_versions /\ [H!Next]_access /\ [M!Next]_model /\ [X!Next]_fix
        /\ [P!Next]_settings /\ [C!Next]_steps
  BY OneServiceMoves
<1> QED
  BY <1>1, <1>2, PTL
     DEF ServicesSpec, Spec, F!Spec, G!Spec, S!Spec, R!Spec, H!Spec, M!Spec, X!Spec, P!Spec, C!Spec,
         F!vars, G!vars, S!vars, R!vars, H!vars, M!vars, X!vars, P!vars, C!vars,
         findings, gateway, scan, versions, access, model, fix, settings, steps

(* A set of natural numbers has a least one. *)
LEMMA LeastNumber ==
  ASSUME NEW N, N \subseteq Nat, N # {}
  PROVE  \E k \in N : \A j \in N : k <= j
<1> DEFINE Below(k) == {j \in Nat : j < k}
           T == {Below(k) : k \in N}
<1>1. \A k \in N : IsFiniteSet(Below(k))
  <2> SUFFICES ASSUME NEW k \in N  PROVE IsFiniteSet(Below(k))
    OBVIOUS
  <2>1. k \in Nat /\ Below(k) = 0..(k-1)
    OBVIOUS
  <2>2. IsFiniteSet(0..(k-1))
    BY <2>1, FS_Interval
  <2> QED
    BY <2>1, <2>2
<1>2. T \subseteq FiniteSubsetsOf(Nat) /\ T # {}
  BY <1>1 DEF FiniteSubsetsOf
<1>3. \E x \in T : \A y \in T : <<y, x>> \notin StrictSubsetOrdering(Nat)
  <2> HIDE DEF T
  <2> QED
    BY <1>2, WFMin, FS_StrictSubsetOrderingWellFounded
<1>4. PICK k \in N : \A y \in T : <<y, Below(k)>> \notin StrictSubsetOrdering(Nat)
  BY <1>3
<1>5. ASSUME NEW j \in N  PROVE k <= j
  <2>1. <<Below(j), Below(k)>> \notin StrictSubsetOrdering(Nat)
    BY <1>4
  <2>2. CASE j < k
    <3>1. Below(j) \subseteq Below(k) /\ j \in Below(k) /\ j \notin Below(j)
      BY <2>2
    <3> QED
      BY <2>1, <3>1 DEF StrictSubsetOrdering
  <2> QED
    BY <2>2
<1> QED
  BY <1>5

-----------------------------------------------------------------------------
(***************************************************************************)
(* The refresh tokens, whose proofs are in TokenRotationProofs: no token   *)
(* is taken for a replay before it was exchanged, and a browser holds one  *)
(* live token at most while no request outlives its lock.                  *)
(***************************************************************************)
THEOREM TokensKept ==
  ASSUME ServicesAssumption
  PROVE  ServicesSpec => []NoFalseAlarm /\ []OneLiveToken
<1>1. TokenRotationAssumption
  BY DEF ServicesAssumption
<1>2. (Spec => []NoFalseAlarm) /\ (Spec => []OneLiveToken)
  BY <1>1, NoReplayBeforeExchange, OneTokenLives
<1> QED
  BY <1>2, EachServiceRuns, PTL

-----------------------------------------------------------------------------
(***************************************************************************)
(* The findings.  A verification that is alone reads what is stored until  *)
(* it probes, and then the rows are what it read up to what one that saw   *)
(* the same has written since.  Without an overlap there is at most one    *)
(* verification, and only open findings are alerted.                       *)
(***************************************************************************)
RowsFit(v) ==
  \A r \in F!Rules :
    LET s == rows[r]
        w == run[v].view[r]
    IN IF r \in F!Seen(v)
       THEN \A i \in DOMAIN w : i \in DOMAIN s /\ (w[i] = "open" => s[i] = "open")
       ELSE \A i \in DOMAIN s : s[i] = "open" => i \in DOMAIN w /\ w[i] = "open"

Undisturbed ==
  \A v \in Verifiers :
    run[v].alone => /\ run[v].at = "read" => run[v].view = rows
                    /\ run[v].at = "probed" => RowsFit(v)

OneAtATime ==
  ~overlap =>
    /\ \A u, v \in Verifiers : run[u].at # "idle" /\ run[v].at # "idle" => u = v
    /\ \A v \in Verifiers :
         /\ run[v].at \in {"read", "probed"} => run[v].view = rows
         /\ run[v].at = "committed" =>
              run[v].news \cap alerted = {} /\ run[v].news \subseteq F!OpenIn(rows)
    /\ alerted \subseteq F!OpenIn(rows)

FindingsInv == F!TypeOK /\ Undisturbed /\ OneAtATime

Verification ==
  [at : {"idle", "read", "probed", "committed"}, view : [F!Rules -> F!RowsOfOne],
   saw : SUBSET F!Rules, confirmed : SUBSET F!Rules, news : SUBSET F!Rules, alone : BOOLEAN]

LEMMA RowsOfOne ==
  ASSUME ServicesAssumption
  PROVE  /\ MaxRows \in Nat \ {0} /\ <<>> \in F!RowsOfOne
         /\ \A s \in F!RowsOfOne : /\ Len(s) \in 0..MaxRows /\ DOMAIN s = 1..Len(s)
                                   /\ s \in Seq({"open", "fixed"})
                                   /\ \A i \in DOMAIN s : s[i] \in {"open", "fixed"}
         /\ \A n \in 0..MaxRows : \A s \in [1..n -> {"open", "fixed"}] : s \in F!RowsOfOne
<1>1. MaxRows \in Nat \ {0}
  BY DEF ServicesAssumption, F!RiskFindingsAssumption
<1>2. ASSUME NEW n \in 0..MaxRows, NEW s \in [1..n -> {"open", "fixed"}]
      PROVE  s \in F!RowsOfOne
  BY DEF F!RowsOfOne
<1>3. ASSUME NEW s \in F!RowsOfOne
      PROVE  /\ Len(s) \in 0..MaxRows /\ DOMAIN s = 1..Len(s) /\ s \in Seq({"open", "fixed"})
             /\ \A i \in DOMAIN s : s[i] \in {"open", "fixed"}
  <2>1. PICK n \in 0..MaxRows : s \in [1..n -> {"open", "fixed"}]
    BY DEF F!RowsOfOne
  <2>2. s \in Seq({"open", "fixed"}) /\ Len(s) = n
    BY <1>1, <2>1
  <2> QED
    BY <2>1, <2>2
<1>4. <<>> \in F!RowsOfOne
  <2>1. 0 \in 0..MaxRows /\ <<>> \in [1..0 -> {"open", "fixed"}]
    BY <1>1
  <2> QED
    BY <1>2, <2>1
<1> QED
  BY <1>1, <1>2, <1>3, <1>4

LEMMA NoRunTyped ==
  ASSUME ServicesAssumption
  PROVE  F!NoRun \in Verification /\ F!NoRun.at = "idle"
<1>1. [r \in F!Rules |-> <<>>] \in [F!Rules -> F!RowsOfOne]
  BY RowsOfOne
<1> QED
  BY <1>1 DEF F!NoRun, Verification

LEMMA FindingsInit ==
  ASSUME ServicesAssumption, F!Init
  PROVE  FindingsInv
<1>1. rows \in [F!Rules -> F!RowsOfOne]
  BY RowsOfOne DEF F!Init
<1>2. \A v \in Verifiers : run[v] = F!NoRun
  BY DEF F!Init
<1>3. F!TypeOK
  BY <1>1, NoRunTyped DEF F!Init, F!TypeOK, Verification
<1>4. Undisturbed
  BY <1>2, NoRunTyped DEF Undisturbed
<1>5. OneAtATime
  BY <1>2, NoRunTyped DEF OneAtATime, F!Init
<1> QED
  BY <1>3, <1>4, <1>5 DEF FindingsInv

(* What a verification sees is its own matter. *)
LEMMA SeenStays ==
  ASSUME NEW v \in Verifiers, run'[v] = run[v]
  PROVE  F!Seen(v)' = F!Seen(v) /\ F!Upserted(v)' = F!Upserted(v)
BY DEF F!Seen, F!Upserted, F!Kept

(* A commit writes rows of the type, opens some it saw, closes some it did not. *)
LEMMA WrittenRow ==
  ASSUME ServicesAssumption, F!TypeOK, NEW v \in Verifiers, NEW r \in F!Rules,
         NEW i \in 1..MaxRows,
         i \in IF run[v].view[r] = <<>> THEN {1} ELSE F!Indexed(run[v].view[r]),
         Len(F!Written(v, r, i)) <= MaxRows
  PROVE  LET s == rows[r]
             t == F!Written(v, r, i)
             w == run[v].view[r]
         IN /\ t \in F!RowsOfOne /\ DOMAIN s \subseteq DOMAIN t
            /\ r \in F!Seen(v) =>
                 /\ \A k \in DOMAIN s : s[k] = "open" => t[k] = "open"
                 /\ (\A k \in DOMAIN w : k \in DOMAIN s /\ (w[k] = "open" => s[k] = "open"))
                       => F!IsOpen(t)
            /\ r \notin F!Seen(v) =>
                 /\ \A k \in DOMAIN t : t[k] = "open" => k \in DOMAIN s /\ s[k] = "open"
                 /\ (\A k \in DOMAIN s : s[k] = "open" => k \in DOMAIN w /\ w[k] = "open")
                       => ~F!IsOpen(t)
<1> DEFINE s == rows[r]
           t == F!Written(v, r, i)
           w == run[v].view[r]
<1>1. s \in F!RowsOfOne /\ w \in F!RowsOfOne
  BY DEF F!TypeOK
<1>2. /\ s \in Seq({"open", "fixed"}) /\ Len(s) \in 0..MaxRows /\ DOMAIN s = 1..Len(s)
      /\ w \in Seq({"open", "fixed"}) /\ Len(w) \in Nat /\ DOMAIN w = 1..Len(w)
      /\ \A k \in DOMAIN s : s[k] \in {"open", "fixed"}
      /\ s \in [1..Len(s) -> {"open", "fixed"}]
  BY <1>1, RowsOfOne
<1>3. CASE r \notin F!Seen(v)
  <2>1. t = [k \in DOMAIN s |-> IF k \in DOMAIN w /\ w[k] = "open" THEN "fixed" ELSE s[k]]
    BY <1>3 DEF F!Written, F!Converge
  <2>2. t \in [1..Len(s) -> {"open", "fixed"}] /\ DOMAIN t = DOMAIN s
    BY <1>2, <2>1
  <2>3. t \in F!RowsOfOne
    BY <1>2, <2>2, RowsOfOne
  <2>4. \A k \in DOMAIN t : t[k] = "open" => s[k] = "open" /\ ~(k \in DOMAIN w /\ w[k] = "open")
    BY <2>1
  <2> QED
    BY <1>3, <2>2, <2>3, <2>4 DEF F!IsOpen
<1>4. CASE r \in F!Seen(v) /\ w # <<>>
  <2>1. t = [s EXCEPT ![i] = IF w[i] = "open" THEN s[i] ELSE "open"]
    BY <1>4 DEF F!Written, F!Found, F!Reopen
  <2>2. t \in [1..Len(s) -> {"open", "fixed"}] /\ DOMAIN t = DOMAIN s
    BY <1>2, <2>1
  <2>3. t \in F!RowsOfOne
    BY <1>2, <2>2, RowsOfOne
  <2>4. \A k \in DOMAIN s : s[k] = "open" => t[k] = "open"
    BY <2>1
  <2>5. i \in DOMAIN w
    <3>1. 1 \in DOMAIN w
      BY <1>2, <1>4
    <3> QED
      BY <1>4, <3>1 DEF F!Indexed
  <2>6. ASSUME \A k \in DOMAIN w : k \in DOMAIN s /\ (w[k] = "open" => s[k] = "open")
        PROVE  F!IsOpen(t)
    <3>1. i \in DOMAIN t /\ t[i] = "open"
      BY <2>1, <2>5, <2>6
    <3> QED
      BY <3>1 DEF F!IsOpen
  <2> QED
    BY <1>4, <2>2, <2>3, <2>4, <2>6
<1>5. CASE r \in F!Seen(v) /\ w = <<>>
  <2>1. t = Append(s, "open")
    BY <1>5 DEF F!Written, F!Found
  <2>2. /\ Len(t) = Len(s) + 1 /\ t[Len(s) + 1] = "open" /\ \A k \in 1..Len(s) : t[k] = s[k]
        /\ t \in [1..Len(s) + 1 -> {"open", "fixed"}]
    <3> HIDE DEF s, t
    <3>1. t \in Seq({"open", "fixed"}) /\ Len(t) = Len(s) + 1
      BY <1>2, <2>1
    <3>2. t[Len(s) + 1] = "open" /\ \A k \in 1..Len(s) : t[k] = s[k]
      BY <1>2, <2>1
    <3> QED
      BY <3>1, <3>2
  <2>3. Len(s) + 1 \in 0..MaxRows
    BY <1>2, <2>2, RowsOfOne
  <2>4. t \in F!RowsOfOne
    BY <2>2, <2>3, RowsOfOne
  <2>5. F!IsOpen(t)
    <3>1. Len(s) + 1 \in DOMAIN t /\ t[Len(s) + 1] = "open"
      BY <1>2, <2>2
    <3> QED
      BY <3>1 DEF F!IsOpen
  <2>6. DOMAIN s \subseteq DOMAIN t
    BY <1>2, <2>2
  <2> QED
    BY <1>2, <1>5, <2>2, <2>4, <2>5, <2>6
<1> QED
  BY <1>3, <1>4, <1>5

(***************************************************************************)
(* A commit whose rows fit opens what it saw and nothing else; and for     *)
(* another verification that saw the same they fit afterwards.             *)
(***************************************************************************)
LEMMA CommitWrites ==
  ASSUME ServicesAssumption, F!TypeOK, NEW v \in Verifiers, F!Commit(v)
  PROVE  /\ rows' \in [F!Rules -> F!RowsOfOne]
         /\ RowsFit(v) => F!OpenIn(rows') = F!Seen(v)
         /\ \A u \in Verifiers :
              RowsFit(u) /\ F!Seen(u) = F!Seen(v) /\ run'[u] = run[u] => RowsFit(u)'
<1>1. PICK p \in F!Picks(v) : rows' = [r \in F!Rules |-> F!Written(v, r, p[r])]
  BY DEF F!Commit
<1>2. \A r \in F!Rules : /\ p[r] \in 1..MaxRows /\ Len(F!Written(v, r, p[r])) <= MaxRows
                         /\ p[r] \in IF run[v].view[r] = <<>> THEN {1} ELSE F!Indexed(run[v].view[r])
                         /\ rows'[r] = F!Written(v, r, p[r])
  BY <1>1 DEF F!Commit, F!Picks
<1>3. \A r \in F!Rules :
        LET s == rows[r]
            t == rows'[r]
            w == run[v].view[r]
        IN /\ t \in F!RowsOfOne /\ DOMAIN s \subseteq DOMAIN t
           /\ r \in F!Seen(v) =>
                /\ \A k \in DOMAIN s : s[k] = "open" => t[k] = "open"
                /\ (\A k \in DOMAIN w : k \in DOMAIN s /\ (w[k] = "open" => s[k] = "open"))
                      => F!IsOpen(t)
           /\ r \notin F!Seen(v) =>
                /\ \A k \in DOMAIN t : t[k] = "open" => k \in DOMAIN s /\ s[k] = "open"
                /\ (\A k \in DOMAIN s : s[k] = "open" => k \in DOMAIN w /\ w[k] = "open")
                      => ~F!IsOpen(t)
  BY <1>2, WrittenRow
<1>4. rows' \in [F!Rules -> F!RowsOfOne]
  BY <1>1, <1>3
<1>5. F!Seen(v) \subseteq F!Rules
  BY DEF F!TypeOK, F!Seen, F!Upserted, F!Kept
<1>6. RowsFit(v) => F!OpenIn(rows') = F!Seen(v)
  BY <1>3, <1>5 DEF RowsFit, F!OpenIn
<1>7. ASSUME NEW u \in Verifiers, RowsFit(u), F!Seen(u) = F!Seen(v), run'[u] = run[u]
      PROVE  RowsFit(u)'
  <2>1. F!Seen(u)' = F!Seen(v)
    BY <1>7, SeenStays
  <2>2. ASSUME NEW r \in F!Rules, r \in F!Seen(v), NEW i \in DOMAIN run[u].view[r]
        PROVE  i \in DOMAIN rows'[r] /\ (run[u].view[r][i] = "open" => rows'[r][i] = "open")
    BY <1>3, <1>7, <2>2 DEF RowsFit
  <2>3. ASSUME NEW r \in F!Rules, r \notin F!Seen(v), NEW i \in DOMAIN rows'[r], rows'[r][i] = "open"
        PROVE  i \in DOMAIN run[u].view[r] /\ run[u].view[r][i] = "open"
    BY <1>3, <1>7, <2>3 DEF RowsFit
  <2> QED
    BY <1>7, <2>1, <2>2, <2>3 DEF RowsFit
<1> QED
  BY <1>4, <1>6, <1>7

LEMMA SameRowsFit ==
  ASSUME NEW v \in Verifiers, run[v].view = rows
  PROVE  RowsFit(v)
BY DEF RowsFit

LEMMA FindingsStep ==
  ASSUME ServicesAssumption, FindingsInv, [F!Next]_findings
  PROVE  FindingsInv'
<1>1. /\ run \in [Verifiers -> Verification] /\ rows \in [F!Rules -> F!RowsOfOne]
      /\ alerted \subseteq F!Rules /\ overlap \in BOOLEAN
  BY DEF FindingsInv, F!TypeOK, Verification
<1>2. ASSUME run' \in [Verifiers -> Verification], rows' \in [F!Rules -> F!RowsOfOne],
             alerted' \subseteq F!Rules, overlap' \in BOOLEAN
      PROVE  F!TypeOK'
  BY <1>2 DEF F!TypeOK, Verification
<1>3. CASE UNCHANGED findings
  <2>1. UNCHANGED <<rows, run, alerted, overlap>>
    BY <1>3 DEF findings
  <2>2. F!TypeOK'
    BY <1>1, <1>2, <2>1
  <2>3. \A v \in Verifiers : RowsFit(v)' <=> RowsFit(v)
    BY <2>1, SeenStays DEF RowsFit
  <2> QED
    BY <2>1, <2>2, <2>3 DEF FindingsInv, Undisturbed, OneAtATime, F!OpenIn
(* A verification that stays as it is still fits the rows. *)
<1>4. ASSUME UNCHANGED rows, NEW v \in Verifiers, run'[v] = run[v]
      PROVE  RowsFit(v)' <=> RowsFit(v)
  BY <1>4, SeenStays DEF RowsFit
<1>5. ASSUME NEW v \in Verifiers, NEW D \in SUBSET F!Rules, F!Begin(v, D)
      PROVE  FindingsInv'
  <2> DEFINE x == [F!NoRun EXCEPT !.at = "read", !.view = rows, !.saw = D]
  <2>1. x \in Verification /\ x.at = "read" /\ x.view = rows
    BY <1>1, NoRunTyped DEF Verification
  <2>2. run[v].at = "idle" /\ UNCHANGED rows /\ run' = [run EXCEPT ![v] = x]
    BY <1>5 DEF F!Begin
  <2> HIDE DEF x
  <2>3. run' \in [Verifiers -> Verification] /\ run'[v] = x /\ \A u \in Verifiers \ {v} : run'[u] = run[u]
    BY <1>1, <2>1, <2>2
  <2>4. overlap' = (overlap \/ \E u \in Verifiers \ {v} : run[u].at # "idle") /\ overlap' \in BOOLEAN
    BY <1>1, <1>5 DEF F!Begin
  <2>5. ~overlap' => ~overlap /\ alerted' = alerted /\ \A u \in Verifiers \ {v} : run[u].at = "idle"
    BY <1>5, <2>4 DEF F!Begin
  <2>6. alerted' \subseteq F!Rules
    BY <1>1, <1>5 DEF F!Begin
  <2>7. F!TypeOK'
    BY <1>1, <1>2, <2>2, <2>3, <2>4, <2>6
  <2>8. Undisturbed'
    BY <1>4, <2>1, <2>2, <2>3 DEF FindingsInv, Undisturbed
  <2>9. OneAtATime'
    BY <2>1, <2>2, <2>3, <2>5 DEF FindingsInv, OneAtATime
  <2> QED
    BY <2>7, <2>8, <2>9 DEF FindingsInv
<1>6. ASSUME NEW v \in Verifiers, NEW seen \in SUBSET F!Rules, F!Probe(v, seen)
      PROVE  FindingsInv'
  <2>1. run[v].at = "read" /\ UNCHANGED <<rows, alerted, overlap>>
    BY <1>6 DEF F!Probe
  <2>2. /\ run' \in [Verifiers -> Verification] /\ \A u \in Verifiers \ {v} : run'[u] = run[u]
        /\ run'[v].at = "probed" /\ run'[v].view = run[v].view /\ run'[v].alone = run[v].alone
    <3> DEFINE x == [run[v] EXCEPT !.at = "probed", !.confirmed = seen]
    <3>1. /\ x \in Verification /\ x.at = "probed" /\ x.view = run[v].view
          /\ x.alone = run[v].alone
      BY <1>1 DEF Verification
    <3>2. run' = [run EXCEPT ![v] = x]
      BY <1>1, <1>6 DEF F!Probe
    <3> HIDE DEF x
    <3> QED
      BY <1>1, <3>1, <3>2
  <2>3. F!TypeOK'
    BY <1>1, <1>2, <2>1, <2>2
  <2>4. run[v].alone => RowsFit(v)'
    <3> SUFFICES ASSUME run[v].alone  PROVE RowsFit(v)'
      OBVIOUS
    <3>1. run'[v].view = rows'
      BY <2>1, <2>2 DEF FindingsInv, Undisturbed
    <3> QED
      BY <3>1 DEF RowsFit
  <2>5. Undisturbed'
    BY <1>4, <2>1, <2>2, <2>4 DEF FindingsInv, Undisturbed
  <2>6. OneAtATime'
    BY <2>1, <2>2 DEF FindingsInv, OneAtATime
  <2> QED
    BY <2>3, <2>5, <2>6 DEF FindingsInv
<1>7. ASSUME NEW v \in Verifiers, F!Commit(v)
      PROVE  FindingsInv'
  <2>1. /\ run[v].at = "probed" /\ UNCHANGED overlap /\ alerted' = alerted \cap F!OpenIn(rows')
        /\ rows' \in [F!Rules -> F!RowsOfOne]
    BY <1>7, CommitWrites DEF F!Commit, FindingsInv
  <2> DEFINE x == [F!NoRun EXCEPT !.at = "committed", !.news = F!News(v)]
  <2>2. F!News(v) \subseteq F!Rules
    BY <1>1 DEF F!News, F!Upserted, Verification
  <2>3. x \in Verification /\ x.at = "committed" /\ x.news = F!News(v)
    BY <2>2, NoRunTyped DEF Verification
  <2>4. \A u \in Verifiers :
          run'[u] = IF u = v THEN x
                    ELSE IF run[u].at \notin {"read", "probed"} \/ (run[u].at = "probed" /\ F!Seen(u) = F!Seen(v)) THEN run[u]
                    ELSE [run[u] EXCEPT !.alone = FALSE]
    BY <1>7 DEF F!Commit
  <2>5. run' = [u \in Verifiers |-> run'[u]]
    BY <1>7 DEF F!Commit
  <2> HIDE DEF x
  <2>6. \A u \in Verifiers : run'[u] \in Verification
    <3>1. ASSUME NEW u \in Verifiers  PROVE [run[u] EXCEPT !.alone = FALSE] \in Verification
      BY <1>1 DEF Verification
    <3> QED
      BY <1>1, <2>3, <2>4, <3>1
  <2>7. run'[v] = x /\ \A u \in Verifiers \ {v} :
          /\ run'[u].at = run[u].at /\ run'[u].view = run[u].view /\ run'[u].news = run[u].news
          /\ run'[u].alone /\ run[u].at \in {"read", "probed"} =>
               run[u].at = "probed" /\ F!Seen(u) = F!Seen(v) /\ run'[u] = run[u]
    BY <1>1, <2>4 DEF Verification
  <2>8. F!TypeOK'
    BY <1>1, <1>2, <2>1, <2>5, <2>6
  <2>9. Undisturbed'
    <3> SUFFICES ASSUME NEW u \in Verifiers, run'[u].alone
                 PROVE  /\ run'[u].at = "read" => run'[u].view = rows'
                        /\ run'[u].at = "probed" => RowsFit(u)'
      BY DEF Undisturbed
    <3>1. CASE u = v
      BY <2>3, <2>7, <3>1
    <3>2. CASE u # v
      <4>1. run'[u].at # "read"
        BY <2>7, <3>2
      <4>2. ASSUME run'[u].at = "probed"  PROVE RowsFit(u)'
        <5>1. F!Seen(u) = F!Seen(v) /\ run'[u] = run[u] /\ run[u].at = "probed"
          BY <2>7, <3>2, <4>2
        <5>2. RowsFit(u)
          BY <5>1 DEF FindingsInv, Undisturbed
        <5> QED
          BY <1>7, <5>1, <5>2, CommitWrites DEF FindingsInv
      <4> QED
        BY <4>1, <4>2
    <3> QED
      BY <3>1, <3>2
  <2>10. OneAtATime'
    <3> SUFFICES ASSUME ~overlap  PROVE OneAtATime'
      BY <2>1 DEF OneAtATime
    <3>1. \A u \in Verifiers \ {v} : run'[u].at = "idle"
      BY <2>1, <2>7 DEF FindingsInv, OneAtATime
    <3>2. run[v].view = rows /\ alerted \subseteq F!OpenIn(rows)
      BY <2>1 DEF FindingsInv, OneAtATime
    <3>3. F!OpenIn(rows') = F!Seen(v)
      BY <1>7, <3>2, SameRowsFit, CommitWrites DEF FindingsInv
    <3>4. F!News(v) \subseteq F!OpenIn(rows') /\ F!News(v) \cap alerted = {}
      BY <3>2, <3>3 DEF F!News, F!Seen
    <3> QED
      BY <2>1, <2>3, <2>7, <3>1, <3>4 DEF OneAtATime
  <2> QED
    BY <2>8, <2>9, <2>10 DEF FindingsInv
<1>8. ASSUME NEW v \in Verifiers, UNCHANGED <<rows, overlap>>, run' = [run EXCEPT ![v] = F!NoRun],
             ~overlap => alerted' \subseteq F!OpenIn(rows), alerted' \subseteq F!Rules, run[v].at # "idle"
      PROVE  FindingsInv'
  <2>1. /\ run' \in [Verifiers -> Verification] /\ run'[v].at = "idle"
        /\ \A u \in Verifiers \ {v} : run'[u] = run[u]
    BY <1>1, <1>8, NoRunTyped
  <2>2. F!TypeOK'
    BY <1>1, <1>2, <1>8, <2>1
  <2>3. Undisturbed'
    BY <1>4, <1>8, <2>1 DEF FindingsInv, Undisturbed
  <2>4. OneAtATime'
    <3>1. ~overlap => \A u \in Verifiers : run'[u].at = "idle"
      BY <1>8, <2>1 DEF FindingsInv, OneAtATime
    <3> QED
      BY <1>8, <3>1 DEF OneAtATime
  <2> QED
    BY <2>2, <2>3, <2>4 DEF FindingsInv
<1>9. ASSUME NEW v \in Verifiers, F!Publish(v)
      PROVE  FindingsInv'
  <2>1. /\ run[v].at = "committed" /\ run' = [run EXCEPT ![v] = F!NoRun] /\ UNCHANGED <<rows, overlap>>
        /\ alerted' = IF overlap THEN {} ELSE alerted \cup run[v].news
    BY <1>9 DEF F!Publish
  <2>2. run[v].news \subseteq F!Rules
    BY <1>1 DEF Verification
  <2> QED
    BY <1>1, <1>8, <2>1, <2>2 DEF FindingsInv, OneAtATime
<1>10. ASSUME NEW v \in Verifiers, F!Dies(v)
       PROVE  FindingsInv'
  BY <1>1, <1>8, <1>10 DEF F!Dies, FindingsInv, OneAtATime
<1> QED
  BY <1>3, <1>5, <1>6, <1>7, <1>9, <1>10 DEF F!Next

(* A step commits what was seen and publishes what is new. *)
LEMMA FindingsSeen ==
  ASSUME ServicesAssumption, FindingsInv, [F!Next]_findings, NEW v \in Verifiers
  PROVE  /\ run[v].at = "probed" /\ run[v].alone /\ run'[v].at = "committed" =>
              F!OpenIn(rows') = F!Seen(v)
         /\ F!Publish(v) /\ ~overlap => run[v].news \cap alerted = {}
<1>1. /\ run \in [Verifiers -> Verification]
  BY DEF FindingsInv, F!TypeOK, Verification
<1>2. ASSUME run[v].at = "probed", run[v].alone, run'[v].at = "committed"
      PROVE  F!OpenIn(rows') = F!Seen(v)
  <2>1. RowsFit(v)
    BY <1>2 DEF FindingsInv, Undisturbed
  <2>2. F!Commit(v) => F!OpenIn(rows') = F!Seen(v)
    BY <2>1, CommitWrites DEF FindingsInv
  <2>3. ~UNCHANGED findings
    BY <1>2 DEF findings
  <2>4. ASSUME NEW u \in Verifiers,
               \/ F!Publish(u) \/ F!Dies(u) \/ \E T \in SUBSET F!Rules : F!Begin(u, T) \/ F!Probe(u, T)
        PROVE  run'[v].at # "committed"
    <3>1. PICK x : run' = [run EXCEPT ![u] = x] /\ x.at \in {"idle", "read", "probed"}
      <4>1. CASE F!Publish(u) \/ F!Dies(u)
        BY <4>1, NoRunTyped DEF F!Publish, F!Dies
      <4>2. ASSUME NEW T \in SUBSET F!Rules, F!Begin(u, T)
            PROVE  \E x : run' = [run EXCEPT ![u] = x] /\ x.at \in {"idle", "read", "probed"}
        <5> DEFINE x == [F!NoRun EXCEPT !.at = "read", !.view = rows, !.saw = T]
        <5>1. x.at = "read" /\ run' = [run EXCEPT ![u] = x]
          BY <4>2 DEF F!Begin, F!NoRun
        <5> HIDE DEF x
        <5> QED
          BY <5>1
      <4>3. ASSUME NEW T \in SUBSET F!Rules, F!Probe(u, T)
            PROVE  \E x : run' = [run EXCEPT ![u] = x] /\ x.at \in {"idle", "read", "probed"}
        <5> DEFINE x == [run[u] EXCEPT !.at = "probed", !.confirmed = T]
        <5>1. x.at = "probed" /\ run' = [run EXCEPT ![u] = x]
          BY <1>1, <4>3 DEF F!Probe, Verification
        <5> HIDE DEF x
        <5> QED
          BY <5>1
      <4> QED
        BY <2>4, <4>1, <4>2, <4>3
    <3> QED
      BY <1>1, <1>2, <3>1
  <2>5. ASSUME NEW u \in Verifiers, F!Commit(u), u # v
        PROVE  run'[v].at # "committed"
    BY <1>1, <1>2, <2>5 DEF F!Commit, Verification
  <2> QED
    BY <1>2, <2>2, <2>3, <2>4, <2>5 DEF F!Next
<1>3. F!Publish(v) /\ ~overlap => run[v].news \cap alerted = {}
  BY DEF F!Publish, FindingsInv, OneAtATime
<1> QED
  BY <1>2, <1>3

(***************************************************************************)
(* What an undisturbed verification leaves open is exactly what it saw,    *)
(* and no alert is repeated while its finding is open, for any rules, rows *)
(* and number of verifications (_upsert_finding,                           *)
(* _converge_missing_findings, _load_open_device_alert_signatures).        *)
(***************************************************************************)
THEOREM FindingsWereSeen ==
  ASSUME ServicesAssumption
  PROVE  /\ F!Spec => FindingsAreSeen
         /\ ServicesSpec => FindingsAreSeen
<1>1. F!Init => FindingsInv
  BY FindingsInit
<1>2. FindingsInv /\ [F!Next]_findings => FindingsInv'
  BY FindingsStep
<1>3. FindingsInv /\ [F!Next]_findings =>
        [\A v \in Verifiers :
           run[v].at = "probed" /\ run[v].alone /\ run'[v].at = "committed" =>
             F!OpenIn(rows') = F!Seen(v)]_findings
  BY FindingsSeen
<1>4. FindingsInv /\ [F!Next]_findings =>
        [\A v \in Verifiers : F!Publish(v) /\ ~overlap => run[v].news \cap alerted = {}]_findings
  BY FindingsSeen
<1>5. F!Spec => FindingsAreSeen
  BY <1>1, <1>2, <1>3, <1>4, PTL
     DEF F!Spec, F!vars, findings, FindingsAreSeen, F!OpenIsWhatWasSeen, F!AlertsAreNews
<1> QED
  BY <1>5, EachServiceRuns, PTL

Stale(x) == x \notin {G!None, G!Empty, version}

SomethingUnsaid == \E q \in Processes : unsaid[q] > 0

(***************************************************************************)
(* A process with something old, in its copy or in the load under way, has *)
(* a message to handle, missed one, or there is one still to be sent.      *)
(***************************************************************************)
StaleIsAnnounced ==
  \A p \in Processes :
    /\ Stale(load[p]) => inbox[p] > 0 \/ missed[p] \/ SomethingUnsaid
    /\ Stale(cache[p]) /\ load[p] = G!None =>
         inbox[p] > 0 \/ missed[p] \/ SomethingUnsaid

(* The counters of messages are natural numbers; their bound is below. *)
Counters ==
  /\ version \in G!Versions
  /\ cache \in [Processes -> G!Versions \cup {G!None, G!Empty}]
  /\ load \in [Processes -> G!Versions \cup {G!None, G!Empty}]
  /\ unsaid \in [Processes -> Nat]
  /\ inbox \in [Processes -> Nat]
  /\ link \in [Processes -> BOOLEAN]
  /\ missed \in [Processes -> BOOLEAN]

ChannelsInv == Counters /\ StaleIsAnnounced

LEMMA ChannelsInit ==
  ASSUME G!GatewayConfigAssumption, G!Init
  PROVE  ChannelsInv
BY DEF G!GatewayConfigAssumption, G!Init, ChannelsInv, Counters, StaleIsAnnounced, Stale, G!Versions

(* Every step keeps the types. *)
LEMMA CountersStep ==
  ASSUME G!GatewayConfigAssumption, Counters, [G!Next]_gateway
  PROVE  Counters'
<1> USE DEF Counters
<1>1. ASSUME NEW p \in Processes, G!Load(p)  PROVE Counters'
  BY <1>1 DEF G!Load, G!FromDatabase
<1>2. ASSUME NEW p \in Processes, G!Loaded(p)  PROVE Counters'
  BY <1>2 DEF G!Loaded
<1>3. ASSUME NEW p \in Processes, G!Commit(p)  PROVE Counters'
  BY <1>3, G!GatewayConfigAssumption DEF G!Commit, G!Versions, G!GatewayConfigAssumption, G!None, G!Empty
<1>4. ASSUME NEW p \in Processes, G!Publish(p)  PROVE Counters'
  BY <1>4 DEF G!Publish
<1>5. ASSUME NEW p \in Processes, G!Handle(p)  PROVE Counters'
  BY <1>5 DEF G!Handle, G!FromDatabase
<1>6. ASSUME NEW p \in Processes, G!Disconnect(p)  PROVE Counters'
  BY <1>6 DEF G!Disconnect
<1>7. ASSUME NEW p \in Processes, G!Subscribe(p)  PROVE Counters'
  BY <1>7 DEF G!Subscribe
<1>8. ASSUME NEW p \in Processes, G!Restart(p)  PROVE Counters'
  BY <1>8 DEF G!Restart
<1>9. CASE UNCHANGED gateway
  BY <1>9 DEF gateway
<1> QED
  BY <1>1, <1>2, <1>3, <1>4, <1>5, <1>6, <1>7, <1>8, <1>9 DEF G!Next

(***************************************************************************)
(* The lock covers the query and the store of a load, so a message is      *)
(* handled after the older rows are in place, never before.                *)
(***************************************************************************)
LEMMA AnnouncedStep ==
  ASSUME G!GatewayConfigAssumption, ChannelsInv, [G!Next]_gateway
  PROVE  StaleIsAnnounced'
<1> USE DEF ChannelsInv, Counters
<1>1. ASSUME NEW p \in Processes, G!Load(p)  PROVE StaleIsAnnounced'
  <2>1. load'[p] \in {version', G!Empty} /\ load'[p] # G!None
    BY <1>1 DEF G!Load, G!FromDatabase, G!Versions, G!None, G!Empty, G!GatewayConfigAssumption
  <2>2. \A q \in Processes \ {p} : load'[q] = load[q] /\ missed'[q] = missed[q]
    BY <1>1 DEF G!Load
  <2>3. UNCHANGED <<version, cache, unsaid, inbox>>
    BY <1>1 DEF G!Load
  <2> QED
    BY <2>1, <2>2, <2>3 DEF StaleIsAnnounced, Stale, SomethingUnsaid
<1>2. ASSUME NEW p \in Processes, G!Loaded(p)  PROVE StaleIsAnnounced'
  BY <1>2 DEF G!Loaded, StaleIsAnnounced, Stale, SomethingUnsaid
<1>3. ASSUME NEW p \in Processes, G!Commit(p)  PROVE StaleIsAnnounced'
  <2>1. unsaid'[p] > 0
    BY <1>3 DEF G!Commit
  <2> QED
    BY <2>1 DEF StaleIsAnnounced, SomethingUnsaid
<1>4. ASSUME NEW p \in Processes, G!Publish(p)  PROVE StaleIsAnnounced'
  <2>1. \A q \in Processes : q # p => inbox'[q] > 0 \/ missed'[q]
    <3>1. PICK reached \in SUBSET Processes :
            /\ inbox' = [q \in Processes |-> inbox[q] + (IF q \in reached THEN 1 ELSE 0)]
            /\ missed' = [q \in Processes |-> missed[q] \/ q \notin reached \cup {p}]
      BY <1>4 DEF G!Publish
    <3>2. ASSUME NEW q \in Processes, q \in reached  PROVE inbox'[q] > 0
      BY <3>1, <3>2
    <3>3. ASSUME NEW q \in Processes, q # p, q \notin reached  PROVE missed'[q]
      <4>1. missed'[q] = (missed[q] \/ q \notin reached \cup {p})
        BY <3>1, Zenon
      <4> QED
        BY <3>3, <4>1
    <3> QED
      BY <3>2, <3>3
  <2>2. cache'[p] = G!None /\ load'[p] = G!None
    BY <1>4 DEF G!Publish, G!LockFree
  <2> QED
    BY <2>1, <2>2 DEF StaleIsAnnounced, Stale
<1>5. ASSUME NEW p \in Processes, G!Handle(p)  PROVE StaleIsAnnounced'
  <2>1. cache'[p] = G!None /\ load'[p] \in {version', G!Empty}
    BY <1>5 DEF G!Handle, G!FromDatabase
  <2>2. \A q \in Processes \ {p} :
          /\ cache'[q] = cache[q] /\ load'[q] = load[q]
          /\ inbox'[q] = inbox[q] /\ missed'[q] = missed[q]
    BY <1>5 DEF G!Handle
  <2>3. unsaid' = unsaid /\ version' = version
    BY <1>5 DEF G!Handle
  <2> QED
    BY <2>1, <2>2, <2>3 DEF StaleIsAnnounced, Stale, SomethingUnsaid
<1>6. ASSUME NEW p \in Processes, G!Disconnect(p)  PROVE StaleIsAnnounced'
  BY <1>6 DEF G!Disconnect, StaleIsAnnounced, Stale, SomethingUnsaid
<1>7. ASSUME NEW p \in Processes, G!Subscribe(p)  PROVE StaleIsAnnounced'
  BY <1>7 DEF G!Subscribe, StaleIsAnnounced, Stale, SomethingUnsaid
<1>8. ASSUME NEW p \in Processes, G!Restart(p)  PROVE StaleIsAnnounced'
  <2>1. cache'[p] = G!None /\ load'[p] = G!None
    BY <1>8 DEF G!Restart
  <2>2. \A q \in Processes \ {p} :
          /\ cache'[q] = cache[q] /\ load'[q] = load[q] /\ inbox'[q] = inbox[q]
          /\ unsaid'[q] = unsaid[q]
          /\ missed'[q] = (missed[q] \/ unsaid[p] > 0)
    BY <1>8 DEF G!Restart
  <2>3. version' = version
    BY <1>8 DEF G!Restart
  <2> QED
    BY <2>1, <2>2, <2>3 DEF StaleIsAnnounced, Stale, SomethingUnsaid
<1>9. CASE UNCHANGED gateway
  BY <1>9 DEF gateway, StaleIsAnnounced, Stale, SomethingUnsaid
<1> QED
  BY <1>1, <1>2, <1>3, <1>4, <1>5, <1>6, <1>7, <1>8, <1>9 DEF G!Next

(***************************************************************************)
(* A process that was reached by every message and has handled them has no *)
(* copy, the current one or the empty list of a load that failed, never an *)
(* earlier version (read_gateway_channels, _load_channels_from_db,         *)
(* publish_gateway_config_updated, _config_subscriber_loop), for any       *)
(* number of processes.                                                    *)
(***************************************************************************)
THEOREM CacheIsCurrent ==
  ASSUME ServicesAssumption
  PROVE  /\ G!Spec => []G!CacheFollowsDatabase
         /\ ServicesSpec => []CacheFollowsDatabase
<1>1. G!Init => ChannelsInv
  BY ChannelsInit DEF ServicesAssumption
<1>2. ChannelsInv /\ [G!Next]_gateway => (ChannelsInv)'
  BY CountersStep, AnnouncedStep DEF ServicesAssumption, ChannelsInv
<1>3. ChannelsInv => G!CacheFollowsDatabase
  BY DEF ChannelsInv, Counters, StaleIsAnnounced, G!CacheFollowsDatabase, G!Told, Stale, SomethingUnsaid
<1>4. G!Spec => []G!CacheFollowsDatabase
  BY <1>1, <1>2, <1>3, PTL DEF G!Spec, G!vars, gateway
<1>5. G!CacheFollowsDatabase => CacheFollowsDatabase
  BY DEF CacheFollowsDatabase
<1> QED
  BY <1>4, <1>5, EachServiceRuns, PTL

(***************************************************************************)
(* A summary that lists hosts with a scan_scope and without the port comes *)
(* from a scan that found the port closed, wherever the summary is by now: *)
(* in a job, or read by a stage of a task.                                 *)
(***************************************************************************)
FromScan(s) == s.scope /\ ~s.open => scanned

ScopesFromScan ==
  /\ \A j \in S!Jobs : FromScan(job[j].summary)
  /\ \A t \in S!Tasks : FromScan(task[t].view)

ScansInv == S!TypeOK /\ ScopesFromScan /\ S!ClosedOnlyByScan

-----------------------------------------------------------------------------
LEMMA ScanRecords ==
  ASSUME S!LocalScanAssumption
  PROVE  /\ S!NoHosts \in S!Summary /\ ~S!NoHosts.scope
         /\ \A h \in S!Hosts : [S!NoHosts EXCEPT !.hosts = h] \in S!Summary
         /\ \A h \in S!Hosts : ~[S!NoHosts EXCEPT !.hosts = h].scope
         /\ S!NoTask \in S!Task /\ S!NoTask.view = S!NoHosts
         /\ 1 \in S!Jobs /\ 0 \in 0..MaxRetries
<1>1. 1 \in S!Jobs /\ 0 \in 0..MaxRetries
  BY DEF S!LocalScanAssumption, S!Jobs
<1>2. S!NoHosts \in S!Summary /\ ~S!NoHosts.scope
  BY DEF S!NoHosts, S!Summary, S!Hosts
<1>3. ASSUME NEW h \in S!Hosts
      PROVE  [S!NoHosts EXCEPT !.hosts = h] \in S!Summary /\ ~[S!NoHosts EXCEPT !.hosts = h].scope
  BY DEF S!NoHosts, S!Summary, S!Hosts
<1>4. S!NoTask \in S!Task /\ S!NoTask.view = S!NoHosts
  BY <1>1, <1>2 DEF S!NoTask, S!Task, S!TaskStatus, S!ScanStep, S!DeepStep
<1> QED
  BY <1>1, <1>2, <1>3, <1>4

LEMMA NewTaskTyped ==
  ASSUME S!LocalScanAssumption, NEW j \in S!Jobs, NEW deep \in BOOLEAN, NEW n \in 0..MaxRetries
  PROVE  /\ S!NewTask(j, deep) \in S!Task /\ S!NewTask(j, deep).view = S!NoHosts
         /\ [S!NewTask(j, deep) EXCEPT !.retries = n] \in S!Task
         /\ [S!NewTask(j, deep) EXCEPT !.retries = n].view = S!NoHosts
BY ScanRecords DEF S!NewTask, S!Task, S!TaskStatus, S!ScanStep, S!DeepStep

LEMMA ScansInit ==
  ASSUME S!LocalScanAssumption, S!Init
  PROVE  ScansInv
BY ScanRecords
DEF S!Init, ScansInv, S!TypeOK, ScopesFromScan, FromScan, S!ClosedOnlyByScan, S!Job, S!JobStatus, S!RequestStep

-----------------------------------------------------------------------------
(* What the parts of a stage do to the task, to the job and to the port. *)

ScanSteps == S!ScanStep \cup S!DeepStep \cup {"end"}

LEMMA StageGoesTyped ==
  ASSUME S!LocalScanAssumption, S!TypeOK, NEW t \in S!Tasks, NEW step \in ScanSteps, S!Goes(t, step)
  PROVE  /\ task' \in [S!Tasks -> S!Task]
         /\ \A u \in S!Tasks : task'[u].view = task[u].view \/ task'[u].view = S!NoHosts
BY ScanRecords DEF S!TypeOK, S!Goes, S!Task, ScanSteps

LEMMA ReadsTyped ==
  ASSUME S!LocalScanAssumption, S!TypeOK, NEW t \in S!Tasks, NEW step \in ScanSteps, S!Reads(t, step)
  PROVE  /\ task' \in [S!Tasks -> S!Task]
         /\ \A u \in S!Tasks : \/ task'[u].view = task[u].view
                             \/ \E j \in S!Jobs : task'[u].view = job[j].summary
BY ScanRecords DEF S!TypeOK, S!Reads, S!Task, S!Job, ScanSteps

LEMMA SaveTyped ==
  ASSUME S!TypeOK, NEW i \in S!Jobs, NEW s \in S!Summary, S!SaveSummary(i, s)
  PROVE  /\ job' \in [S!Jobs -> S!Job]
         /\ \A j \in S!Jobs : job'[j].summary = job[j].summary \/ job'[j].summary = s
BY DEF S!TypeOK, S!SaveSummary, S!Job

LEMMA PortTyped ==
  ASSUME S!TypeOK, NEW s \in S!Summary
  PROVE  /\ S!UpsertPort(s) \in {"none", "open", "closed"}
         /\ S!UpsertPort(s) = "closed" => port = "closed" \/ (s.scope /\ ~s.open)
BY DEF S!TypeOK, S!UpsertPort, S!Summary

LEMMA StatusTyped ==
  ASSUME S!TypeOK, NEW i \in S!Jobs, NEW x \in S!JobStatus, job' = [job EXCEPT ![i].status = x]
  PROVE  /\ job' \in [S!Jobs -> S!Job]
         /\ \A j \in S!Jobs : job'[j].summary = job[j].summary
BY DEF S!TypeOK, S!Job

LEMMA RequestTyped ==
  ASSUME S!TypeOK, NEW r \in Requests, NEW step \in S!RequestStep, NEW j \in S!Jobs,
         S!RequestGoes(r, step, j)
  PROVE  request' \in [Requests -> [at : S!RequestStep, job : S!Jobs]]
BY DEF S!TypeOK, S!RequestGoes

(* A step that copies summaries and keeps the port keeps the invariant. *)
LEMMA Copies ==
  ASSUME ScansInv,
         job' \in [S!Jobs -> S!Job], task' \in [S!Tasks -> S!Task],
         request' \in [Requests -> [at : S!RequestStep, job : S!Jobs]],
         UNCHANGED <<port, scanned>>,
         \A j \in S!Jobs : \/ job'[j].summary = job[j].summary
                         \/ ~job'[j].summary.scope
                         \/ \E u \in S!Tasks : job'[j].summary = task[u].view,
         \A u \in S!Tasks : \/ task'[u].view = task[u].view
                          \/ task'[u].view = S!NoHosts
                          \/ \E j \in S!Jobs : task'[u].view = job[j].summary
  PROVE  ScansInv'
<1>1. S!TypeOK'
  BY DEF ScansInv, S!TypeOK
<1>2. ASSUME NEW j \in S!Jobs  PROVE FromScan(job[j].summary)'
  BY DEF ScansInv, ScopesFromScan, FromScan
<1>3. ASSUME NEW u \in S!Tasks  PROVE FromScan(task[u].view)'
  BY DEF ScansInv, ScopesFromScan, FromScan, S!NoHosts
<1> QED
  BY <1>1, <1>2, <1>3 DEF ScansInv, ScopesFromScan, S!ClosedOnlyByScan

(* What the requests do. *)
LEMMA RequestStepIInv ==
  ASSUME S!LocalScanAssumption, ScansInv, NEW r \in Requests,
         S!Look(r) \/ S!Create(r) \/ S!LookTask(r) \/ S!Publish(r) \/ S!RequestDies(r)
  PROVE  ScansInv'
<1> USE DEF ScansInv
<1>1. request[r].job \in S!Jobs
  BY DEF S!TypeOK
<1>2. CASE S!Look(r)
  <2>1. request' \in [Requests -> [at : S!RequestStep, job : S!Jobs]]
    BY <1>1, <1>2, RequestTyped DEF S!Look, S!ActiveJobs, S!RequestStep
  <2> QED
    BY <1>2, <2>1, Copies DEF S!Look, S!TypeOK
<1>3. CASE S!Create(r)
  <2>1. request' \in [Requests -> [at : S!RequestStep, job : S!Jobs]]
    BY <1>3, RequestTyped DEF S!Create, S!ActiveJobs, S!RequestStep
  <2>2. /\ job' \in [S!Jobs -> S!Job]
        /\ \A j \in S!Jobs : job'[j].summary = job[j].summary
    BY <1>3, StatusTyped DEF S!Create, S!JobStatus, S!TypeOK
  <2> QED
    BY <1>3, <2>1, <2>2, Copies DEF S!Create, S!TypeOK
<1>4. CASE S!LookTask(r)
  <2>1. request' \in [Requests -> [at : S!RequestStep, job : S!Jobs]]
    BY <1>1, <1>4, RequestTyped DEF S!LookTask, S!RequestStep
  <2> QED
    BY <1>4, <2>1, Copies DEF S!LookTask, S!TypeOK
<1>5. CASE S!Publish(r)
  <2>1. request' \in [Requests -> [at : S!RequestStep, job : S!Jobs]]
    BY <1>1, <1>5, RequestTyped DEF S!Publish, S!RequestStep
  <2>2. S!NewTask(request[r].job, FALSE) \in S!Task /\ S!NewTask(request[r].job, FALSE).view = S!NoHosts
    BY <1>1, NewTaskTyped, ScanRecords
  <2>3. /\ task' \in [S!Tasks -> S!Task]
        /\ \A u \in S!Tasks : task'[u].view = task[u].view \/ task'[u].view = S!NoHosts
    BY <1>5, <2>2 DEF S!Publish, S!TypeOK
  <2> QED
    BY <1>5, <2>1, <2>3, Copies DEF S!Publish, S!TypeOK
<1>6. CASE S!RequestDies(r)
  <2>1. request' \in [Requests -> [at : S!RequestStep, job : S!Jobs]]
    BY <1>1, <1>6, RequestTyped DEF S!RequestDies, S!RequestStep
  <2> QED
    BY <1>6, <2>1, Copies DEF S!RequestDies, S!TypeOK
<1> QED
  BY <1>2, <1>3, <1>4, <1>5, <1>6

(* The stages that copy summaries and leave the port alone. *)
LEMMA CopyStepIInv ==
  ASSUME S!LocalScanAssumption, ScansInv, NEW t \in S!Tasks,
         \/ S!Discover(t) \/ S!Search(t) \/ S!Upsert(t) \/ S!Queue(t) \/ S!Ports(t)
         \/ S!Services(t) \/ S!Verify(t) \/ S!Finalize(t) \/ S!Succeed(t) \/ S!Retry(t) \/ S!End(t)
  PROVE  ScansInv'
<1> USE DEF ScansInv
<1>1. task[t].job \in S!Jobs /\ task[t].deep \in BOOLEAN /\ task[t].retries \in 0..MaxRetries
  BY DEF S!TypeOK, S!Task
<1>2. CASE S!Discover(t)
  BY <1>1, <1>2, StageGoesTyped, StatusTyped, Copies
  DEF S!Discover, ScanSteps, S!ScanStep, S!JobStatus, S!TypeOK
<1>3. CASE S!Search(t)
  <2>1. PICK h \in {"none", "found"} : S!SaveSummary(task[t].job, [S!NoHosts EXCEPT !.hosts = h])
    BY <1>3 DEF S!Search
  <2>2. /\ [S!NoHosts EXCEPT !.hosts = h] \in S!Summary
        /\ ~[S!NoHosts EXCEPT !.hosts = h].scope
    BY ScanRecords DEF S!Hosts
  <2>3. /\ job' \in [S!Jobs -> S!Job]
        /\ \A j \in S!Jobs : job'[j].summary = job[j].summary \/ ~job'[j].summary.scope
    BY <1>1, <2>1, <2>2, SaveTyped
  <2>4. /\ task' \in [S!Tasks -> S!Task]
        /\ \A u \in S!Tasks : task'[u].view = task[u].view \/ task'[u].view = S!NoHosts
    BY <1>3, StageGoesTyped DEF S!Search, ScanSteps, S!ScanStep
  <2> QED
    BY <1>3, <2>3, <2>4, Copies DEF S!Search, S!TypeOK
<1>4. CASE S!Upsert(t)
  BY <1>4, ReadsTyped, Copies DEF S!Upsert, ScanSteps, S!ScanStep, S!TypeOK
<1>5. CASE S!Queue(t)
  <2>1. /\ S!NewTask(task[t].job, TRUE) \in S!Task
        /\ S!NewTask(task[t].job, TRUE).view = S!NoHosts
    BY <1>1, NewTaskTyped, ScanRecords
  <2>2. /\ task' \in [S!Tasks -> S!Task]
        /\ \A u \in S!Tasks : task'[u].view = task[u].view \/ task'[u].view = S!NoHosts
    BY <1>5, <2>1 DEF S!Queue, S!TypeOK, S!Task
  <2> QED
    BY <1>5, <2>2, Copies DEF S!Queue, S!TypeOK
<1>6. CASE S!Ports(t)
  BY <1>6, ReadsTyped, Copies DEF S!Ports, ScanSteps, S!DeepStep, S!TypeOK
<1>7. CASE S!Services(t)
  BY <1>7, ReadsTyped, Copies DEF S!Services, ScanSteps, S!DeepStep, S!TypeOK
<1>8. CASE S!Verify(t)
  BY <1>8, StageGoesTyped, Copies DEF S!Verify, ScanSteps, S!DeepStep, S!TypeOK
<1>9. CASE S!Finalize(t)
  BY <1>1, <1>9, StageGoesTyped, StatusTyped, Copies DEF S!Finalize, ScanSteps, S!JobStatus, S!TypeOK
<1>10. ASSUME NEW x \in S!TaskStatus,
              task' = [task EXCEPT ![t] = [S!NoTask EXCEPT !.status = x, !.job = task[t].job,
                                                         !.deep = task[t].deep]]
       PROVE  /\ task' \in [S!Tasks -> S!Task]
              /\ \A u \in S!Tasks : task'[u].view = task[u].view \/ task'[u].view = S!NoHosts
  BY <1>1, <1>10, ScanRecords DEF S!TypeOK, S!Task
<1>11. CASE S!Succeed(t)
  BY <1>10, <1>11, Copies DEF S!Succeed, S!TaskStatus, S!TypeOK
<1>12. CASE S!End(t)
  BY <1>10, <1>12, Copies DEF S!End, S!TaskStatus, S!TypeOK
<1>13. CASE S!Retry(t)
  <2>1. task[t].retries + 1 \in 0..MaxRetries
    BY <1>1, <1>13 DEF S!Retry, S!MayRetry, S!LocalScanAssumption
  <2>2. /\ task' \in [S!Tasks -> S!Task]
        /\ \A u \in S!Tasks : task'[u].view = task[u].view \/ task'[u].view = S!NoHosts
    BY <1>1, <1>13, <2>1, NewTaskTyped DEF S!Retry, S!TypeOK
  <2> QED
    BY <1>13, <2>2, Copies DEF S!Retry, S!TypeOK
<1> QED
  BY <1>2, <1>3, <1>4, <1>5, <1>6, <1>7, <1>8, <1>9, <1>11, <1>12, <1>13

(***************************************************************************)
(* The stages that write the port: upsert_assets and probe_open_services   *)
(* write what they read, whose scopes come from a scan; full_port_scan     *)
(* writes what it has just seen.                                           *)
(***************************************************************************)
LEMMA PortStepIInv ==
  ASSUME S!LocalScanAssumption, ScansInv, NEW t \in S!Tasks,
         S!Store(t) \/ S!Probe(t) \/ S!Scan(t)
  PROVE  ScansInv'
<1> USE DEF ScansInv
<1> DEFINE s == task[t].view
<1>1. s \in S!Summary /\ task[t].job \in S!Jobs /\ FromScan(s)
  BY DEF S!TypeOK, S!Task, ScopesFromScan
<1>2. S!UpsertPort(s) \in {"none", "open", "closed"} /\ (S!UpsertPort(s) = "closed" => scanned)
  BY <1>1, PortTyped DEF FromScan, S!ClosedOnlyByScan
<1>3. CASE S!Store(t)
  <2>1. /\ job' \in [S!Jobs -> S!Job]
        /\ \A j \in S!Jobs : job'[j].summary = job[j].summary \/ job'[j].summary = s
    BY <1>1, <1>3, SaveTyped DEF S!Store, S!SaveSummary, S!TypeOK
  <2>2. /\ task' \in [S!Tasks -> S!Task]
        /\ \A u \in S!Tasks : task'[u].view = task[u].view \/ task'[u].view = S!NoHosts
    BY <1>3, StageGoesTyped DEF S!Store, ScanSteps, S!ScanStep
  <2>3. S!TypeOK' /\ scanned' = scanned /\ port' = S!UpsertPort(s)
    BY <1>2, <1>3, <2>1, <2>2 DEF S!Store, S!TypeOK
  <2>4. ScopesFromScan'
    BY <1>1, <2>1, <2>2, <2>3 DEF ScopesFromScan, FromScan, S!NoHosts
  <2> QED
    BY <1>2, <2>3, <2>4 DEF S!ClosedOnlyByScan
<1>4. CASE S!Probe(t)
  <2>1. PICK x \in S!Summary : S!SaveSummary(task[t].job, x) /\ x.scope = s.scope /\ x.open = s.open
    BY <1>1, <1>4 DEF S!Probe, S!Summary, S!Hosts
  <2>2. /\ job' \in [S!Jobs -> S!Job]
        /\ \A j \in S!Jobs : job'[j].summary = job[j].summary \/ job'[j].summary = x
    BY <1>1, <2>1, SaveTyped
  <2>3. /\ task' \in [S!Tasks -> S!Task]
        /\ \A u \in S!Tasks : task'[u].view = task[u].view \/ task'[u].view = S!NoHosts
    BY <1>4, StageGoesTyped DEF S!Probe, ScanSteps, S!DeepStep
  <2>4. scanned' = scanned /\ (port' = port \/ port' = S!UpsertPort(s))
    BY <1>4 DEF S!Probe
  <2>5. S!TypeOK'
    BY <1>2, <1>4, <2>2, <2>3, <2>4 DEF S!Probe, S!TypeOK
  <2>6. ScopesFromScan'
    BY <1>1, <2>1, <2>2, <2>3, <2>4 DEF ScopesFromScan, FromScan, S!NoHosts
  <2> QED
    BY <1>2, <2>4, <2>5, <2>6 DEF S!ClosedOnlyByScan
<1>5. CASE S!Scan(t)
  <2>1. /\ task' \in [S!Tasks -> S!Task]
        /\ \A u \in S!Tasks : task'[u].view = task[u].view \/ task'[u].view = S!NoHosts
    BY <1>5, StageGoesTyped DEF S!Scan, ScanSteps, S!DeepStep
  <2>2. CASE s.hosts = "none"
    <3>1. S!SaveSummary(task[t].job, s) /\ UNCHANGED <<port, scanned, request>>
      BY <1>5, <2>2 DEF S!Scan
    <3>2. /\ job' \in [S!Jobs -> S!Job]
          /\ \A j \in S!Jobs : job'[j].summary = job[j].summary \/ job'[j].summary = s
      BY <1>1, <3>1, SaveTyped
    <3> QED
      BY <2>1, <3>1, <3>2, Copies DEF S!TypeOK
  <2>3. CASE s.hosts # "none"
    <3> DEFINE seen(open) == [hosts |-> "scanned", open |-> open, scope |-> TRUE]
    <3>1. PICK open \in BOOLEAN :
            /\ S!SaveSummary(task[t].job, seen(open))
            /\ port' = S!UpsertPort(seen(open))
            /\ scanned' = (scanned \/ ~open)
      BY <1>5, <2>3 DEF S!Scan
    <3>2. seen(open) \in S!Summary /\ seen(open).open = open
      BY DEF S!Summary, S!Hosts
    <3>3. /\ job' \in [S!Jobs -> S!Job]
          /\ \A j \in S!Jobs : job'[j].summary = job[j].summary \/ job'[j].summary = seen(open)
      BY <1>1, <3>1, <3>2, SaveTyped
    <3>4. (scanned => scanned') /\ (~open => scanned') /\ scanned' \in BOOLEAN
      BY <3>1
    <3>5. /\ S!UpsertPort(seen(open)) \in {"none", "open", "closed"}
          /\ S!UpsertPort(seen(open)) = "closed" => port = "closed" \/ ~open
      BY <3>2, PortTyped
    <3>6. S!TypeOK'
      BY <1>5, <2>1, <3>1, <3>3, <3>4, <3>5 DEF S!Scan, S!TypeOK
    <3>7. ScopesFromScan'
      BY <2>1, <3>2, <3>3, <3>4 DEF ScopesFromScan, FromScan, S!NoHosts
    <3>8. S!ClosedOnlyByScan'
      BY <3>1, <3>4, <3>5 DEF S!ClosedOnlyByScan
    <3> QED
      BY <3>6, <3>7, <3>8
  <2> QED
    BY <2>2, <2>3
<1> QED
  BY <1>3, <1>4, <1>5

LEMMA ScansStep ==
  ASSUME S!LocalScanAssumption, ScansInv, [S!Next]_scan
  PROVE  ScansInv'
<1>1. CASE UNCHANGED scan
  BY <1>1 DEF scan, ScansInv, S!TypeOK, ScopesFromScan, FromScan, S!ClosedOnlyByScan
<1> QED
  BY <1>1, RequestStepIInv, CopyStepIInv, PortStepIInv DEF S!Next

-----------------------------------------------------------------------------
(***************************************************************************)
(* Work that is still ahead of a job: who may yet complete it, who may yet *)
(* probe its hosts.  A task that ended without success stands for both.    *)
(***************************************************************************)
MayComplete(t) ==
  \/ task[t].status = "ended"
  \/ task[t].status = "active" /\ task[t].at # "end"

MayProbe(t) ==
  \/ task[t].status = "ended"
  \/ task[t].status = "active" /\ task[t].at \in S!ScanStep \cup {"ports", "scan", "services", "probe"}

Probed == {"probed", "none"}

WorkIsAhead ==
  /\ \A r \in Requests : request[r].at \in {"task", "publish"} => job[request[r].job].status # "absent"
  /\ \A t \in S!Tasks : task[t].status # "absent" => job[task[t].job].status # "absent"
  /\ \A j \in S!Jobs :
       S!TasksOf(j) # {} =>
         /\ job[j].status = "completed" \/ \E t \in S!TasksOf(j) : MayComplete(t)
         /\ job[j].summary.hosts \in Probed \/ \E t \in S!TasksOf(j) : MayProbe(t)

(* A step of one task on its own job. *)
LEMMA OneTaskAhead ==
  ASSUME ScansInv, ScansInv', WorkIsAhead, NEW t \in S!Tasks, task[t].status = "active",
         \A u \in S!Tasks \ {t} : task'[u] = task[u],
         task'[t].job = task[t].job, task'[t].status # "absent",
         \A i \in S!Jobs \ {task[t].job} : job'[i] = job[i],
         job'[task[t].job].status # "absent", UNCHANGED request,
         \/ MayComplete(t)'
         \/ job'[task[t].job].status = "completed"
         \/ job'[task[t].job].status = job[task[t].job].status /\ ~MayComplete(t),
         \/ MayProbe(t)'
         \/ job'[task[t].job].summary.hosts \in Probed
         \/ job'[task[t].job].summary = job[task[t].job].summary /\ ~MayProbe(t)
  PROVE  WorkIsAhead'
<1> DEFINE j == task[t].job
<1>1. j \in S!Jobs /\ job[j].status # "absent"
  BY DEF ScansInv, S!TypeOK, S!Task, WorkIsAhead
<1>2. \A i \in S!Jobs : S!TasksOf(i)' = S!TasksOf(i)
  BY DEF S!TasksOf
<1>3. ASSUME NEW r \in Requests, request'[r].at \in {"task", "publish"}
      PROVE  job'[request'[r].job].status # "absent"
  <2>1. request[r].job \in S!Jobs
    BY DEF ScansInv, S!TypeOK
  <2> QED
    BY <1>3, <2>1 DEF WorkIsAhead
<1>4. ASSUME NEW u \in S!Tasks, task'[u].status # "absent"
      PROVE  job'[task'[u].job].status # "absent"
  <2>1. task[u].job \in S!Jobs
    BY DEF ScansInv, S!TypeOK, S!Task
  <2> QED
    BY <1>4, <2>1 DEF WorkIsAhead
<1>5. ASSUME NEW i \in S!Jobs, S!TasksOf(i) # {}
      PROVE  job'[i].status = "completed" \/ \E u \in S!TasksOf(i) : MayComplete(u)'
  <2>1. job[i].status = "completed" \/ \E u \in S!TasksOf(i) : MayComplete(u)
    BY <1>5 DEF WorkIsAhead
  <2>2. t \in S!TasksOf(j)
    BY DEF S!TasksOf
  <2>3. \A u \in S!Tasks \ {t} : MayComplete(u)' = MayComplete(u)
    BY DEF MayComplete
  <2>4. S!TasksOf(i) \subseteq S!Tasks /\ (i # j => t \notin S!TasksOf(i))
    BY DEF S!TasksOf
  <2>5. CASE i = j
    BY <2>1, <2>2, <2>3, <2>4, <2>5
  <2>6. CASE i # j
    BY <2>1, <2>3, <2>4, <2>6
  <2> QED
    BY <2>5, <2>6
<1>6. ASSUME NEW i \in S!Jobs, S!TasksOf(i) # {}
      PROVE  job'[i].summary.hosts \in Probed \/ \E u \in S!TasksOf(i) : MayProbe(u)'
  <2>1. job[i].summary.hosts \in Probed \/ \E u \in S!TasksOf(i) : MayProbe(u)
    BY <1>6 DEF WorkIsAhead
  <2>2. t \in S!TasksOf(j)
    BY DEF S!TasksOf
  <2>3. \A u \in S!Tasks \ {t} : MayProbe(u)' = MayProbe(u)
    BY DEF MayProbe
  <2>4. S!TasksOf(i) \subseteq S!Tasks /\ (i # j => t \notin S!TasksOf(i))
    BY DEF S!TasksOf
  <2>5. CASE i = j
    BY <2>1, <2>2, <2>3, <2>4, <2>5
  <2>6. CASE i # j
    BY <2>1, <2>3, <2>4, <2>6
  <2> QED
    BY <2>5, <2>6
<1> QED
  BY <1>2, <1>3, <1>4, <1>5, <1>6 DEF WorkIsAhead

(* A new task has everything ahead of it. *)
LEMMA NewTaskAhead ==
  ASSUME S!LocalScanAssumption, ScansInv, ScansInv', WorkIsAhead, UNCHANGED job,
         NEW u \in S!FreeTasks, NEW i \in S!Jobs, job[i].status # "absent",
         MayComplete(u)', MayProbe(u)', task'[u].status = "active", task'[u].job = i,
         \A x \in S!Tasks \ {u} :
           \/ task'[x] = task[x]
           \/ task'[x].status # "absent" /\ task[x].status # "absent"
              /\ task[x].job = i /\ task'[x].job = i,
         \A r \in Requests : request'[r] = request[r] \/ request'[r].at \notin {"task", "publish"}
  PROVE  WorkIsAhead'
<1>1. u \in S!Tasks /\ u \in S!TasksOf(i)'
  BY DEF S!FreeTasks, S!TasksOf
<1>2. ASSUME NEW x \in S!Tasks, task'[x].status # "absent"
      PROVE  job'[task'[x].job].status # "absent"
  BY <1>1, <1>2 DEF WorkIsAhead
<1>3. ASSUME NEW r \in Requests, request'[r].at \in {"task", "publish"}
      PROVE  job'[request'[r].job].status # "absent"
  BY <1>3 DEF WorkIsAhead
<1>4. ASSUME NEW k \in S!Jobs, S!TasksOf(k)' # {}
      PROVE  /\ job'[k].status = "completed" \/ \E x \in S!TasksOf(k)' : MayComplete(x)'
             /\ job'[k].summary.hosts \in Probed \/ \E x \in S!TasksOf(k)' : MayProbe(x)'
  <2>1. CASE k = i
    BY <1>1, <2>1
  <2>2. CASE k # i
    <3>1. u \notin S!TasksOf(k) /\ u \notin S!TasksOf(k)'
      BY <2>2 DEF S!TasksOf, S!FreeTasks
    <3>2. \A x \in S!TasksOf(k)' : x \in S!Tasks /\ x # u /\ task'[x] = task[x]
      BY <2>2, <3>1 DEF S!TasksOf
    <3>3. \A x \in S!TasksOf(k) : x \in S!Tasks /\ x # u /\ task'[x] = task[x]
      BY <2>2, <3>1 DEF S!TasksOf
    <3>4. S!TasksOf(k)' = S!TasksOf(k)
      BY <3>2, <3>3 DEF S!TasksOf
    <3>5. \A x \in S!TasksOf(k) : MayComplete(x)' = MayComplete(x) /\ MayProbe(x)' = MayProbe(x)
      BY <3>3 DEF MayComplete, MayProbe
    <3> QED
      BY <1>4, <3>4, <3>5 DEF WorkIsAhead
  <2> QED
    BY <2>1, <2>2
<1> QED
  BY <1>2, <1>3, <1>4 DEF WorkIsAhead

LEMMA FreeTask ==
  ASSUME S!FreeTasks # {}
  PROVE  S!Least(S!FreeTasks) \in S!FreeTasks
<1>1. S!FreeTasks \subseteq Nat
  BY DEF S!FreeTasks, S!Tasks
<1> QED
  BY <1>1, LeastNumber DEF S!Least

LEMMA RequestAhead ==
  ASSUME S!LocalScanAssumption, ScansInv, ScansInv', WorkIsAhead, NEW r \in Requests,
         S!Look(r) \/ S!Create(r) \/ S!LookTask(r) \/ S!Publish(r) \/ S!RequestDies(r)
  PROVE  WorkIsAhead'
<1> USE DEF ScansInv
<1>1. request[r].job \in S!Jobs /\ request \in [Requests -> [at : S!RequestStep, job : S!Jobs]]
  BY DEF S!TypeOK
<1>2. ASSUME UNCHANGED <<job, task>>,
             \A q \in Requests : \/ request'[q].at \notin {"task", "publish"}
                                 \/ job[request'[q].job].status # "absent"
      PROVE  WorkIsAhead'
  <2>1. \A j \in S!Jobs : S!TasksOf(j)' = S!TasksOf(j)
    BY <1>2 DEF S!TasksOf
  <2>2. \A t \in S!Tasks : MayComplete(t)' = MayComplete(t) /\ MayProbe(t)' = MayProbe(t)
    BY <1>2 DEF MayComplete, MayProbe
  <2>3. \A j \in S!Jobs : S!TasksOf(j) \subseteq S!Tasks
    BY DEF S!TasksOf
  <2>4. ASSUME NEW j \in S!Jobs, S!TasksOf(j) # {}
        PROVE  /\ job'[j].status = "completed" \/ \E t \in S!TasksOf(j) : MayComplete(t)'
               /\ job'[j].summary.hosts \in Probed \/ \E t \in S!TasksOf(j) : MayProbe(t)'
    BY <1>2, <2>2, <2>3, <2>4 DEF WorkIsAhead
  <2> QED
    BY <1>2, <2>1, <2>4 DEF WorkIsAhead
<1>3. CASE S!Look(r)
  <2>1. PICK step \in {"task", "create"}, j \in S!Jobs :
          S!RequestGoes(r, step, j) /\ (step = "task" => job[j].status # "absent")
    BY <1>1, <1>3 DEF S!Look, S!ActiveJobs
  <2> QED
    BY <1>1, <1>2, <1>3, <2>1 DEF S!Look, S!RequestGoes, WorkIsAhead
<1>4. CASE S!Create(r)
  <2>1. CASE UNCHANGED job
    <3>1. PICK j \in S!Jobs : S!RequestGoes(r, "task", j) /\ job[j].status # "absent"
      BY <1>4, <2>1, ZenonT(30) DEF S!Create, S!ActiveJobs, S!TypeOK, S!Job
    <3> QED
      BY <1>1, <1>2, <1>4, <2>1, <3>1 DEF S!Create, S!RequestGoes, WorkIsAhead
  <2>2. CASE ~UNCHANGED job
    <3>1. PICK j \in S!Jobs :
            /\ job[j].status = "absent" /\ job' = [job EXCEPT ![j].status = "pending"]
            /\ S!RequestGoes(r, "task", j) /\ UNCHANGED task
      BY <1>4, <2>2 DEF S!Create
    <3>2. job'[j].status = "pending" /\ \A i \in S!Jobs \ {j} : job'[i] = job[i]
      BY <3>1 DEF S!TypeOK, S!Job
    <3>3. S!TasksOf(j) = {}
      BY <3>1 DEF S!TasksOf, WorkIsAhead
    <3>4. \A i \in S!Jobs : S!TasksOf(i)' = S!TasksOf(i)
      BY <3>1 DEF S!TasksOf
    <3>5. \A t \in S!Tasks : MayComplete(t)' = MayComplete(t) /\ MayProbe(t)' = MayProbe(t)
      BY <3>1 DEF MayComplete, MayProbe
    <3>6. ASSUME NEW i \in S!Jobs, S!TasksOf(i) # {}
          PROVE  /\ job'[i].status = "completed" \/ \E t \in S!TasksOf(i) : MayComplete(t)'
                 /\ job'[i].summary.hosts \in Probed \/ \E t \in S!TasksOf(i) : MayProbe(t)'
      <4>1. i # j /\ S!TasksOf(i) \subseteq S!Tasks
        BY <3>3, <3>6 DEF S!TasksOf
      <4> QED
        BY <3>2, <3>5, <3>6, <4>1 DEF WorkIsAhead
    <3>7. \A q \in Requests : request'[q].at \in {"task", "publish"} => job'[request'[q].job].status # "absent"
      BY <1>1, <3>1, <3>2 DEF S!RequestGoes, WorkIsAhead
    <3>8. \A t \in S!Tasks : task'[t].status # "absent" => job'[task'[t].job].status # "absent"
      BY <3>1, <3>2 DEF WorkIsAhead, S!TypeOK, S!Task
    <3> QED
      BY <3>4, <3>6, <3>7, <3>8 DEF WorkIsAhead
  <2> QED
    BY <2>1, <2>2
<1>5. CASE S!LookTask(r)
  BY <1>1, <1>2, <1>5 DEF S!LookTask, S!RequestGoes, WorkIsAhead
<1>6. CASE S!Publish(r)
  <2>1. PICK u \in S!FreeTasks : task' = [task EXCEPT ![u] = S!NewTask(request[r].job, FALSE)]
    BY <1>6, FreeTask DEF S!Publish
  <2>2. /\ S!RequestGoes(r, "idle", request[r].job) /\ UNCHANGED job
        /\ request[r].at = "publish" /\ u \in S!Tasks
    BY <1>6 DEF S!Publish, S!FreeTasks
  <2>3. /\ task'[u].status = "active" /\ task'[u].job = request[r].job
        /\ task'[u].at = "discover" /\ \A x \in S!Tasks \ {u} : task'[x] = task[x]
    BY <2>1, <2>2 DEF S!NewTask, S!NoTask, S!TypeOK
  <2>4. MayComplete(u)' /\ MayProbe(u)'
    BY <2>3 DEF MayComplete, MayProbe, S!ScanStep
  <2>5. \A q \in Requests : request'[q] = request[q] \/ request'[q].at \notin {"task", "publish"}
    BY <1>1, <2>2 DEF S!RequestGoes
  <2>6. job[request[r].job].status # "absent"
    BY <2>2 DEF WorkIsAhead
  <2> QED
    BY <1>1, <2>1, <2>2, <2>3, <2>4, <2>5, <2>6, NewTaskAhead
<1>7. CASE S!RequestDies(r)
  BY <1>1, <1>2, <1>7 DEF S!RequestDies, S!RequestGoes, WorkIsAhead
<1> QED
  BY <1>3, <1>4, <1>5, <1>6, <1>7

LEMMA StageAhead ==
  ASSUME S!LocalScanAssumption, ScansInv, ScansInv', WorkIsAhead, NEW t \in S!Tasks,
         \/ S!Discover(t) \/ S!Search(t) \/ S!Upsert(t) \/ S!Store(t) \/ S!Queue(t)
         \/ S!Ports(t) \/ S!Scan(t) \/ S!Services(t) \/ S!Probe(t) \/ S!Verify(t) \/ S!Finalize(t)
         \/ S!Succeed(t) \/ S!Retry(t) \/ S!End(t)
  PROVE  WorkIsAhead'
<1> USE DEF ScansInv
<1> DEFINE j == task[t].job
<1>1. j \in S!Jobs /\ task \in [S!Tasks -> S!Task] /\ job \in [S!Jobs -> S!Job]
      /\ task[t].view \in S!Summary
  BY DEF S!TypeOK, S!Task
<1>2. task[t].status = "active" /\ job[j].status # "absent"
  BY <1>1 DEF S!Discover, S!Search, S!Upsert, S!Store, S!Queue, S!Ports, S!Scan, S!Services, S!Probe,
     S!Verify, S!Finalize, S!Succeed, S!Retry, S!End, S!At, S!MayRetry, WorkIsAhead
<1> HIDE DEF j
<1>3. ASSUME NEW step, S!Goes(t, step) \/ S!Reads(t, step)
      PROVE  /\ \A u \in S!Tasks \ {t} : task'[u] = task[u]
             /\ task'[t].job = j /\ task'[t].status = "active" /\ task'[t].at = step
  BY <1>1, <1>2, <1>3 DEF S!Goes, S!Reads, S!Task, j
<1>4. ASSUME NEW s, S!SaveSummary(j, s)
      PROVE  /\ \A i \in S!Jobs \ {j} : job'[i] = job[i]
             /\ job'[j].status = job[j].status /\ job'[j].summary = s
  BY <1>1, <1>4 DEF S!SaveSummary, S!Job
<1>5. ASSUME NEW x, job' = [job EXCEPT ![j].status = x]
      PROVE  /\ \A i \in S!Jobs \ {j} : job'[i] = job[i]
             /\ job'[j].status = x /\ job'[j].summary = job[j].summary
  BY <1>1, <1>5 DEF S!Job
<1>6. ASSUME task'[t].status = "active", task'[t].at \in S!ScanStep \cup {"ports", "scan", "services", "probe"}
      PROVE  MayComplete(t)' /\ MayProbe(t)'
  BY <1>6 DEF MayComplete, MayProbe, S!ScanStep
<1> USE DEF MayComplete, MayProbe
<1>7. CASE S!Discover(t)
  BY <1>1, <1>2, <1>3, <1>5, <1>6, <1>7, OneTaskAhead DEF S!Discover, S!ScanStep, j
<1>8. CASE S!Search(t)
  <2>1. PICK h \in {"none", "found"} : S!SaveSummary(j, [S!NoHosts EXCEPT !.hosts = h])
    BY <1>8 DEF S!Search, j
  <2>2. S!Goes(t, "upsert") /\ UNCHANGED request
    BY <1>8 DEF S!Search
  <2> QED
    BY <1>1, <1>2, <1>3, <1>4, <1>6, <2>1, <2>2, OneTaskAhead DEF S!ScanStep, j
<1>9. CASE S!Upsert(t)
  BY <1>1, <1>2, <1>3, <1>6, <1>9, OneTaskAhead DEF S!Upsert, S!ScanStep, j
<1>10. CASE S!Store(t)
  <2>1. job' = job \/ S!SaveSummary(j, task[t].view)
    BY <1>10 DEF S!Store, S!SaveSummary, j
  <2>2. /\ \A i \in S!Jobs \ {j} : job'[i] = job[i]
        /\ job'[j].status = job[j].status
    BY <1>4, <2>1
  <2>3. S!Goes(t, "queue") /\ UNCHANGED request
    BY <1>10 DEF S!Store
  <2> QED
    BY <1>1, <1>2, <1>3, <1>6, <2>2, <2>3, OneTaskAhead DEF S!ScanStep, j
<1>11. CASE S!Ports(t)
  BY <1>1, <1>2, <1>3, <1>6, <1>11, OneTaskAhead DEF S!Ports, j
<1>12. CASE S!Scan(t)
  <2>1. \E s \in S!Summary : S!SaveSummary(j, s)
    BY <1>1, <1>12 DEF S!Scan, S!Summary, S!Hosts, j
  <2>2. /\ \A i \in S!Jobs \ {j} : job'[i] = job[i]
        /\ job'[j].status = job[j].status
    BY <1>4, <2>1
  <2>3. S!Goes(t, "services") /\ UNCHANGED request
    BY <1>12 DEF S!Scan
  <2> QED
    BY <1>1, <1>2, <1>3, <1>6, <2>2, <2>3, OneTaskAhead DEF j
<1>13. CASE S!Services(t)
  BY <1>1, <1>2, <1>3, <1>6, <1>13, OneTaskAhead DEF S!Services, j
<1>14. CASE S!Probe(t)
  <2>1. PICK s \in S!Summary : S!SaveSummary(j, s) /\ s.hosts \in Probed
    BY <1>1, <1>14 DEF S!Probe, S!Summary, S!Hosts, Probed, j
  <2>2. S!Goes(t, "verify") /\ UNCHANGED request
    BY <1>14 DEF S!Probe
  <2> QED
    BY <1>1, <1>2, <1>3, <1>4, <2>1, <2>2, OneTaskAhead DEF j
<1>15. CASE S!Verify(t)
  BY <1>1, <1>2, <1>3, <1>15, OneTaskAhead DEF S!Verify, S!At, S!ScanStep, j
<1>16. CASE S!Finalize(t)
  BY <1>1, <1>2, <1>3, <1>5, <1>16, OneTaskAhead DEF S!Finalize, S!At, S!ScanStep, j
<1>17. CASE S!Queue(t)
  <2>1. PICK u \in S!FreeTasks : task' = [task EXCEPT ![t].at = "end", ![u] = S!NewTask(j, TRUE)]
    BY <1>17, FreeTask DEF S!Queue, S!Queues, j
  <2>2. u \in S!Tasks /\ u # t /\ UNCHANGED <<job, request>>
    BY <1>2, <1>17 DEF S!Queue, S!FreeTasks
  <2>3. /\ task'[u] = S!NewTask(j, TRUE) /\ \A x \in S!Tasks \ {u, t} : task'[x] = task[x]
        /\ task'[t].job = j /\ task'[t].status = "active"
    BY <1>1, <1>2, <2>1, <2>2 DEF S!Task, j
  <2>4. task'[u].status = "active" /\ task'[u].job = j /\ task'[u].at = "ports"
    BY <2>3 DEF S!NewTask, S!NoTask
  <2>5. MayComplete(u)' /\ MayProbe(u)'
    BY <2>4
  <2>6. \A x \in S!Tasks \ {u} :
           \/ task'[x] = task[x]
           \/ task'[x].status # "absent" /\ task[x].status # "absent"
              /\ task[x].job = j /\ task'[x].job = j
    BY <1>2, <2>3 DEF j
  <2> HIDE DEF MayComplete, MayProbe
  <2> QED
    BY <1>1, <1>2, <2>1, <2>2, <2>4, <2>5, <2>6, NewTaskAhead
<1>18. CASE S!Succeed(t)
  BY <1>1, <1>2, <1>18, OneTaskAhead DEF S!Succeed, S!At, S!NoTask, S!ScanStep, j
<1>19. CASE S!Retry(t)
  <2>1. /\ \A u \in S!Tasks \ {t} : task'[u] = task[u]
        /\ task'[t].job = j /\ task'[t].status = "active" /\ task'[t].at \in {"ports", "discover"}
        /\ UNCHANGED <<job, request>>
    BY <1>1, <1>19 DEF S!Retry, S!NewTask, S!NoTask, j
  <2> QED
    BY <1>1, <1>2, <1>6, <2>1, OneTaskAhead DEF S!ScanStep, j
<1>20. CASE S!End(t)
  BY <1>1, <1>2, <1>20, OneTaskAhead DEF S!End, S!NoTask, j
<1> QED
  BY <1>7, <1>8, <1>9, <1>10, <1>11, <1>12, <1>13, <1>14, <1>15, <1>16, <1>17, <1>18, <1>19, <1>20

LEMMA AheadStep ==
  ASSUME S!LocalScanAssumption, ScansInv, WorkIsAhead, [S!Next]_scan
  PROVE  WorkIsAhead'
<1>1. ScansInv'
  BY ScansStep
<1>2. CASE UNCHANGED scan
  BY <1>2 DEF scan, WorkIsAhead, S!TasksOf, MayComplete, MayProbe
<1> QED
  BY <1>1, <1>2, RequestAhead, StageAhead DEF S!Next

LEMMA AheadInit ==
  ASSUME S!LocalScanAssumption, S!Init
  PROVE  WorkIsAhead
BY ScansInit DEF S!Init, WorkIsAhead, S!TasksOf, S!NoTask

(* When every task succeeded there is none whose work is still ahead. *)
LEMMA NothingAhead ==
  ASSUME WorkIsAhead
  PROVE  S!AllDoneIsComplete
<1> SUFFICES ASSUME NEW j \in S!Jobs, S!TasksOf(j) # {},
                    \A t \in S!TasksOf(j) : task[t].status = "success"
             PROVE  job[j].status = "completed" /\ job[j].summary.hosts \in Probed
  BY DEF S!AllDoneIsComplete, Probed
<1>1. \A t \in S!TasksOf(j) : ~MayComplete(t) /\ ~MayProbe(t)
  BY DEF MayComplete, MayProbe
<1> QED
  BY <1>1 DEF WorkIsAhead

(***************************************************************************)
(* A job whose tasks all succeeded is completed and probed, whatever was   *)
(* retried, overtaken or queued in between, and a stored port is closed    *)
(* only after a scan found it closed (run_asset_scan_followup_task,        *)
(* _upsert_asset_ports), for any number of jobs, tasks and requests.       *)
(***************************************************************************)
THEOREM ScansBelieved ==
  ASSUME ServicesAssumption
  PROVE  /\ S!Spec => [](S!AllDoneIsComplete /\ S!ClosedOnlyByScan)
         /\ ServicesSpec => []ScansAreBelieved
<1>1. S!Init => ScansInv /\ WorkIsAhead
  BY ScansInit, AheadInit DEF ServicesAssumption
<1>2. ScansInv /\ WorkIsAhead /\ [S!Next]_scan => (ScansInv /\ WorkIsAhead)'
  BY ScansStep, AheadStep DEF ServicesAssumption
<1>3. ScansInv /\ WorkIsAhead => (S!AllDoneIsComplete /\ S!ClosedOnlyByScan)
  BY NothingAhead DEF ScansInv
<1>4. S!Spec => [](S!AllDoneIsComplete /\ S!ClosedOnlyByScan)
  BY <1>1, <1>2, <1>3, PTL DEF S!Spec, S!vars, scan
<1>5. (S!AllDoneIsComplete /\ S!ClosedOnlyByScan) => ScansAreBelieved
  BY DEF ScansAreBelieved
<1> QED
  BY <1>4, <1>5, EachServiceRuns, PTL

-----------------------------------------------------------------------------
(***************************************************************************)
(* The comparison of versions.  The places are inside the parts that are   *)
(* compared, so every search for the end of a run of characters succeeds.  *)
(***************************************************************************)
PlacesInside ==
  part \in {"version", "release"} => at[1] \in 1..(Len(R!L) + 1) /\ at[2] \in 1..(Len(R!R) + 1)

VersionsInv == R!TypeOK /\ PlacesInside

LEMMA Orders ==
  \A x, y : R!Order(x, y) \in {-1, 0, 1} /\ R!TextOrder(x, y) \in {-1, 0, 1}
            /\ R!NumberOrder(x, y) \in {-1, 0, 1}
<1>1. \A x, y : R!Order(x, y) \in {-1, 0, 1}
  BY DEF R!Order
<1>2. \A x, y : R!TextOrder(x, y) \in {-1, 0, 1}
  BY <1>1 DEF R!TextOrder
<1> QED
  BY <1>1, <1>2 DEF R!NumberOrder

(* The search stops at the first character that is not one of C, or behind the text. *)
LEMMA StopInside ==
  ASSUME NEW T, NEW s \in Seq(T), NEW i \in 1..(Len(s) + 1), NEW Chars
  PROVE  /\ R!Stop(s, i, Chars) \in i..(Len(s) + 1)
         /\ \A m \in i..(R!Stop(s, i, Chars) - 1) : s[m] \in Chars
         /\ R!Stop(s, i, Chars) <= Len(s) => s[R!Stop(s, i, Chars)] \notin Chars
<1> DEFINE Ends == {k \in i..(Len(s) + 1) : k <= Len(s) => s[k] \notin Chars}
<1>1. Ends \subseteq Nat /\ Len(s) + 1 \in Ends
  OBVIOUS
<1>2. PICK k \in Ends : \A j \in Ends : k <= j
  <2> HIDE DEF Ends
  <2> QED
    BY <1>1, LeastNumber
<1>3. \A m \in i..(k - 1) : s[m] \in Chars
  <2> SUFFICES ASSUME NEW m \in i..(k - 1)  PROVE s[m] \in Chars
    OBVIOUS
  <2>1. m \in i..(Len(s) + 1) /\ ~(k <= m)
    BY <1>1
  <2>2. m \notin Ends
    BY <1>2, <2>1
  <2> QED
    BY <2>1, <2>2
<1>4. k \in i..(Len(s) + 1) /\ (k <= Len(s) => s[k] \notin Chars)
  OBVIOUS
<1> HIDE DEF Ends
<1> QED
  BY <1>3, <1>4 DEF R!Stop

LEMMA TextShape ==
  ASSUME NEW n \in Nat, NEW s \in R!Texts(n)
  PROVE  s \in Seq(R!Chars) /\ Len(s) \in Nat
<1>1. PICK k \in 1..n : s \in [1..k -> R!Chars]
  BY DEF R!Texts
<1> QED
  BY <1>1

(* The epoch, the version and the release are parts of the text. *)
LEMMA PartInside ==
  ASSUME NEW s \in Seq(R!Chars), NEW p \in {"version", "release"}
  PROVE  R!PartOf(s, p) \in Seq(R!Chars) /\ Len(R!PartOf(s, p)) <= Len(s)
<1>1. R!EpochEnd(s) \in 0..Len(s)
  <2>1. R!Stop(s, 1, R!CharsOf(Digits)) \in 1..(Len(s) + 1)
    BY StopInside
  <2> QED
    BY <2>1 DEF R!EpochEnd
<1>2. R!ReleaseStart(s) \in (R!EpochEnd(s) + 1)..(Len(s) + 1)
  <2>1. CASE R!Dashes(s) = {}
    BY <1>1, <2>1 DEF R!ReleaseStart
  <2>2. CASE R!Dashes(s) # {}
    <3> DEFINE Behind == {Len(s) - k : k \in R!Dashes(s)}
    <3>1. R!Dashes(s) \subseteq (R!EpochEnd(s) + 1)..Len(s)
      BY DEF R!Dashes
    <3>2. Behind \subseteq Nat /\ Behind # {}
      BY <1>1, <2>2, <3>1
    <3>3. PICK b \in Behind : \A c \in Behind : b <= c
      <4> HIDE DEF Behind
      <4> QED
        BY <3>2, LeastNumber
    <3>4. PICK k \in R!Dashes(s) : b = Len(s) - k
      OBVIOUS
    <3>5. ASSUME NEW m \in R!Dashes(s)  PROVE m <= k
      <4>1. Len(s) - m \in Behind
        OBVIOUS
      <4>2. b <= Len(s) - m
        BY <3>3, <4>1
      <4> QED
        BY <1>1, <3>1, <3>4, <4>2
    <3>6. R!ReleaseStart(s) \in R!Dashes(s)
      BY <2>2, <3>5 DEF R!ReleaseStart
    <3> QED
      BY <1>1, <3>1, <3>6
  <2> QED
    BY <2>1, <2>2
<1>3. ASSUME NEW a \in 1..(Len(s) + 2), NEW b \in 0..Len(s)
      PROVE  SubSeq(s, a, b) \in Seq(R!Chars) /\ Len(SubSeq(s, a, b)) <= Len(s)
  <2>1. \A i \in a..b : s[i] \in R!Chars
    OBVIOUS
  <2>2. /\ SubSeq(s, a, b) \in Seq(R!Chars)
        /\ Len(SubSeq(s, a, b)) = IF a <= b THEN b - a + 1 ELSE 0
    BY <2>1, SubSeqProperties
  <2> QED
    BY <2>2
<1>4. CASE p = "version"
  <2>1. R!PartOf(s, p) = SubSeq(s, R!EpochEnd(s) + 1, R!ReleaseStart(s) - 1)
    BY <1>4 DEF R!PartOf
  <2> QED
    BY <1>1, <1>2, <1>3, <2>1
<1>5. CASE p = "release"
  <2>1. R!PartOf(s, p) = SubSeq(s, R!ReleaseStart(s) + 1, Len(s))
    BY <1>5 DEF R!PartOf, R!From
  <2> QED
    BY <1>1, <1>2, <1>3, <2>1
<1> QED
  BY <1>4, <1>5

LEMMA VersionsInit ==
  ASSUME ServicesAssumption, R!Init
  PROVE  VersionsInv
<1>1. MaxLeft \in Nat /\ MaxRight \in Nat
  BY DEF ServicesAssumption, R!RpmVersionAssumption
<1>2. /\ texts.left \in Seq(R!Chars) /\ Len(texts.left) \in Nat
      /\ texts.right \in Seq(R!Chars) /\ Len(texts.right) \in Nat
  BY <1>1, TextShape DEF R!Init
<1> QED
  BY <1>2 DEF R!Init, R!TypeOK, VersionsInv, PlacesInside

LEMMA VersionsStep ==
  ASSUME ServicesAssumption, VersionsInv, [R!Next]_versions
  PROVE  VersionsInv'
<1>1. MaxLeft \in Nat /\ MaxRight \in Nat
  BY DEF ServicesAssumption, R!RpmVersionAssumption
<1>2. /\ texts \in [left : R!Texts(MaxLeft), right : R!Texts(MaxRight)]
      /\ texts.left \in Seq(R!Chars) /\ Len(texts.left) \in Nat
      /\ texts.right \in Seq(R!Chars) /\ Len(texts.right) \in Nat
  BY <1>1, TextShape DEF VersionsInv, R!TypeOK
<1>3. part \in {"version", "release"} =>
        /\ R!L \in Seq(R!Chars) /\ Len(R!L) \in Nat /\ Len(R!L) <= Len(texts.left)
        /\ R!R \in Seq(R!Chars) /\ Len(R!R) \in Nat /\ Len(R!R) <= Len(texts.right)
  BY <1>2, PartInside DEF R!L, R!R
<1>4. CASE UNCHANGED versions
  BY <1>4 DEF versions, VersionsInv, R!TypeOK, PlacesInside, R!L, R!R
<1>5. ASSUME NEW r \in {-1, 0, 1}, R!Decide(r), part \in {"epoch", "version", "release"}
      PROVE  VersionsInv'
  <2>1. /\ UNCHANGED texts /\ at' = <<1, 1>> /\ result' = r
        /\ part' \in {"version", "release", "done"}
    BY <1>5 DEF R!Decide, R!NextPart
  <2>2. R!TypeOK'
    BY <1>2, <2>1 DEF R!TypeOK
  <2>3. part' \in {"version", "release"} => Len(R!L') \in Nat /\ Len(R!R') \in Nat
    <3> SUFFICES ASSUME part' \in {"version", "release"}
                 PROVE  Len(R!L') \in Nat /\ Len(R!R') \in Nat
      OBVIOUS
    <3>1. R!L' = R!PartOf(texts.left, part') /\ R!R' = R!PartOf(texts.right, part')
      BY <2>1 DEF R!L, R!R
    <3>2. R!PartOf(texts.left, part') \in Seq(R!Chars) /\ R!PartOf(texts.right, part') \in Seq(R!Chars)
      BY <1>2, PartInside
    <3> QED
      BY <3>1, <3>2
  <2> QED
    BY <2>1, <2>2, <2>3 DEF VersionsInv, PlacesInside
<1>6. CASE R!CompareEpochs
  BY <1>5, <1>6, Orders DEF R!CompareEpochs
<1>7. CASE R!CompareTilde
  BY <1>5, <1>7 DEF R!CompareTilde
<1>8. CASE R!CompareSegment
  <2> DEFINE i == R!Segment(R!L, at[1])
             j == R!Segment(R!R, at[2])
             kind == R!Kind(R!L, i)
             m == R!Stop(R!L, i, R!KindCharacters(kind))
             n == R!Stop(R!R, j, R!KindCharacters(kind))
             l == SubSeq(R!L, i, m - 1)
             r == SubSeq(R!R, j, n - 1)
             order == IF kind # R!Kind(R!R, j) THEN R!Order(R!KindRank[kind], R!KindRank[R!Kind(R!R, j)])
                      ELSE IF kind = "number" THEN R!NumberOrder(l, r) ELSE R!TextOrder(l, r)
  <2>1. part \in {"version", "release"}
    BY <1>8 DEF R!CompareSegment
  <2>2. IF kind = "end" \/ order # 0 THEN R!Decide(order)
        ELSE at' = <<m, n>> /\ UNCHANGED <<texts, part, result>>
    BY <1>8 DEF R!CompareSegment
  <2>3. order \in {-1, 0, 1}
    BY Orders
  <2>4. ASSUME NEW s \in Seq(R!Chars), NEW k \in 1..(Len(s) + 1)
        PROVE  R!Segment(s, k) \in k..(Len(s) + 1)
    <3>1. CASE R!Tilde(s, k)
      <4>1. k + 1 \in 1..(Len(s) + 1)
        BY <3>1 DEF R!Tilde
      <4>2. R!Stop(s, k + 1, {".", "-", ":"}) \in (k + 1)..(Len(s) + 1)
        BY <4>1, StopInside
      <4> QED
        BY <3>1, <4>2 DEF R!Segment
    <3>2. CASE ~R!Tilde(s, k)
      BY <3>2, StopInside DEF R!Segment
    <3> QED
      BY <3>1, <3>2
  <2>5. i \in 1..(Len(R!L) + 1) /\ j \in 1..(Len(R!R) + 1)
    <3>1. at[1] \in 1..(Len(R!L) + 1) /\ at[2] \in 1..(Len(R!R) + 1)
      BY <2>1 DEF VersionsInv, PlacesInside
    <3>2. i \in at[1]..(Len(R!L) + 1) /\ j \in at[2]..(Len(R!R) + 1)
      BY <1>3, <2>1, <2>4, <3>1
    <3> HIDE DEF i, j
    <3> QED
      BY <1>3, <2>1, <3>1, <3>2
  <2>6. m \in 1..(Len(R!L) + 1) /\ n \in 1..(Len(R!R) + 1)
    <3> HIDE DEF i, j, kind
    <3>1. m \in i..(Len(R!L) + 1) /\ n \in j..(Len(R!R) + 1)
      BY <1>3, <2>1, <2>5, StopInside
    <3> QED
      BY <1>3, <2>1, <2>5, <3>1
  <2>7. CASE kind = "end" \/ order # 0
    <3> HIDE DEF kind, order
    <3> QED
      BY <1>5, <2>1, <2>2, <2>3, <2>7
  <2>8. CASE ~(kind = "end" \/ order # 0)
    <3> HIDE DEF kind, order, m, n
    <3>1. at' = <<m, n>> /\ UNCHANGED <<texts, part, result>>
      BY <2>2, <2>8
    <3>2. R!L' = R!L /\ R!R' = R!R
      BY <3>1 DEF R!L, R!R
    <3>3. m \in 1..(Len(texts.left) + 1) /\ n \in 1..(Len(texts.right) + 1)
      BY <1>2, <1>3, <2>1, <2>6
    <3>4. R!TypeOK'
      BY <3>1, <3>3 DEF VersionsInv, R!TypeOK
    <3> QED
      BY <2>6, <3>1, <3>2, <3>4 DEF VersionsInv, PlacesInside
  <2> QED
    BY <2>7, <2>8
<1> QED
  BY <1>4, <1>6, <1>7, <1>8 DEF R!Next

-----------------------------------------------------------------------------
(* The first place where two sequences differ, or where one of them ends.   *)
DifferAt(x, y, k) ==
  /\ k \in 1..(Len(x) + 1)
  /\ \A m \in 1..(k - 1) : m <= Len(y) /\ x[m] = y[m]
  /\ k <= Len(x) /\ k <= Len(y) => x[k] # y[k]

LEMMA SomewhereDiffer ==
  ASSUME NEW T, NEW x \in Seq(T), NEW y \in Seq(T)
  PROVE  \E k \in 1..(Len(x) + 1) : DifferAt(x, y, k)
<1> DEFINE Ends == {k \in 1..(Len(x) + 1) : k <= Len(x) /\ k <= Len(y) => x[k] # y[k]}
<1>1. Ends \subseteq Nat /\ Len(x) + 1 \in Ends
  OBVIOUS
<1>2. PICK k \in Ends : \A j \in Ends : k <= j
  <2> HIDE DEF Ends
  <2> QED
    BY <1>1, LeastNumber
<1>3. ASSUME NEW m \in 1..(k - 1)  PROVE m <= Len(y) /\ x[m] = y[m]
  <2>1. k \in 1..(Len(x) + 1) /\ m \in 1..(Len(x) + 1) /\ m <= Len(x) /\ ~(k <= m)
    OBVIOUS
  <2>2. m \notin Ends
    BY <1>2, <2>1
  <2> QED
    BY <2>1, <2>2
<1> QED
  BY <1>3 DEF DifferAt

LEMMA OneDifference ==
  ASSUME NEW T, NEW x \in Seq(T), NEW y \in Seq(T), NEW k, NEW l,
         DifferAt(x, y, k), DifferAt(x, y, l)
  PROVE  k = l
<1>1. k \in 1..(Len(x) + 1) /\ l \in 1..(Len(x) + 1)
  BY DEF DifferAt
<1>2. \A m, n \in 1..(Len(x) + 1) : DifferAt(x, y, m) /\ DifferAt(x, y, n) => ~(m < n)
  BY DEF DifferAt
<1> QED
  BY <1>1, <1>2

(* So what the comparisons choose is that place. *)
LEMMA OrdersAt ==
  ASSUME NEW T, NEW x \in Seq(T), NEW y \in Seq(T), NEW k, DifferAt(x, y, k)
  PROVE  /\ R!KeyOrder(x, y) = IF k > Len(x) \/ k > Len(y) THEN R!Order(Len(x), Len(y))
                               ELSE R!Order(x[k], y[k])
         /\ R!TextOrder(x, y) = IF k > Len(x) \/ k > Len(y) THEN R!Order(Len(x), Len(y))
                                ELSE R!Order(R!Rank(x[k]), R!Rank(y[k]))
<1> DEFINE c == CHOOSE l \in 1..(Len(x) + 1) :
                  /\ \A m \in 1..(l - 1) : m <= Len(y) /\ x[m] = y[m]
                  /\ l <= Len(x) /\ l <= Len(y) => x[l] # y[l]
<1>1. DifferAt(x, y, c)
  BY DEF DifferAt
<1>2. /\ R!KeyOrder(x, y) = IF c > Len(x) \/ c > Len(y) THEN R!Order(Len(x), Len(y))
                            ELSE R!Order(x[c], y[c])
      /\ R!TextOrder(x, y) = IF c > Len(x) \/ c > Len(y) THEN R!Order(Len(x), Len(y))
                             ELSE R!Order(R!Rank(x[c]), R!Rank(y[c]))
  BY Zenon DEF R!KeyOrder, R!TextOrder
<1> HIDE DEF c
<1>3. c = k
  BY <1>1, OneDifference
<1> QED
  BY <1>2, <1>3

LEMMA KeyOrderAt ==
  ASSUME NEW x \in Seq(Int), NEW y \in Seq(Int), NEW k, DifferAt(x, y, k)
  PROVE  /\ R!KeyOrder(x, y) = IF k > Len(x) \/ k > Len(y) THEN R!Order(Len(x), Len(y))
                               ELSE R!Order(x[k], y[k])
         /\ k <= Len(x) /\ k <= Len(y) => R!KeyOrder(x, y) = R!Order(x[k], y[k])
<1>1. R!KeyOrder(x, y) = IF k > Len(x) \/ k > Len(y) THEN R!Order(Len(x), Len(y))
                         ELSE R!Order(x[k], y[k])
  BY OrdersAt
<1>2. k \in Int /\ Len(x) \in Int /\ Len(y) \in Int
  BY DEF DifferAt
<1>3. k <= Len(x) /\ k <= Len(y) => ~(k > Len(x)) /\ ~(k > Len(y))
  BY <1>2
<1> QED
  BY <1>1, <1>3

(***************************************************************************)
(* Two keys are settled when they differ at a place that both have: then   *)
(* nothing that follows them matters.                                      *)
(***************************************************************************)
Settled(p, q) == \E k \in 1..Len(p) : k <= Len(q) /\ DifferAt(p, q, k)

LEMMA SettledFirst ==
  ASSUME NEW p \in Seq(Int), NEW q \in Seq(Int), NEW x \in Seq(Int), NEW y \in Seq(Int),
         Settled(p, q)
  PROVE  R!KeyOrder(p \o x, q \o y) = R!KeyOrder(p, q) /\ R!KeyOrder(p, q) # 0
<1>1. PICK k \in 1..Len(p) : k <= Len(q) /\ DifferAt(p, q, k)
  BY DEF Settled
<1>2. /\ p \o x \in Seq(Int) /\ Len(p \o x) = Len(p) + Len(x)
      /\ \A m \in 1..Len(p) : (p \o x)[m] = p[m]
      /\ q \o y \in Seq(Int) /\ Len(q \o y) = Len(q) + Len(y)
      /\ \A m \in 1..Len(q) : (q \o y)[m] = q[m]
  BY ConcatProperties
<1>3. p[k] # q[k] /\ p[k] \in Int /\ q[k] \in Int
  BY <1>1 DEF DifferAt
<1>4. DifferAt(p \o x, q \o y, k)
  <2>1. k \in 1..(Len(p \o x) + 1) /\ \A m \in 1..(k - 1) : m \in 1..Len(p) /\ m \in 1..Len(q)
    BY <1>1, <1>2
  <2>2. \A m \in 1..(k - 1) : m <= Len(q \o y) /\ (p \o x)[m] = (q \o y)[m]
    <3> SUFFICES ASSUME NEW m \in 1..(k - 1)
                 PROVE  m <= Len(q \o y) /\ (p \o x)[m] = (q \o y)[m]
      OBVIOUS
    <3>1. m \in 1..Len(p) /\ m \in 1..Len(q) /\ p[m] = q[m]
      BY <1>1, <2>1 DEF DifferAt
    <3> QED
      BY <1>2, <3>1
  <2> QED
    BY <1>1, <1>2, <1>3, <2>1, <2>2 DEF DifferAt
<1>5. R!KeyOrder(p, q) = R!Order(p[k], q[k])
  BY <1>1, KeyOrderAt
<1>6. R!KeyOrder(p \o x, q \o y) = R!Order((p \o x)[k], (q \o y)[k])
  <2>1. k <= Len(p \o x) /\ k <= Len(q \o y) /\ p \o x \in Seq(Int) /\ q \o y \in Seq(Int)
    BY <1>1, <1>2
  <2> DEFINE u == p \o x
             v == q \o y
  <2> HIDE DEF u, v
  <2>2. u \in Seq(Int) /\ v \in Seq(Int) /\ DifferAt(u, v, k) /\ k <= Len(u) /\ k <= Len(v)
    BY <1>4, <2>1 DEF u, v
  <2>3. R!KeyOrder(u, v) = R!Order(u[k], v[k])
    BY <2>2, KeyOrderAt
  <2> QED
    BY <2>3 DEF u, v
<1> QED
  BY <1>1, <1>2, <1>3, <1>5, <1>6 DEF R!Order

LEMMA SameFirst ==
  ASSUME NEW p \in Seq(Int), NEW x \in Seq(Int), NEW y \in Seq(Int)
  PROVE  R!KeyOrder(p \o x, p \o y) = R!KeyOrder(x, y)
<1>1. PICK k \in 1..(Len(x) + 1) : DifferAt(x, y, k)
  BY SomewhereDiffer
<1> DEFINE h == Len(p)
           n == h + k
           a == p \o x
           b == p \o y
<1>2. h \in Nat /\ Len(x) \in Nat /\ Len(y) \in Nat
  BY LenProperties
<1>3. ASSUME NEW z \in Seq(Int)
      PROVE  /\ p \o z \in Seq(Int) /\ Len(p \o z) = h + Len(z)
             /\ \A m \in 1..h : (p \o z)[m] = p[m]
             /\ \A m \in 1..Len(z) : (p \o z)[h + m] = z[m]
  <2> DEFINE c == p \o z
  <2>1. /\ c \in Seq(Int) /\ Len(c) = h + Len(z)
        /\ \A m \in 1..(h + Len(z)) : c[m] = IF m <= h THEN p[m] ELSE z[m - h]
    BY ConcatProperties
  <2>2. Len(z) \in Nat
    BY LenProperties
  <2> HIDE DEF c, h
  <2>3. ASSUME NEW m \in 1..Len(z)  PROVE c[h + m] = z[m]
    <3>1. h + m \in 1..(h + Len(z)) /\ ~(h + m <= h) /\ (h + m) - h = m
      BY <1>2, <2>2
    <3> QED
      BY <2>1, <3>1
  <2>4. \A m \in 1..h : c[m] = p[m]
    BY <1>2, <2>1, <2>2
  <2> QED
    BY <2>1, <2>3, <2>4 DEF c
<1>4. /\ a \in Seq(Int) /\ b \in Seq(Int) /\ Len(a) = h + Len(x) /\ Len(b) = h + Len(y)
      /\ \A m \in 1..h : a[m] = p[m] /\ b[m] = p[m]
  BY <1>3
<1>5. /\ \A m \in 1..Len(x) : a[h + m] = x[m]
      /\ \A m \in 1..Len(y) : b[h + m] = y[m]
  BY <1>3
<1> HIDE DEF a, b, h
<1>6. ASSUME NEW m \in 1..(n - 1)  PROVE m <= Len(b) /\ a[m] = b[m]
  <2>1. CASE m <= h
    BY <1>2, <1>4, <2>1
  <2>2. CASE m > h
    <3>1. PICK d \in 1..(k - 1) : m = h + d
      <4>1. m - h \in 1..(k - 1) /\ m = h + (m - h)
        BY <1>2, <2>2
      <4> QED
        BY <4>1
    <3>2. d <= Len(y) /\ x[d] = y[d]
      BY <1>1 DEF DifferAt
    <3>3. d \in 1..Len(x) /\ d \in 1..Len(y)
      BY <1>2, <3>2
    <3>4. a[h + d] = x[d] /\ b[h + d] = y[d]
      BY <1>5, <3>3, Zenon
    <3>5. m <= Len(b)
      BY <1>2, <1>4, <3>1, <3>3
    <3> QED
      BY <3>1, <3>2, <3>4, <3>5
  <2> QED
    BY <1>2, <2>1, <2>2
<1>7. ASSUME k \in 1..Len(x), k \in 1..Len(y)
      PROVE  a[n] = x[k] /\ b[n] = y[k] /\ x[k] # y[k]
  <2>1. a[n] = x[k] /\ b[n] = y[k]
    BY <1>5, <1>7, Zenon
  <2>2. x[k] # y[k]
    BY <1>2, <1>7, <1>1 DEF DifferAt
  <2> QED
    BY <2>1, <2>2
<1>8. /\ n \in 1..(Len(a) + 1)
      /\ n <= Len(a) <=> k \in 1..Len(x)
      /\ n <= Len(b) <=> k \in 1..Len(y)
      /\ n > Len(a) <=> k > Len(x)
      /\ n > Len(b) <=> k > Len(y)
  BY <1>2, <1>4, SMTT(30)
<1>9. DifferAt(a, b, n)
  <2> HIDE DEF n
  <2>1. n <= Len(a) /\ n <= Len(b) => a[n] # b[n]
    BY <1>7, <1>8, Zenon
  <2> QED
    BY <1>6, <1>8, <2>1 DEF DifferAt
<1>10. R!KeyOrder(x, y) = IF k > Len(x) \/ k > Len(y) THEN R!Order(Len(x), Len(y))
                          ELSE R!Order(x[k], y[k])
  BY <1>1, KeyOrderAt
<1>11. R!KeyOrder(a, b) = IF n > Len(a) \/ n > Len(b) THEN R!Order(Len(a), Len(b))
                          ELSE R!Order(a[n], b[n])
  <2> HIDE DEF n
  <2>1. a \in Seq(Int) /\ b \in Seq(Int)
    BY <1>4
  <2> QED
    BY <1>9, <2>1, KeyOrderAt
<1>12. R!Order(Len(a), Len(b)) = R!Order(Len(x), Len(y))
  BY <1>2, <1>4 DEF R!Order
<1>13. ~(k > Len(x) \/ k > Len(y)) => k \in 1..Len(x) /\ k \in 1..Len(y)
  BY <1>2
<1>14. R!KeyOrder(a, b) = R!KeyOrder(x, y)
  <2> HIDE DEF n
  <2>1. CASE k > Len(x) \/ k > Len(y)
    BY <1>8, <1>10, <1>11, <1>12, <2>1, Zenon
  <2>2. CASE ~(k > Len(x) \/ k > Len(y))
    <3>1. a[n] = x[k] /\ b[n] = y[k]
      BY <1>7, <1>13, <2>2, Zenon
    <3> QED
      BY <1>8, <1>10, <1>11, <2>2, <3>1, Zenon
  <2> QED
    BY <2>1, <2>2, Zenon
<1> QED
  BY <1>14 DEF a, b

(* Equal sequences, and only they, have the order 0. *)
LEMMA ZeroMeansEqual ==
  ASSUME NEW x \in Seq(Int), NEW y \in Seq(Int)
  PROVE  R!KeyOrder(x, y) = 0 <=> x = y
<1>1. PICK k \in 1..(Len(x) + 1) : DifferAt(x, y, k)
  BY SomewhereDiffer
<1>2. R!KeyOrder(x, y) = IF k > Len(x) \/ k > Len(y) THEN R!Order(Len(x), Len(y))
                         ELSE R!Order(x[k], y[k])
  BY <1>1, KeyOrderAt
<1>3. CASE k > Len(x) \/ k > Len(y)
  <2>1. R!KeyOrder(x, y) = 0 <=> Len(x) = Len(y)
    BY <1>2, <1>3 DEF R!Order
  <2>2. ASSUME Len(x) = Len(y)  PROVE x = y
    <3>1. \A m \in 1..Len(x) : x[m] = y[m]
      BY <1>1, <1>3, <2>2 DEF DifferAt
    <3> QED
      BY <2>2, <3>1, SeqEqual
  <2> QED
    BY <2>1, <2>2
<1>4. CASE k <= Len(x) /\ k <= Len(y)
  <2>1. x[k] # y[k] /\ x[k] \in Int /\ y[k] \in Int
    BY <1>1, <1>4 DEF DifferAt
  <2>2. R!KeyOrder(x, y) # 0
    BY <1>2, <1>4, <2>1 DEF R!Order
  <2> QED
    BY <2>1, <2>2
<1> QED
  BY <1>1, <1>3, <1>4

-----------------------------------------------------------------------------
(* Characters of one kind are told apart by their ranks. *)
OneKind(D) == D = R!CharsOf(Digits) \/ D = R!CharsOf(Letters)

LEMMA RanksDiffer ==
  ASSUME R!RpmVersionAssumption, NEW D, OneKind(D)
  PROVE  /\ \A a \in D : R!Rank(a) \in Nat \ {0}
         /\ \A a, b \in D : a # b => R!Rank(a) # R!Rank(b)
<1>1. /\ DOMAIN Digits = 1..Len(Digits) /\ Len(Digits) \in Nat
      /\ DOMAIN Letters = 1..Len(Letters) /\ Len(Letters) \in Nat
  BY LenProperties DEF R!RpmVersionAssumption
<1>2. R!CharsOf(Digits) \cap R!CharsOf(Letters) = {}
  BY DEF R!RpmVersionAssumption, R!CharsOf
<1>3. ASSUME NEW a \in R!CharsOf(Digits)
      PROVE  R!Rank(a) \in Nat \ {0} /\ Digits[R!Rank(a)] = a
  <2>1. \E k \in DOMAIN Digits : Digits[k] = a
    BY DEF R!CharsOf
  <2>2. R!Rank(a) \in DOMAIN Digits /\ Digits[R!Rank(a)] = a
    BY <2>1 DEF R!Rank
  <2> QED
    BY <1>1, <2>2
<1>4. ASSUME NEW a \in R!CharsOf(Letters)
      PROVE  R!Rank(a) \in Nat \ {0} /\ Letters[R!Rank(a)] = a
  <2>1. \E k \in DOMAIN Letters : Letters[k] = a
    BY DEF R!CharsOf
  <2>2. R!Rank(a) \in DOMAIN Letters /\ Letters[R!Rank(a)] = a
    BY <1>2, <2>1 DEF R!Rank
  <2> QED
    BY <1>1, <2>2
<1> QED
  BY <1>3, <1>4 DEF OneKind

RanksOf(s) == [k \in DOMAIN s |-> R!Rank(s[k])]

LEMMA RanksAreNumbers ==
  ASSUME R!RpmVersionAssumption, NEW D, OneKind(D), NEW s \in Seq(D)
  PROVE  /\ RanksOf(s) \in Seq(Int) /\ Len(RanksOf(s)) = Len(s)
         /\ \A k \in 1..Len(s) : RanksOf(s)[k] = R!Rank(s[k]) /\ R!Rank(s[k]) \in Nat \ {0}
<1>1. Len(s) \in Nat /\ DOMAIN s = 1..Len(s) /\ \A k \in 1..Len(s) : s[k] \in D
  BY LenProperties
<1>2. \A k \in 1..Len(s) : R!Rank(s[k]) \in Nat \ {0}
  BY <1>1, RanksDiffer
<1>3. RanksOf(s) = [k \in 1..Len(s) |-> R!Rank(s[k])]
  BY <1>1 DEF RanksOf
<1>4. RanksOf(s) \in [1..Len(s) -> Int]
  BY <1>2, <1>3
<1> QED
  BY <1>1, <1>2, <1>3, <1>4

LEMMA StrippedKind ==
  ASSUME NEW D, NEW d \in Seq(D)
  PROVE  R!Stripped(d) \in Seq(D)
<1>1. R!Stop(d, 1, {R!Zero}) \in 1..(Len(d) + 1) /\ Len(d) \in Nat
  BY StopInside
<1> DEFINE i == R!Stop(d, 1, {R!Zero})
<1>2. R!Stripped(d) = SubSeq(d, i, Len(d))
  BY DEF R!Stripped, R!From
<1>5. i \in 1..(Len(d) + 1) /\ Len(d) \in Nat
  BY <1>1
<1> HIDE DEF i
<1>3. i \in Int /\ Len(d) \in Int /\ \A m \in i..Len(d) : m \in 1..Len(d)
  BY <1>5
<1>4. \A m \in i..Len(d) : d[m] \in D
  BY <1>3, ElementOfSeq
<1> QED
  BY <1>2, <1>3, <1>4, SubSeqProperties

(* Numbers without leading zeros are in the order of their keys. *)
LEMMA NumbersByKey ==
  ASSUME R!RpmVersionAssumption,
         NEW c \in Seq(R!CharsOf(Digits)), NEW d \in Seq(R!CharsOf(Digits))
  PROVE  /\ R!NumberKey(c) \in Seq(Int) /\ R!NumberKey(d) \in Seq(Int)
         /\ R!NumberKey(c) = R!NumberKey(d) \/ Settled(R!NumberKey(c), R!NumberKey(d))
         /\ R!NumberOrder(c, d) = R!KeyOrder(R!NumberKey(c), R!NumberKey(d))
<1> DEFINE D == R!CharsOf(Digits)
           s == R!Stripped(c)
           t == R!Stripped(d)
           p == R!NumberKey(c)
           q == R!NumberKey(d)
<1>1. s \in Seq(D) /\ t \in Seq(D) /\ OneKind(D)
  BY StrippedKind DEF OneKind
<1>2. p = <<Len(s)>> \o RanksOf(s) /\ q = <<Len(t)>> \o RanksOf(t)
  BY DEF R!NumberKey, RanksOf
<1>3. R!NumberOrder(c, d) = IF Len(s) # Len(t) THEN R!Order(Len(s), Len(t)) ELSE R!TextOrder(s, t)
  BY DEF R!NumberOrder
<1> HIDE DEF s, t, p, q, D
<1>4. ASSUME NEW u \in Seq(D)
      PROVE  /\ <<Len(u)>> \o RanksOf(u) \in Seq(Int)
             /\ Len(<<Len(u)>> \o RanksOf(u)) = Len(u) + 1
             /\ (<<Len(u)>> \o RanksOf(u))[1] = Len(u)
             /\ \A m \in 1..Len(u) : (<<Len(u)>> \o RanksOf(u))[m + 1] = R!Rank(u[m])
  <2> DEFINE a == <<Len(u)>>
             b == RanksOf(u)
  <2>1. a \in Seq(Int) /\ Len(a) = 1 /\ a[1] = Len(u) /\ Len(u) \in Nat
    BY LenProperties
  <2>2. b \in Seq(Int) /\ Len(b) = Len(u) /\ \A m \in 1..Len(u) : b[m] = R!Rank(u[m])
    BY <1>1, RanksAreNumbers
  <2> HIDE DEF a, b
  <2> DEFINE g == a \o b
  <2>3. /\ g \in Seq(Int) /\ Len(g) = Len(a) + Len(b)
        /\ \A i \in 1..(Len(a) + Len(b)) : g[i] = IF i <= Len(a) THEN a[i] ELSE b[i - Len(a)]
    BY <2>1, <2>2, ConcatProperties, ZenonT(30)
  <2> HIDE DEF g
  <2>4. /\ g \in Seq(Int) /\ Len(g) = 1 + Len(u)
        /\ \A i \in 1..(1 + Len(u)) : g[i] = IF i <= 1 THEN a[i] ELSE b[i - 1]
    <3>1. Len(a) = 1 /\ Len(b) = Len(u)
      BY <2>1, <2>2
    <3> QED
      BY <2>3, <3>1, Zenon
  <2>5. g[1] = Len(u)
    <3>1. Len(u) \in Nat /\ a[1] = Len(u)
      BY <2>1
    <3>2. 1 \in 1..(1 + Len(u)) /\ 1 <= 1
      BY <3>1
    <3> QED
      BY <2>4, <3>1, <3>2
  <2>6. ASSUME NEW m \in 1..Len(u)  PROVE g[m + 1] = R!Rank(u[m])
    <3>1. m + 1 \in 1..(1 + Len(u)) /\ ~(m + 1 <= 1) /\ (m + 1) - 1 = m
      BY <2>1
    <3> QED
      BY <2>2, <2>4, <3>1
  <2>7. Len(g) = Len(u) + 1
    BY <2>1, <2>4
  <2> QED
    BY <2>4, <2>5, <2>6, <2>7 DEF a, b, g
<1>5. /\ p \in Seq(Int) /\ Len(p) = Len(s) + 1 /\ p[1] = Len(s)
      /\ \A m \in 1..Len(s) : p[m + 1] = R!Rank(s[m])
      /\ q \in Seq(Int) /\ Len(q) = Len(t) + 1 /\ q[1] = Len(t)
      /\ \A m \in 1..Len(t) : q[m + 1] = R!Rank(t[m])
      /\ Len(s) \in Nat /\ Len(t) \in Nat
  <2>1. Len(s) \in Nat /\ Len(t) \in Nat
    BY <1>1, LenProperties
  <2> QED
    BY <1>1, <1>2, <1>4, <2>1
<1>6. CASE Len(s) # Len(t)
  <2>1. DifferAt(p, q, 1)
    BY <1>5, <1>6 DEF DifferAt
  <2>2. Settled(p, q)
    BY <1>5, <2>1 DEF Settled
  <2>3. R!KeyOrder(p, q) = R!Order(Len(s), Len(t))
    <3>1. 1 <= Len(p) /\ 1 <= Len(q) /\ p \in Seq(Int) /\ q \in Seq(Int)
      BY <1>5
    <3>2. R!KeyOrder(p, q) = R!Order(p[1], q[1])
      BY <2>1, <3>1, KeyOrderAt
    <3> QED
      BY <1>5, <3>2
  <2> QED
    BY <1>3, <1>5, <1>6, <2>2, <2>3 DEF p, q
<1>7. CASE Len(s) = Len(t)
  <2>1. PICK k \in 1..(Len(s) + 1) : DifferAt(s, t, k)
    BY <1>1, SomewhereDiffer
  <2>2. R!TextOrder(s, t) = IF k > Len(s) \/ k > Len(t) THEN R!Order(Len(s), Len(t))
                            ELSE R!Order(R!Rank(s[k]), R!Rank(t[k]))
    BY <1>1, <2>1, OrdersAt
  <2>3. \A m \in 1..(k - 1) : m \in 1..Len(s) /\ s[m] = t[m]
    <3>1. Len(s) \in Nat
      BY <1>5
    <3>2. \A m \in 1..(k - 1) : s[m] = t[m]
      BY <2>1 DEF DifferAt
    <3> QED
      BY <2>1, <3>1, <3>2
  <2>4. CASE k > Len(s)
    <3>0. k = Len(s) + 1
      BY <1>5, <2>1, <2>4
    <3>1. \A m \in 1..Len(s) : s[m] = t[m]
      BY <1>5, <2>3, <3>0
    <3>2. s = t
      BY <1>1, <1>7, <3>1, SeqEqual
    <3>3. p = q /\ R!TextOrder(s, t) = 0
      BY <1>2, <1>5, <2>2, <2>4, <3>2 DEF R!Order
    <3>4. R!KeyOrder(p, q) = 0
      BY <1>5, <3>3, ZeroMeansEqual
    <3> QED
      BY <1>3, <1>5, <1>7, <3>3, <3>4 DEF p, q
  <2>5. CASE k <= Len(s)
    <3>1. k \in 1..Len(s) /\ k \in 1..Len(t) /\ s[k] # t[k]
      BY <1>5, <1>7, <2>1, <2>5 DEF DifferAt
    <3>2. s[k] \in D /\ t[k] \in D
      BY <1>1, <3>1, ElementOfSeq
    <3>3. R!Rank(s[k]) # R!Rank(t[k])
      BY <1>1, <3>1, <3>2, RanksDiffer
    <3>4. p[k + 1] = R!Rank(s[k]) /\ q[k + 1] = R!Rank(t[k])
      BY <1>5, <3>1
    <3>5. ASSUME NEW m \in 1..k  PROVE m <= Len(q) /\ p[m] = q[m]
      <4>1. CASE m = 1
        BY <1>5, <1>7, <4>1
      <4>2. CASE m # 1
        <5>1. m - 1 \in 1..(k - 1) /\ (m - 1) + 1 = m
          BY <4>2
        <5>2. m - 1 \in 1..Len(s) /\ m - 1 \in 1..Len(t) /\ s[m - 1] = t[m - 1]
          BY <1>7, <2>3, <5>1
        <5>3. p[(m - 1) + 1] = R!Rank(s[m - 1]) /\ q[(m - 1) + 1] = R!Rank(t[m - 1])
          BY <1>5, <5>2
        <5>4. p[m] = q[m] /\ m <= Len(t) + 1
          BY <1>5, <5>1, <5>2, <5>3
        <5> QED
          BY <1>5, <5>4
      <4> QED
        BY <4>1, <4>2
    <3>6. DifferAt(p, q, k + 1) /\ k + 1 \in 1..Len(p) /\ k + 1 <= Len(q)
      BY <1>5, <1>7, <3>1, <3>3, <3>4, <3>5 DEF DifferAt
    <3>7. Settled(p, q)
      BY <3>6 DEF Settled
    <3>8. R!KeyOrder(p, q) = R!Order(p[k + 1], q[k + 1])
      <4>1. k + 1 <= Len(p) /\ k + 1 <= Len(q) /\ p \in Seq(Int) /\ q \in Seq(Int)
        BY <1>5, <3>6
      <4> QED
        BY <3>6, <4>1, KeyOrderAt
    <3> QED
      BY <1>3, <1>5, <1>7, <2>2, <3>1, <3>4, <3>7, <3>8 DEF p, q
  <2> QED
    BY <1>5, <2>1, <2>4, <2>5
<1> QED
  BY <1>6, <1>7

(* Texts of letters are in the order of their keys: the end is below any letter. *)
LEMMA LettersByKey ==
  ASSUME R!RpmVersionAssumption,
         NEW s \in Seq(R!CharsOf(Letters)), NEW t \in Seq(R!CharsOf(Letters))
  PROVE  /\ R!LettersKey(s) \in Seq(Int) /\ R!LettersKey(t) \in Seq(Int)
         /\ R!LettersKey(s) = R!LettersKey(t) \/ Settled(R!LettersKey(s), R!LettersKey(t))
         /\ R!TextOrder(s, t) = R!KeyOrder(R!LettersKey(s), R!LettersKey(t))
<1> DEFINE D == R!CharsOf(Letters)
           p == R!LettersKey(s)
           q == R!LettersKey(t)
<1>1. OneKind(D) /\ s \in Seq(D) /\ t \in Seq(D)
  BY DEF OneKind
<1>2. p = RanksOf(s) \o <<0>> /\ q = RanksOf(t) \o <<0>>
  BY DEF R!LettersKey, RanksOf
<1> HIDE DEF p, q, D
<1>4. ASSUME NEW u \in Seq(D)
      PROVE  /\ RanksOf(u) \o <<0>> \in Seq(Int)
             /\ Len(RanksOf(u) \o <<0>>) = Len(u) + 1
             /\ (RanksOf(u) \o <<0>>)[Len(u) + 1] = 0
             /\ \A m \in 1..Len(u) : /\ (RanksOf(u) \o <<0>>)[m] = R!Rank(u[m])
                                     /\ R!Rank(u[m]) \in Nat \ {0}
  <2> DEFINE a == <<0>>
             b == RanksOf(u)
  <2>1. a \in Seq(Int) /\ Len(a) = 1 /\ a[1] = 0 /\ Len(u) \in Nat
    BY LenProperties
  <2>2. /\ b \in Seq(Int) /\ Len(b) = Len(u)
        /\ \A m \in 1..Len(u) : b[m] = R!Rank(u[m]) /\ R!Rank(u[m]) \in Nat \ {0}
    BY <1>1, RanksAreNumbers
  <2> HIDE DEF a, b
  <2>3. /\ b \o a \in Seq(Int) /\ Len(b \o a) = Len(u) + 1
        /\ \A i \in 1..(Len(u) + 1) : (b \o a)[i] = IF i <= Len(u) THEN b[i] ELSE a[i - Len(u)]
    <3>1. /\ b \o a \in Seq(Int) /\ Len(b \o a) = Len(b) + Len(a)
          /\ \A i \in 1..(Len(b) + Len(a)) :
               (b \o a)[i] = IF i <= Len(b) THEN b[i] ELSE a[i - Len(b)]
      <4>1. b \in Seq(Int) /\ a \in Seq(Int)
        BY <2>1, <2>2
      <4> QED
        BY <4>1, ConcatProperties
    <3> QED
      BY <2>1, <2>2, <3>1
  <2>4. (b \o a)[Len(u) + 1] = 0
    <3>1. Len(u) + 1 \in 1..(Len(u) + 1) /\ ~(Len(u) + 1 <= Len(u)) /\ (Len(u) + 1) - Len(u) = 1
      BY <2>1
    <3> QED
      BY <2>1, <2>3, <3>1
  <2>5. \A m \in 1..Len(u) : (b \o a)[m] = R!Rank(u[m])
    BY <2>1, <2>2, <2>3
  <2> QED
    BY <2>2, <2>3, <2>4, <2>5 DEF a, b
<1>5. /\ p \in Seq(Int) /\ Len(p) = Len(s) + 1 /\ p[Len(s) + 1] = 0
      /\ \A m \in 1..Len(s) : p[m] = R!Rank(s[m]) /\ R!Rank(s[m]) \in Nat \ {0}
      /\ q \in Seq(Int) /\ Len(q) = Len(t) + 1 /\ q[Len(t) + 1] = 0
      /\ \A m \in 1..Len(t) : q[m] = R!Rank(t[m]) /\ R!Rank(t[m]) \in Nat \ {0}
      /\ Len(s) \in Nat /\ Len(t) \in Nat
  BY <1>1, <1>2, <1>4
<1>6. PICK k \in 1..(Len(s) + 1) : DifferAt(s, t, k)
  BY <1>1, SomewhereDiffer
<1>7. R!TextOrder(s, t) = IF k > Len(s) \/ k > Len(t) THEN R!Order(Len(s), Len(t))
                          ELSE R!Order(R!Rank(s[k]), R!Rank(t[k]))
  BY <1>1, <1>6, OrdersAt
<1>8. \A m \in 1..(k - 1) : m \in 1..Len(s) /\ m \in 1..Len(t) /\ s[m] = t[m]
  BY <1>5, <1>6, SMTT(30) DEF DifferAt
<1>9. k - 1 <= Len(s) /\ k - 1 <= Len(t)
  <2>1. CASE k = 1
    BY <1>5, <2>1
  <2>2. CASE k # 1
    <3>1. k - 1 \in 1..(k - 1)
      BY <2>2
    <3> QED
      BY <1>5, <1>8, <3>1
  <2> QED
    BY <2>1, <2>2
<1>10. ASSUME p[k] # q[k]
       PROVE  Settled(p, q) /\ R!KeyOrder(p, q) = R!Order(p[k], q[k])
  <2>1. k \in 1..Len(p) /\ k <= Len(q) /\ k \in 1..(Len(p) + 1)
    BY <1>5, <1>9
  <2>2. \A m \in 1..(k - 1) : m <= Len(q) /\ p[m] = q[m]
    BY <1>5, <1>8, <2>1
  <2>3. DifferAt(p, q, k)
    BY <1>10, <2>1, <2>2 DEF DifferAt
  <2>4. Settled(p, q)
    BY <2>1, <2>3 DEF Settled
  <2>5. k <= Len(p) /\ k <= Len(q) /\ p \in Seq(Int) /\ q \in Seq(Int)
    BY <1>5, <2>1
  <2> QED
    BY <2>3, <2>4, <2>5, KeyOrderAt
<1>11. CASE k > Len(s) /\ k > Len(t)
  <2>1. Len(s) = Len(t) /\ \A m \in 1..Len(s) : s[m] = t[m]
    BY <1>5, <1>8, <1>9, <1>11
  <2>2. s = t
    BY <1>1, <2>1, SeqEqual
  <2>3. p = q /\ R!TextOrder(s, t) = 0
    BY <1>2, <1>5, <1>7, <1>11, <2>1, <2>2 DEF R!Order
  <2> QED
    BY <1>5, <2>3, ZeroMeansEqual DEF p, q
<1>12. CASE k > Len(s) /\ k <= Len(t)
  <2>1. p[k] = 0 /\ q[k] = R!Rank(t[k]) /\ R!Rank(t[k]) \in Nat \ {0} /\ Len(s) < Len(t)
    BY <1>5, <1>9, <1>12
  <2> QED
    BY <1>5, <1>7, <1>10, <1>12, <2>1 DEF R!Order, p, q
<1>13. CASE k <= Len(s) /\ k > Len(t)
  <2>1. q[k] = 0 /\ p[k] = R!Rank(s[k]) /\ R!Rank(s[k]) \in Nat \ {0} /\ Len(t) < Len(s)
    BY <1>5, <1>9, <1>13
  <2> QED
    BY <1>5, <1>7, <1>10, <1>13, <2>1 DEF R!Order, p, q
<1>14. CASE k <= Len(s) /\ k <= Len(t)
  <2>1. k \in 1..Len(s) /\ k \in 1..Len(t) /\ s[k] # t[k]
    BY <1>6, <1>14 DEF DifferAt
  <2>2. s[k] \in D /\ t[k] \in D
    BY <1>1, <2>1, ElementOfSeq
  <2>3. R!Rank(s[k]) # R!Rank(t[k]) /\ p[k] = R!Rank(s[k]) /\ q[k] = R!Rank(t[k])
    BY <1>1, <1>5, <2>1, <2>2, RanksDiffer
  <2>4. R!TextOrder(s, t) = R!Order(p[k], q[k])
    BY <1>5, <1>6, <1>7, <1>14, <2>3, SMTT(30)
  <2> QED
    BY <1>5, <1>10, <2>3, <2>4 DEF p, q
<1> QED
  BY <1>5, <1>6, <1>11, <1>12, <1>13, <1>14

-----------------------------------------------------------------------------
(* One round of the loop, on one text. *)

LEMMA SubTextKind ==
  ASSUME NEW T, NEW s \in Seq(T), NEW k \in 1..(Len(s) + 1), NEW e \in k..(Len(s) + 1),
         NEW D, \A m \in k..(e - 1) : s[m] \in D
  PROVE  SubSeq(s, k, e - 1) \in Seq(D)
<1>1. k \in Int /\ e - 1 \in Int
  OBVIOUS
<1> QED
  BY <1>1, SubSeqProperties

LEMMA SegmentInside ==
  ASSUME NEW s \in Seq(R!Chars), NEW i \in 1..(Len(s) + 1)
  PROVE  /\ R!Segment(s, i) \in i..(Len(s) + 1)
         /\ R!Segment(s, i) = i /\ i <= Len(s) => s[i] \notin {"~", ".", "-", ":"}
<1>1. CASE R!Tilde(s, i)
  <2>1. i + 1 \in 1..(Len(s) + 1)
    BY <1>1 DEF R!Tilde
  <2>2. R!Stop(s, i + 1, {".", "-", ":"}) \in (i + 1)..(Len(s) + 1)
    BY <2>1, StopInside
  <2> QED
    BY <1>1, <2>2 DEF R!Segment
<1>2. CASE ~R!Tilde(s, i)
  <2>1. R!Segment(s, i) = R!Stop(s, i, {".", "-", ":"})
    BY <1>2 DEF R!Segment
  <2>2. /\ R!Stop(s, i, {".", "-", ":"}) \in i..(Len(s) + 1)
        /\ R!Stop(s, i, {".", "-", ":"}) <= Len(s)
             => s[R!Stop(s, i, {".", "-", ":"})] \notin {".", "-", ":"}
    BY StopInside
  <2> QED
    BY <1>2, <2>1, <2>2 DEF R!Tilde
<1> QED
  BY <1>1, <1>2

LEMMA RoundMoves ==
  ASSUME R!RpmVersionAssumption, NEW s \in Seq(R!Chars), NEW i \in 1..(Len(s) + 1)
  PROVE  /\ R!RoundKind(s, i) \in {"end", "number", "letters"}
         /\ R!RoundEnd(s, i) \in 1..(Len(s) + 1)
         /\ R!RoundKind(s, i) # "end" => i < R!RoundEnd(s, i)
         /\ R!RoundKind(s, i) = "number" => R!RoundText(s, i) \in Seq(R!CharsOf(Digits))
         /\ R!RoundKind(s, i) = "letters" => R!RoundText(s, i) \in Seq(R!CharsOf(Letters))
<1> DEFINE k == R!Segment(s, i)
           kind == R!RoundKind(s, i)
           D == R!KindCharacters(kind)
           e == R!RoundEnd(s, i)
<1>1. k \in i..(Len(s) + 1) /\ Len(s) \in Nat
      /\ (k = i /\ i <= Len(s) => s[i] \notin {"~", ".", "-", ":"})
  BY SegmentInside, LenProperties
<1>2. kind = R!Kind(s, k) /\ e = R!Stop(s, k, D)
  BY DEF R!RoundKind, R!RoundEnd
<1>3. R!RoundText(s, i) = SubSeq(s, k, e - 1)
  BY DEF R!RoundText
<1>4. /\ kind \in {"end", "number", "letters"}
      /\ kind # "end" => k <= Len(s)
      /\ kind = "number" => s[k] \in R!CharsOf(Digits)
      /\ kind = "letters" => s[k] \notin R!CharsOf(Digits)
  <2> HIDE DEF k
  <2>1. CASE k > Len(s)
    BY <1>1, <1>2, <2>1 DEF R!Kind
  <2>2. CASE k <= Len(s) /\ s[k] \in R!CharsOf(Digits)
    BY <1>1, <1>2, <2>2 DEF R!Kind
  <2>3. CASE k <= Len(s) /\ s[k] \notin R!CharsOf(Digits)
    BY <1>1, <1>2, <2>3 DEF R!Kind
  <2> QED
    BY <1>1, <2>1, <2>2, <2>3
<1>5. /\ kind = "number" => D = R!CharsOf(Digits)
      /\ kind = "letters" => D = R!CharsOf(Letters)
  BY DEF R!KindCharacters
<1> HIDE DEF k, kind, D, e
<1>6. k \in 1..(Len(s) + 1)
  BY <1>1
<1>7. /\ e \in k..(Len(s) + 1) /\ \A m \in k..(e - 1) : s[m] \in D
      /\ e <= Len(s) => s[e] \notin D
  BY <1>2, <1>6, StopInside
<1>8. SubSeq(s, k, e - 1) \in Seq(D)
  BY <1>6, <1>7, SubTextKind
<1>9. ASSUME kind # "end"  PROVE i < e
  <2>1. CASE i < k
    BY <1>1, <1>7, <2>1
  <2>2. CASE i = k
    <3>1. i <= Len(s) /\ s[i] \in R!Chars /\ s[i] \notin {"~", ".", "-", ":"}
      BY <1>1, <1>4, <1>9, <2>2, ElementOfSeq
    <3>2. s[i] \in D
      BY <1>4, <1>5, <1>9, <2>2, <3>1 DEF R!Chars
    <3> QED
      BY <1>7, <2>2, <3>1, <3>2
  <2> QED
    BY <1>1, <2>1, <2>2
<1>10. e \in 1..(Len(s) + 1)
  BY <1>6, <1>7
<1> QED
  BY <1>3, <1>4, <1>5, <1>8, <1>9, <1>10 DEF kind, e

(* The key of a round, and what two rounds are compared by. *)
LEMMA PairTyped ==
  ASSUME NEW a \in Int, NEW b \in Int
  PROVE  <<a, b>> \in Seq(Int) /\ Len(<<a, b>>) = 2 /\ <<a, b>>[1] = a /\ <<a, b>>[2] = b
OBVIOUS

Head2(s, i) == <<IF R!Tilde(s, i) THEN 0 ELSE 1, R!KindRank[R!RoundKind(s, i)]>>
Body(s, i) == R!SegmentKey(R!RoundKind(s, i), R!RoundText(s, i))

LEMMA RoundKeyTyped ==
  ASSUME R!RpmVersionAssumption, NEW s \in Seq(R!Chars), NEW i \in 1..(Len(s) + 1)
  PROVE  /\ Head2(s, i) \in Seq(Int) /\ Len(Head2(s, i)) = 2
         /\ Head2(s, i)[1] = (IF R!Tilde(s, i) THEN 0 ELSE 1)
         /\ Head2(s, i)[2] = R!KindRank[R!RoundKind(s, i)]
         /\ R!KindRank[R!RoundKind(s, i)] \in 0..2
         /\ Body(s, i) \in Seq(Int)
         /\ R!RoundKey(s, i) = Head2(s, i) \o Body(s, i) /\ R!RoundKey(s, i) \in Seq(Int)
<1> DEFINE a == IF R!Tilde(s, i) THEN 0 ELSE 1
           b == R!KindRank[R!RoundKind(s, i)]
<1>1. a \in Int
  OBVIOUS
<1>2. b \in 0..2
  BY RoundMoves DEF R!KindRank
<1>3. Head2(s, i) = <<a, b>>
  BY DEF Head2
<1> HIDE DEF a, b
<1>4. Head2(s, i) \in Seq(Int) /\ Len(Head2(s, i)) = 2 /\ Head2(s, i)[1] = a /\ Head2(s, i)[2] = b
  BY <1>1, <1>2, <1>3, PairTyped
<1>5. Body(s, i) \in Seq(Int)
  <2>1. CASE R!RoundKind(s, i) = "end"
    BY <2>1 DEF Body, R!SegmentKey
  <2>2. CASE R!RoundKind(s, i) = "number"
    <3>1. R!NumberKey(R!RoundText(s, i)) \in Seq(Int)
      BY <2>2, RoundMoves, NumbersByKey
    <3> QED
      BY <2>2, <3>1 DEF Body, R!SegmentKey
  <2>3. CASE R!RoundKind(s, i) = "letters"
    <3>1. R!LettersKey(R!RoundText(s, i)) \in Seq(Int)
      BY <2>3, RoundMoves, LettersByKey
    <3> QED
      BY <2>3, <3>1 DEF Body, R!SegmentKey
  <2> QED
    BY <2>1, <2>2, <2>3, RoundMoves
<1>6. R!RoundKey(s, i) = Head2(s, i) \o Body(s, i)
  BY DEF R!RoundKey, Head2, Body
<1>7. R!RoundKey(s, i) \in Seq(Int)
  BY <1>4, <1>5, <1>6, ConcatProperties
<1> QED
  BY <1>2, <1>4, <1>5, <1>6, <1>7 DEF a, b

(* How the program compares a round on the left with one on the right. *)
RoundOrder(s, i, t, j) ==
  IF R!Tilde(s, i) # R!Tilde(t, j) THEN IF R!Tilde(s, i) THEN -1 ELSE 1
  ELSE IF R!RoundKind(s, i) # R!RoundKind(t, j)
    THEN R!Order(R!KindRank[R!RoundKind(s, i)], R!KindRank[R!RoundKind(t, j)])
  ELSE IF R!RoundKind(s, i) = "end" THEN 0
  ELSE IF R!RoundKind(s, i) = "number"
    THEN R!NumberOrder(R!RoundText(s, i), R!RoundText(t, j))
  ELSE R!TextOrder(R!RoundText(s, i), R!RoundText(t, j))

(***************************************************************************)
(* Keys one after the other, as an operator of its own: facts about it are *)
(* instantiated without looking into the sequences.                        *)
(***************************************************************************)
Then(x, y) == x \o y

LEMMA ThenTyped ==
  \A x, y \in Seq(Int) :
    Then(x, y) \in Seq(Int) /\ Then(x, <<>>) = x /\ Then(<<>>, x) = x
<1> SUFFICES ASSUME NEW x \in Seq(Int), NEW y \in Seq(Int)
             PROVE  Then(x, y) \in Seq(Int) /\ Then(x, <<>>) = x /\ Then(<<>>, x) = x
  OBVIOUS
<1> QED
  BY ConcatProperties, ConcatEmptySeq DEF Then

LEMMA ThenAssociative ==
  \A x, y, z \in Seq(Int) : Then(Then(x, y), z) = Then(x, Then(y, z))
<1> SUFFICES ASSUME NEW x \in Seq(Int), NEW y \in Seq(Int), NEW z \in Seq(Int)
             PROVE  Then(Then(x, y), z) = Then(x, Then(y, z))
  OBVIOUS
<1> QED
  BY ConcatAssociative, SMTT(30) DEF Then

LEMMA DecidedFirst ==
  \A p, q, x, y \in Seq(Int) :
    /\ Settled(p, q) => /\ R!KeyOrder(Then(p, x), Then(q, y)) = R!KeyOrder(p, q)
                        /\ R!KeyOrder(p, q) # 0
    /\ p = q => R!KeyOrder(Then(p, x), Then(q, y)) = R!KeyOrder(x, y)
<1> SUFFICES ASSUME NEW p \in Seq(Int), NEW q \in Seq(Int),
                    NEW x \in Seq(Int), NEW y \in Seq(Int)
             PROVE  /\ Settled(p, q) => /\ R!KeyOrder(Then(p, x), Then(q, y)) = R!KeyOrder(p, q)
                                        /\ R!KeyOrder(p, q) # 0
                    /\ p = q => R!KeyOrder(Then(p, x), Then(q, y)) = R!KeyOrder(x, y)
  OBVIOUS
<1> QED
  BY SettledFirst, SameFirst DEF Then

LEMMA PartsInTurn ==
  ASSUME NEW p \in Seq(Int), NEW q \in Seq(Int), NEW x \in Seq(Int), NEW y \in Seq(Int),
         p = q \/ Settled(p, q)
  PROVE  R!KeyOrder(Then(p, x), Then(q, y))
           = IF R!KeyOrder(p, q) # 0 THEN R!KeyOrder(p, q) ELSE R!KeyOrder(x, y)
BY DecidedFirst, ZeroMeansEqual

LEMMA RoundsByKey ==
  ASSUME R!RpmVersionAssumption,
         NEW s \in Seq(R!Chars), NEW i \in 1..(Len(s) + 1),
         NEW t \in Seq(R!Chars), NEW j \in 1..(Len(t) + 1),
         NEW x \in Seq(Int), NEW y \in Seq(Int)
  PROVE  /\ R!KeyOrder(Then(R!RoundKey(s, i), x), Then(R!RoundKey(t, j), y))
              = IF RoundOrder(s, i, t, j) # 0 THEN RoundOrder(s, i, t, j) ELSE R!KeyOrder(x, y)
         /\ RoundOrder(s, i, t, j) = 0 => R!RoundKind(s, i) = R!RoundKind(t, j)
<1> DEFINE p == Head2(s, i)
           q == Head2(t, j)
           b == Body(s, i)
           c == Body(t, j)
           r == RoundOrder(s, i, t, j)
<1>1. /\ p \in Seq(Int) /\ Len(p) = 2 /\ p[1] = (IF R!Tilde(s, i) THEN 0 ELSE 1)
      /\ p[2] = R!KindRank[R!RoundKind(s, i)] /\ p[2] \in 0..2
      /\ q \in Seq(Int) /\ Len(q) = 2 /\ q[1] = (IF R!Tilde(t, j) THEN 0 ELSE 1)
      /\ q[2] = R!KindRank[R!RoundKind(t, j)] /\ q[2] \in 0..2
  BY RoundKeyTyped
<1>2. b \in Seq(Int) /\ c \in Seq(Int)
  BY RoundKeyTyped
<1>3. /\ Then(R!RoundKey(s, i), x) = Then(p, Then(b, x))
      /\ Then(R!RoundKey(t, j), y) = Then(q, Then(c, y))
      /\ Then(b, x) \in Seq(Int) /\ Then(c, y) \in Seq(Int)
  <2>1. R!RoundKey(s, i) = Then(p, b) /\ R!RoundKey(t, j) = Then(q, c)
    BY RoundKeyTyped DEF Then
  <2> HIDE DEF p, q, b, c
  <2> QED
    BY <1>1, <1>2, <2>1, ThenAssociative, ThenTyped
<1>4. R!RoundKind(s, i) \in {"end", "number", "letters"}
      /\ R!RoundKind(t, j) \in {"end", "number", "letters"}
  BY RoundMoves
<1> HIDE DEF p, q, b, c
<1>5. ASSUME NEW k \in 1..2, DifferAt(p, q, k), R!Order(p[k], q[k]) = r,
             r # 0
      PROVE  R!KeyOrder(Then(p, Then(b, x)), Then(q, Then(c, y))) = r
  <2>0. k \in 1..Len(p) /\ k <= Len(p) /\ k <= Len(q) /\ p \in Seq(Int) /\ q \in Seq(Int)
    BY <1>1
  <2>1. Settled(p, q)
    BY <1>5, <2>0 DEF Settled
  <2>2. R!KeyOrder(p, q) = r
    <3>1. R!KeyOrder(p, q) = R!Order(p[k], q[k])
      BY <1>5, <2>0, KeyOrderAt
    <3> QED
      BY <1>5, <3>1
  <2> QED
    <3>1. R!KeyOrder(Then(p, Then(b, x)), Then(q, Then(c, y))) = R!KeyOrder(p, q)
      BY <1>1, <1>3, <2>1, DecidedFirst
    <3> QED
      BY <2>2, <3>1
<1>6. CASE R!Tilde(s, i) # R!Tilde(t, j)
  <2>0. \/ R!Tilde(s, i) /\ ~R!Tilde(t, j) /\ p[1] = 0 /\ q[1] = 1 /\ r = -1
        \/ ~R!Tilde(s, i) /\ R!Tilde(t, j) /\ p[1] = 1 /\ q[1] = 0 /\ r = 1
    <3>1. R!Tilde(s, i) \in BOOLEAN /\ R!Tilde(t, j) \in BOOLEAN
      BY DEF R!Tilde
    <3>2. CASE R!Tilde(s, i)
      <4>1. ~R!Tilde(t, j)
        BY <1>6, <3>1, <3>2, Zenon
      <4> QED
        BY <1>1, <1>6, <3>2, <4>1 DEF RoundOrder
    <3>3. CASE ~R!Tilde(s, i)
      <4>1. R!Tilde(t, j)
        BY <1>6, <3>1, <3>3, Zenon
      <4> QED
        BY <1>1, <1>6, <3>3, <4>1 DEF RoundOrder
    <3> QED
      BY <3>2, <3>3
  <2>1. DifferAt(p, q, 1)
    BY <1>1, <2>0 DEF DifferAt
  <2>2. R!Order(p[1], q[1]) = r /\ r # 0
    BY <2>0 DEF R!Order
  <2> QED
    BY <1>3, <1>5, <2>1, <2>2
<1>7. CASE R!Tilde(s, i) = R!Tilde(t, j) /\ R!RoundKind(s, i) # R!RoundKind(t, j)
  <2>1. p[1] = q[1]
    BY <1>1, <1>7
  <2>2. p[2] # q[2]
    BY <1>1, <1>4, <1>7 DEF R!KindRank
  <2>3. DifferAt(p, q, 2)
    BY <1>1, <2>1, <2>2 DEF DifferAt
  <2>4. R!Order(p[2], q[2]) = r
    BY <1>1, <1>7 DEF RoundOrder
  <2>5. r # 0
    BY <1>1, <2>2, <2>4 DEF R!Order
  <2> QED
    BY <1>3, <1>5, <2>3, <2>4, <2>5
<1>8. CASE R!Tilde(s, i) = R!Tilde(t, j) /\ R!RoundKind(s, i) = R!RoundKind(t, j)
  <2>1. p = q
    <3>1. \A m \in 1..Len(p) : p[m] = q[m]
      BY <1>1, <1>8
    <3> QED
      BY <1>1, <3>1, SeqEqual
  <2>2. (b = c \/ Settled(b, c)) /\ R!KeyOrder(b, c) = r
    <3>1. CASE R!RoundKind(s, i) = "end"
      <4>1. b = <<>> /\ c = <<>>
        BY <1>8, <3>1 DEF b, c, Body, R!SegmentKey
      <4>2. R!KeyOrder(b, c) = 0
        BY <1>2, <4>1, ZeroMeansEqual
      <4> QED
        BY <1>8, <3>1, <4>1, <4>2 DEF RoundOrder
    <3>2. CASE R!RoundKind(s, i) = "number"
      <4>1. /\ b = R!NumberKey(R!RoundText(s, i)) /\ c = R!NumberKey(R!RoundText(t, j))
            /\ R!RoundText(s, i) \in Seq(R!CharsOf(Digits))
            /\ R!RoundText(t, j) \in Seq(R!CharsOf(Digits))
        BY <1>8, <3>2, RoundMoves DEF b, c, Body, R!SegmentKey
      <4>2. r = R!NumberOrder(R!RoundText(s, i), R!RoundText(t, j))
        BY <1>8, <3>2 DEF RoundOrder
      <4> QED
        BY <4>1, <4>2, NumbersByKey
    <3>3. CASE R!RoundKind(s, i) = "letters"
      <4>1. /\ b = R!LettersKey(R!RoundText(s, i)) /\ c = R!LettersKey(R!RoundText(t, j))
            /\ R!RoundText(s, i) \in Seq(R!CharsOf(Letters))
            /\ R!RoundText(t, j) \in Seq(R!CharsOf(Letters))
        BY <1>8, <3>3, RoundMoves DEF b, c, Body, R!SegmentKey
      <4>2. r = R!TextOrder(R!RoundText(s, i), R!RoundText(t, j))
        BY <1>8, <3>3 DEF RoundOrder
      <4> QED
        BY <4>1, <4>2, LettersByKey
    <3> QED
      BY <1>4, <3>1, <3>2, <3>3
  <2>3. R!KeyOrder(Then(p, Then(b, x)), Then(q, Then(c, y))) = R!KeyOrder(Then(b, x), Then(c, y))
    BY <1>1, <1>3, <2>1, DecidedFirst
  <2> QED
    BY <1>2, <1>3, <1>8, <2>2, <2>3, PartsInTurn
<1> QED
  BY <1>6, <1>7, <1>8

(***************************************************************************)
(* The key of what is left of a text exists: a round ends behind its       *)
(* start, so from the end of the text backwards every key is known.        *)
(***************************************************************************)
Rest(s, f, i) == IF R!RoundKind(s, i) = "end" THEN <<>> ELSE f[R!RoundEnd(s, i)]

LEMMA KeysExist ==
  ASSUME R!RpmVersionAssumption, NEW s \in Seq(R!Chars)
  PROVE  /\ DOMAIN R!KeyFrom(s) = 1..(Len(s) + 1)
         /\ \A i \in 1..(Len(s) + 1) :
              R!KeyFrom(s)[i] = Then(R!RoundKey(s, i), Rest(s, R!KeyFrom(s), i))
<1> DEFINE n == Len(s) + 1
           At(f, i) == Then(R!RoundKey(s, i), Rest(s, f, i))
           Fits(f, m) == f = [i \in m..n |-> At(f, i)]
<1>1. n \in Nat /\ n >= 1
  BY LenProperties
<1>2. \A i \in 1..n : R!RoundKind(s, i) # "end" => R!RoundEnd(s, i) \in (i + 1)..n
  <2> SUFFICES ASSUME NEW i \in 1..n, R!RoundKind(s, i) # "end"
               PROVE  R!RoundEnd(s, i) \in (i + 1)..n
    OBVIOUS
  <2>1. R!RoundEnd(s, i) \in 1..n /\ i < R!RoundEnd(s, i)
    BY RoundMoves
  <2> QED
    BY <1>1, <2>1
<1> HIDE DEF n
<1>3. \E f : Fits(f, 1)
  <2> SUFFICES ASSUME ~\E f : Fits(f, 1)  PROVE FALSE
    OBVIOUS
  <2> DEFINE Without == {d \in 0..n : ~\E f : Fits(f, n + 1 - d)}
  <2>1. PICK d \in Without : \A k \in Without : d <= k
    <3>1. n \in 0..n /\ n + 1 - n = 1
      BY <1>1
    <3>2. n \in Without
      BY <3>1
    <3>3. Without \subseteq Nat
      BY <1>1
    <3> HIDE DEF Without
    <3> QED
      BY <3>2, <3>3, LeastNumber
  <2>2. d \in 0..n /\ ~\E f : Fits(f, n + 1 - d)
    BY <2>1
  <2>3. d # 0
    <3>1. Fits([i \in (n + 1)..n |-> <<>>], n + 1)
      <4>1. (n + 1)..n = {}
        BY <1>1
      <4> QED
        BY <4>1
    <3>2. n + 1 - 0 = n + 1
      BY <1>1
    <3> HIDE DEF Fits
    <3> QED
      BY <2>2, <3>1, <3>2
  <2> DEFINE m == n + 1 - d
  <2>4. m \in 1..n /\ m + 1 = n + 1 - (d - 1) /\ d - 1 \in 0..n
    BY <1>1, <2>2, <2>3
  <2>5. \E f : Fits(f, m + 1)
    <3>1. d - 1 \notin Without
      <4> HIDE DEF Without
      <4> QED
        BY <1>1, <2>1, <2>2, <2>4
    <3> HIDE DEF Fits, m
    <3> QED
      BY <2>4, <3>1
  <2> HIDE DEF m, Without
  <2>6. PICK f : Fits(f, m + 1)
    BY <2>5
  <2> DEFINE g == [i \in m..n |-> IF i > m THEN f[i] ELSE At(f, m)]
  <2>7. \A i \in m..n : i \in 1..n /\ (i > m => i \in (m + 1)..n) /\ (~(i > m) => i = m)
    BY <1>1, <2>4
  <2>8. ASSUME NEW i \in m..n  PROVE At(g, i) = At(f, i)
    <3>1. CASE R!RoundKind(s, i) = "end"
      BY <3>1 DEF Rest
    <3>2. CASE R!RoundKind(s, i) # "end"
      <4>1. R!RoundEnd(s, i) \in (i + 1)..n
        BY <1>2, <2>7, <3>2
      <4>2. R!RoundEnd(s, i) \in m..n /\ R!RoundEnd(s, i) > m
        BY <1>1, <2>4, <4>1
      <4>3. g[R!RoundEnd(s, i)] = f[R!RoundEnd(s, i)]
        BY <4>2
      <4> QED
        BY <3>2, <4>3 DEF Rest
    <3> QED
      BY <3>1, <3>2
  <2>9. ASSUME NEW i \in m..n  PROVE g[i] = At(f, i)
    <3>1. CASE i > m
      <4>1. i \in (m + 1)..n
        BY <2>7, <3>1
      <4>2. f[i] = At(f, i)
        BY <2>6, <4>1
      <4>3. g[i] = f[i]
        BY <3>1
      <4> HIDE DEF g, At
      <4> QED
        BY <4>2, <4>3
    <3>2. CASE ~(i > m)
      BY <2>7, <3>2
    <3> QED
      BY <3>1, <3>2
  <2>10. Fits(g, m)
    <3>1. g = [i \in m..n |-> g[i]]
      OBVIOUS
    <3> HIDE DEF g, At
    <3> QED
      BY <2>8, <2>9, <3>1
  <2> HIDE DEF Fits, g
  <2> QED
    BY <2>2, <2>10 DEF m
<1>4. R!KeyFrom(s) = [i \in 1..n |-> At(R!KeyFrom(s), i)]
  <2> DEFINE h == CHOOSE f : Fits(f, 1)
  <2>1. Fits(h, 1)
    BY <1>3
  <2>2. R!KeyFrom(s) = h
    BY DEF R!KeyFrom, Then, Rest, n
  <2> HIDE DEF h
  <2> QED
    BY <2>1, <2>2
<1> HIDE DEF At
<1>5. DOMAIN R!KeyFrom(s) = 1..n /\ \A i \in 1..n : R!KeyFrom(s)[i] = At(R!KeyFrom(s), i)
  <2> DEFINE h == R!KeyFrom(s)
  <2>1. h = [i \in 1..n |-> At(h, i)]
    BY <1>4
  <2> HIDE DEF h
  <2>2. DOMAIN h = 1..n /\ \A i \in 1..n : h[i] = At(h, i)
    BY <2>1
  <2> QED
    BY <2>2 DEF h
<1> QED
  BY <1>5 DEF At, n

(* And it is made of numbers. *)
LEMMA KeysTyped ==
  ASSUME R!RpmVersionAssumption, NEW s \in Seq(R!Chars), NEW i \in 1..(Len(s) + 1)
  PROVE  R!KeyFrom(s)[i] \in Seq(Int)
<1> SUFFICES ASSUME R!KeyFrom(s)[i] \notin Seq(Int)  PROVE FALSE
  OBVIOUS
<1> DEFINE n == Len(s) + 1
           h == R!KeyFrom(s)
           Others == {d \in 0..n : n - d \in 1..n /\ h[n - d] \notin Seq(Int)}
<1>1. n \in Nat /\ i \in 1..n
  BY LenProperties
<1>2. PICK d \in Others : \A k \in Others : d <= k
  <2> HIDE DEF h
  <2>1. n - i \in 0..n /\ n - (n - i) = i
    BY <1>1
  <2>2. n - i \in Others
    BY <1>1, <2>1 DEF h
  <2>3. Others \subseteq Nat
    BY <1>1
  <2> HIDE DEF Others
  <2> QED
    BY <2>2, <2>3, LeastNumber
<1> DEFINE m == n - d
<1> HIDE DEF h
<1>3. d \in 0..n /\ m \in 1..n /\ h[m] \notin Seq(Int)
  BY <1>2
<1>4. h[m] = Then(R!RoundKey(s, m), Rest(s, h, m)) /\ R!RoundKey(s, m) \in Seq(Int)
  BY <1>3, KeysExist, RoundKeyTyped DEF h
<1>5. Rest(s, h, m) \in Seq(Int)
  <2>1. CASE R!RoundKind(s, m) = "end"
    BY <2>1 DEF Rest
  <2>2. CASE R!RoundKind(s, m) # "end"
    <3> DEFINE e == R!RoundEnd(s, m)
    <3>1. e \in 1..n /\ m < e
      BY <1>3, <2>2, RoundMoves
    <3> HIDE DEF e
    <3>2. n - e \in 0..n /\ n - (n - e) = e /\ ~(d <= n - e)
      BY <1>1, <1>3, <3>1
    <3>3. n - e \notin Others
      <4> HIDE DEF Others
      <4> QED
        BY <1>2, <3>2
    <3>4. h[e] \in Seq(Int)
      BY <3>1, <3>2, <3>3
    <3> QED
      BY <2>2, <3>4 DEF Rest, e
  <2> QED
    BY <2>1, <2>2
<1> QED
  BY <1>3, <1>4, <1>5, ThenTyped

(* What one round decides of the keys of what is left. *)
LEMMA RoundDecides ==
  ASSUME R!RpmVersionAssumption,
         NEW s \in Seq(R!Chars), NEW i \in 1..(Len(s) + 1),
         NEW t \in Seq(R!Chars), NEW j \in 1..(Len(t) + 1),
         NEW x \in Seq(Int), NEW y \in Seq(Int)
  PROVE  /\ RoundOrder(s, i, t, j) # 0 =>
              R!KeyOrder(Then(R!KeyFrom(s)[i], x), Then(R!KeyFrom(t)[j], y)) = RoundOrder(s, i, t, j)
         /\ RoundOrder(s, i, t, j) = 0 =>
              /\ R!RoundKind(s, i) = R!RoundKind(t, j)
              /\ R!KeyOrder(Then(R!KeyFrom(s)[i], x), Then(R!KeyFrom(t)[j], y))
                   = IF R!RoundKind(s, i) = "end" THEN R!KeyOrder(x, y)
                     ELSE R!KeyOrder(Then(R!KeyFrom(s)[R!RoundEnd(s, i)], x),
                                     Then(R!KeyFrom(t)[R!RoundEnd(t, j)], y))
<1>1. ASSUME NEW u \in Seq(R!Chars), NEW k \in 1..(Len(u) + 1), NEW z \in Seq(Int)
      PROVE  /\ Rest(u, R!KeyFrom(u), k) \in Seq(Int) /\ R!RoundKey(u, k) \in Seq(Int)
             /\ Then(R!KeyFrom(u)[k], z)
                  = Then(R!RoundKey(u, k), Then(Rest(u, R!KeyFrom(u), k), z))
             /\ Then(Rest(u, R!KeyFrom(u), k), z) \in Seq(Int)
             /\ Then(Rest(u, R!KeyFrom(u), k), z)
                  = IF R!RoundKind(u, k) = "end" THEN z
                    ELSE Then(R!KeyFrom(u)[R!RoundEnd(u, k)], z)
  <2>1. R!KeyFrom(u)[k] = Then(R!RoundKey(u, k), Rest(u, R!KeyFrom(u), k))
    BY KeysExist
  <2>2. R!RoundKey(u, k) \in Seq(Int)
    BY RoundKeyTyped
  <2>3. Rest(u, R!KeyFrom(u), k) \in Seq(Int)
    <3>1. R!RoundEnd(u, k) \in 1..(Len(u) + 1)
      BY RoundMoves
    <3>2. R!KeyFrom(u)[R!RoundEnd(u, k)] \in Seq(Int)
      BY <3>1, KeysTyped
    <3>3. <<>> \in Seq(Int)
      OBVIOUS
    <3> QED
      BY <3>2, <3>3 DEF Rest
  <2>4. Then(Rest(u, R!KeyFrom(u), k), z) \in Seq(Int)
    BY <2>3, ThenTyped
  <2>5. Then(Rest(u, R!KeyFrom(u), k), z)
          = IF R!RoundKind(u, k) = "end" THEN z ELSE Then(R!KeyFrom(u)[R!RoundEnd(u, k)], z)
    BY ThenTyped DEF Rest
  <2> QED
    BY <2>1, <2>2, <2>3, <2>4, <2>5, ThenAssociative
<1> DEFINE a == Then(Rest(s, R!KeyFrom(s), i), x)
           b == Then(Rest(t, R!KeyFrom(t), j), y)
<1>2. /\ a \in Seq(Int) /\ b \in Seq(Int)
      /\ Then(R!KeyFrom(s)[i], x) = Then(R!RoundKey(s, i), a)
      /\ Then(R!KeyFrom(t)[j], y) = Then(R!RoundKey(t, j), b)
      /\ a = IF R!RoundKind(s, i) = "end" THEN x ELSE Then(R!KeyFrom(s)[R!RoundEnd(s, i)], x)
      /\ b = IF R!RoundKind(t, j) = "end" THEN y ELSE Then(R!KeyFrom(t)[R!RoundEnd(t, j)], y)
  BY <1>1
<1> HIDE DEF a, b
<1>3. /\ R!KeyOrder(Then(R!RoundKey(s, i), a), Then(R!RoundKey(t, j), b))
           = IF RoundOrder(s, i, t, j) # 0 THEN RoundOrder(s, i, t, j) ELSE R!KeyOrder(a, b)
      /\ RoundOrder(s, i, t, j) = 0 => R!RoundKind(s, i) = R!RoundKind(t, j)
  BY <1>2, RoundsByKey
<1> QED
  BY <1>2, <1>3

LEMMA NothingIsNothing == R!TextOrder(<<>>, <<>>) = 0
<1> DEFINE e == <<>>
<1>1. e \in Seq(Int) /\ Len(e) = 0
  OBVIOUS
<1> HIDE DEF e
<1>2. DifferAt(e, e, 1)
  BY <1>1 DEF DifferAt
<1>3. R!TextOrder(e, e) = IF 1 > Len(e) \/ 1 > Len(e) THEN R!Order(Len(e), Len(e))
                          ELSE R!Order(R!Rank(e[1]), R!Rank(e[1]))
  BY <1>1, <1>2, OrdersAt
<1>4. R!TextOrder(e, e) = R!Order(0, 0)
  BY <1>1, <1>3
<1> QED
  BY <1>4 DEF R!Order, e

(* What CompareSegment computes of the two texts is the order of the rounds. *)
LEMMA SegmentsByRound ==
  ASSUME R!RpmVersionAssumption,
         NEW s \in Seq(R!Chars), NEW i \in 1..(Len(s) + 1),
         NEW t \in Seq(R!Chars), NEW j \in 1..(Len(t) + 1),
         R!Tilde(s, i) = R!Tilde(t, j),
         NEW n, n = R!Stop(t, R!Segment(t, j), R!KindCharacters(R!RoundKind(s, i)))
  PROVE  /\ R!RoundKind(s, i) = R!RoundKind(t, j) => n = R!RoundEnd(t, j)
         /\ (IF R!RoundKind(s, i) # R!RoundKind(t, j)
               THEN R!Order(R!KindRank[R!RoundKind(s, i)], R!KindRank[R!RoundKind(t, j)])
             ELSE IF R!RoundKind(s, i) = "number"
               THEN R!NumberOrder(R!RoundText(s, i), SubSeq(t, R!Segment(t, j), n - 1))
             ELSE R!TextOrder(R!RoundText(s, i), SubSeq(t, R!Segment(t, j), n - 1)))
              = RoundOrder(s, i, t, j)
<1>1. R!RoundKind(s, i) = R!RoundKind(t, j) =>
        /\ n = R!RoundEnd(t, j)
        /\ SubSeq(t, R!Segment(t, j), n - 1) = R!RoundText(t, j)
  BY DEF R!RoundEnd, R!RoundText
<1>2. ASSUME NEW u \in Seq(R!Chars), NEW k \in 1..(Len(u) + 1), R!RoundKind(u, k) = "end"
      PROVE  R!RoundText(u, k) = <<>>
  <2> DEFINE c == R!Segment(u, k)
             e == R!RoundEnd(u, k)
  <2>1. c \in k..(Len(u) + 1) /\ Len(u) \in Nat
    BY SegmentInside, LenProperties
  <2>2. c > Len(u)
    BY <1>2, <2>1 DEF R!RoundKind, R!Kind
  <2>3. e \in 1..(Len(u) + 1)
    BY RoundMoves
  <2>4. R!RoundText(u, k) = SubSeq(u, c, e - 1)
    BY DEF R!RoundText
  <2> HIDE DEF c, e
  <2>5. c \in Int /\ e - 1 \in Int /\ e - 1 < c
    BY <2>1, <2>2, <2>3
  <2> QED
    BY <2>4, <2>5, SubSeqEmpty
<1>3. R!RoundKind(s, i) = "end" /\ R!RoundKind(t, j) = "end"
        => R!TextOrder(R!RoundText(s, i), R!RoundText(t, j)) = 0
  BY <1>2, NothingIsNothing
<1>4. R!RoundKind(s, i) \in {"end", "number", "letters"}
  BY RoundMoves
<1> QED
  BY <1>1, <1>3, <1>4 DEF RoundOrder


-----------------------------------------------------------------------------
(* The epoch is made of digits. *)
LEMMA EpochIsNumber ==
  ASSUME NEW s \in Seq(R!Chars)
  PROVE  R!PartOf(s, "epoch") \in Seq(R!CharsOf(Digits))
<1> DEFINE D == R!CharsOf(Digits)
           k == R!Stop(s, 1, D)
           e == R!EpochEnd(s)
<1>1. Len(s) \in Nat /\ 1 \in 1..(Len(s) + 1)
  BY LenProperties
<1>2. k \in 1..(Len(s) + 1) /\ \A m \in 1..(k - 1) : s[m] \in D
  BY <1>1, StopInside
<1>3. e = k \/ e = 0
  BY DEF R!EpochEnd
<1>4. R!PartOf(s, "epoch") = SubSeq(s, 1, e - 1)
  BY DEF R!PartOf
<1> HIDE DEF D, k, e
<1>5. e - 1 \in Int /\ \A m \in 1..(e - 1) : s[m] \in D
  BY <1>1, <1>2, <1>3
<1>6. SubSeq(s, 1, e - 1) \in Seq(D)
  BY <1>5, SubSeqProperties
<1> QED
  BY <1>4, <1>6 DEF D

(* The key of a version is that of its epoch, its version and its release. *)
LEMMA KeyOfParts ==
  ASSUME R!RpmVersionAssumption, NEW s \in Seq(R!Chars)
  PROVE  /\ R!NumberKey(R!PartOf(s, "epoch")) \in Seq(Int)
         /\ R!LoopKey(R!PartOf(s, "version")) \in Seq(Int)
         /\ R!LoopKey(R!PartOf(s, "release")) \in Seq(Int)
         /\ R!Key(s) \in Seq(Int)
         /\ R!Key(s) = Then(R!NumberKey(R!PartOf(s, "epoch")),
                            Then(R!LoopKey(R!PartOf(s, "version")),
                                 R!LoopKey(R!PartOf(s, "release"))))
<1> DEFINE x == R!NumberKey(R!PartOf(s, "epoch"))
           y == R!LoopKey(R!PartOf(s, "version"))
           z == R!LoopKey(R!PartOf(s, "release"))
<1>1. x \in Seq(Int)
  BY EpochIsNumber, NumbersByKey
<1>2. ASSUME NEW p \in {"version", "release"}  PROVE R!LoopKey(R!PartOf(s, p)) \in Seq(Int)
  <2>1. R!PartOf(s, p) \in Seq(R!Chars)
    BY PartInside
  <2>2. 1 \in 1..(Len(R!PartOf(s, p)) + 1)
    BY <2>1, LenProperties
  <2> QED
    BY <2>1, <2>2, KeysTyped DEF R!LoopKey
<1>3. y \in Seq(Int) /\ z \in Seq(Int)
  BY <1>2
<1>4. R!Key(s) = Then(Then(x, y), z)
  BY DEF R!Key, Then
<1> HIDE DEF x, y, z
<1>5. R!Key(s) = Then(x, Then(y, z)) /\ R!Key(s) \in Seq(Int)
  BY <1>1, <1>3, <1>4, ThenAssociative, ThenTyped
<1> QED
  BY <1>1, <1>3, <1>5 DEF x, y, z

(***************************************************************************)
(* The keys of the two versions are in the order of what is left of them,  *)
(* and when nothing is left to compare, the result is that order.          *)
(***************************************************************************)
KeyAfter(s, p) == IF p = "version" THEN R!LoopKey(R!PartOf(s, "release")) ELSE <<>>
KeyLeft(s, p, i) == Then(R!KeyFrom(R!PartOf(s, p))[i], KeyAfter(s, p))
KeysOrder == R!KeyOrder(R!Key(texts.left), R!Key(texts.right))

KeysAgree ==
  /\ part \in {"version", "release"} =>
       KeysOrder = R!KeyOrder(KeyLeft(texts.left, part, at[1]), KeyLeft(texts.right, part, at[2]))
  /\ part = "done" => result = KeysOrder

(* A part that is decided. *)
LEMMA DecideAgrees ==
  ASSUME ServicesAssumption, VersionsInv, NEW r \in {-1, 0, 1}, R!Decide(r),
         part \in {"epoch", "version", "release"},
         r # 0 => KeysOrder = r,
         r = 0 /\ part = "epoch" =>
           KeysOrder = R!KeyOrder(KeyLeft(texts.left, "version", 1), KeyLeft(texts.right, "version", 1)),
         r = 0 /\ part = "version" =>
           KeysOrder = R!KeyOrder(R!LoopKey(R!PartOf(texts.left, "release")),
                                  R!LoopKey(R!PartOf(texts.right, "release"))),
         r = 0 /\ part = "release" => KeysOrder = 0
  PROVE  KeysAgree'
<1>1. UNCHANGED texts /\ at' = <<1, 1>> /\ result' = r
      /\ part' = IF r = 0 THEN R!NextPart[part] ELSE "done"
  BY DEF R!Decide
<1>2. KeysOrder' = KeysOrder
  BY <1>1 DEF KeysOrder
<1>3. CASE r # 0
  BY <1>1, <1>2, <1>3 DEF KeysAgree
<1>4. CASE r = 0 /\ part = "epoch"
  BY <1>1, <1>2, <1>4 DEF KeysAgree, R!NextPart
<1>5. CASE r = 0 /\ part = "version"
  <2>1. /\ texts.left \in Seq(R!Chars) /\ texts.right \in Seq(R!Chars)
    BY TextShape DEF ServicesAssumption, R!RpmVersionAssumption, VersionsInv, R!TypeOK
  <2>2. ASSUME NEW s \in Seq(R!Chars)
        PROVE  KeyLeft(s, "release", 1) = R!LoopKey(R!PartOf(s, "release"))
    <3>1. R!LoopKey(R!PartOf(s, "release")) \in Seq(Int)
      BY KeyOfParts DEF ServicesAssumption
    <3> QED
      BY <3>1, ThenTyped DEF KeyLeft, KeyAfter, R!LoopKey
  <2>3. part' = "release" /\ at'[1] = 1 /\ at'[2] = 1
    BY <1>1, <1>5 DEF R!NextPart
  <2> QED
    BY <1>1, <1>2, <1>5, <2>1, <2>2, <2>3 DEF KeysAgree
<1>6. CASE r = 0 /\ part = "release"
  BY <1>1, <1>2, <1>6 DEF KeysAgree, R!NextPart
<1> QED
  BY <1>3, <1>4, <1>5, <1>6

LEMMA KeysStep ==
  ASSUME ServicesAssumption, VersionsInv, KeysAgree, [R!Next]_versions
  PROVE  KeysAgree'
<1> DEFINE s == R!L
           t == R!R
           i == at[1]
           j == at[2]
           x == KeyAfter(texts.left, part)
           y == KeyAfter(texts.right, part)
           r == RoundOrder(s, i, t, j)
<1>1. /\ texts.left \in Seq(R!Chars) /\ texts.right \in Seq(R!Chars) /\ R!RpmVersionAssumption
  BY TextShape DEF ServicesAssumption, R!RpmVersionAssumption, VersionsInv, R!TypeOK
<1>2. ASSUME part \in {"version", "release"}
      PROVE  /\ s \in Seq(R!Chars) /\ i \in 1..(Len(s) + 1)
             /\ t \in Seq(R!Chars) /\ j \in 1..(Len(t) + 1)
             /\ x \in Seq(Int) /\ y \in Seq(Int)
             /\ KeysOrder = R!KeyOrder(Then(R!KeyFrom(s)[i], x), Then(R!KeyFrom(t)[j], y))
  <2>1. s \in Seq(R!Chars) /\ t \in Seq(R!Chars)
    BY <1>1, <1>2, PartInside DEF R!L, R!R
  <2>2. i \in 1..(Len(s) + 1) /\ j \in 1..(Len(t) + 1)
    BY <1>2 DEF VersionsInv, PlacesInside
  <2>3. ASSUME NEW u \in Seq(R!Chars)  PROVE KeyAfter(u, part) \in Seq(Int)
    <3>1. R!LoopKey(R!PartOf(u, "release")) \in Seq(Int) /\ <<>> \in Seq(Int)
      BY <1>1, KeyOfParts
    <3> QED
      BY <3>1 DEF KeyAfter
  <2>4. KeysOrder = R!KeyOrder(KeyLeft(texts.left, part, i), KeyLeft(texts.right, part, j))
    BY <1>2 DEF KeysAgree
  <2> QED
    BY <1>1, <2>1, <2>2, <2>3, <2>4 DEF KeyLeft, R!L, R!R
<1>3. CASE UNCHANGED versions
  BY <1>3 DEF versions, KeysAgree, KeysOrder
<1>4. CASE R!CompareEpochs
  <2> DEFINE a == R!PartOf(texts.left, "epoch")
             b == R!PartOf(texts.right, "epoch")
             u == KeyLeft(texts.left, "version", 1)
             v == KeyLeft(texts.right, "version", 1)
  <2>1. part = "epoch" /\ R!Decide(R!NumberOrder(a, b))
    BY <1>4 DEF R!CompareEpochs, R!L, R!R
  <2>2. ASSUME NEW w \in Seq(R!Chars)
        PROVE  /\ R!Key(w) = Then(R!NumberKey(R!PartOf(w, "epoch")), KeyLeft(w, "version", 1))
               /\ KeyLeft(w, "version", 1) \in Seq(Int)
    <3>1. /\ KeyLeft(w, "version", 1) = Then(R!LoopKey(R!PartOf(w, "version")),
                                          R!LoopKey(R!PartOf(w, "release")))
      BY DEF KeyLeft, KeyAfter, R!LoopKey
    <3> QED
      BY <1>1, <3>1, KeyOfParts, ThenTyped
  <2>3. a \in Seq(R!CharsOf(Digits)) /\ b \in Seq(R!CharsOf(Digits))
    BY <1>1, EpochIsNumber
  <2>4. /\ R!Key(texts.left) = Then(R!NumberKey(a), u) /\ u \in Seq(Int)
        /\ R!Key(texts.right) = Then(R!NumberKey(b), v) /\ v \in Seq(Int)
    BY <1>1, <2>2
  <2> HIDE DEF a, b, u, v
  <2>5. /\ R!NumberKey(a) \in Seq(Int) /\ R!NumberKey(b) \in Seq(Int)
        /\ R!NumberKey(a) = R!NumberKey(b) \/ Settled(R!NumberKey(a), R!NumberKey(b))
        /\ R!NumberOrder(a, b) = R!KeyOrder(R!NumberKey(a), R!NumberKey(b))
    BY <1>1, <2>3, NumbersByKey
  <2>6. KeysOrder = IF R!NumberOrder(a, b) # 0 THEN R!NumberOrder(a, b) ELSE R!KeyOrder(u, v)
    BY <2>4, <2>5, PartsInTurn DEF KeysOrder
  <2>7. R!NumberOrder(a, b) \in {-1, 0, 1}
    BY DEF R!NumberOrder, R!TextOrder, R!Order
  <2> QED
    BY <2>1, <2>6, <2>7, DecideAgrees DEF u, v
<1>5. CASE R!CompareTilde
  <2>1. part \in {"version", "release"} /\ R!Tilde(s, i) # R!Tilde(t, j)
        /\ R!Decide(IF R!Tilde(s, i) THEN -1 ELSE 1)
    BY <1>5 DEF R!CompareTilde
  <2>2. r = IF R!Tilde(s, i) THEN -1 ELSE 1
    BY <2>1 DEF RoundOrder
  <2>3. r \in {-1, 0, 1} /\ r # 0
    BY <2>2
  <2>4. KeysOrder = r
    BY <1>1, <1>2, <2>1, <2>3, RoundDecides
  <2> HIDE DEF r
  <2>5. R!Decide(r)
    BY <2>1, <2>2
  <2> QED
    BY <2>1, <2>3, <2>4, <2>5, DecideAgrees
<1>6. CASE R!CompareSegment
  <2> DEFINE kind == R!RoundKind(s, i)
             m == R!RoundEnd(s, i)
             n == R!Stop(t, R!Segment(t, j), R!KindCharacters(kind))
             order == IF kind # R!RoundKind(t, j)
                        THEN R!Order(R!KindRank[kind], R!KindRank[R!RoundKind(t, j)])
                      ELSE IF kind = "number"
                        THEN R!NumberOrder(R!RoundText(s, i), SubSeq(t, R!Segment(t, j), n - 1))
                      ELSE R!TextOrder(R!RoundText(s, i), SubSeq(t, R!Segment(t, j), n - 1))
  <2>1. part \in {"version", "release"} /\ R!Tilde(s, i) = R!Tilde(t, j)
    BY <1>6 DEF R!CompareSegment
  <2>2. IF kind = "end" \/ order # 0 THEN R!Decide(order)
        ELSE at' = <<m, n>> /\ UNCHANGED <<texts, part, result>>
    BY <1>6 DEF R!CompareSegment, R!RoundKind, R!RoundEnd, R!RoundText
  <2>3. order = r /\ (kind = R!RoundKind(t, j) => n = R!RoundEnd(t, j))
    BY <1>1, <1>2, <2>1, SegmentsByRound
  <2>4. order \in {-1, 0, 1}
    BY DEF R!NumberOrder, R!TextOrder, R!Order
  <2> HIDE DEF order
  <2>5. CASE order # 0
    <3>1. KeysOrder = order
      BY <1>1, <1>2, <2>1, <2>3, <2>5, RoundDecides
    <3> HIDE DEF kind
    <3> QED
      BY <2>1, <2>2, <2>4, <2>5, <3>1, DecideAgrees
  <2>6. CASE order = 0
    <3>1. /\ kind = R!RoundKind(t, j)
          /\ KeysOrder = IF kind = "end" THEN R!KeyOrder(x, y)
                         ELSE R!KeyOrder(Then(R!KeyFrom(s)[m], x), Then(R!KeyFrom(t)[n], y))
      <4>1. r = 0
        BY <2>3, <2>6
      <4>2. /\ x \in Seq(Int) /\ y \in Seq(Int)
            /\ KeysOrder = R!KeyOrder(Then(R!KeyFrom(s)[i], x), Then(R!KeyFrom(t)[j], y))
            /\ s \in Seq(R!Chars) /\ i \in 1..(Len(s) + 1)
            /\ t \in Seq(R!Chars) /\ j \in 1..(Len(t) + 1)
        BY <1>2, <2>1
      <4>3. /\ R!RoundKind(s, i) = R!RoundKind(t, j)
            /\ KeysOrder = IF R!RoundKind(s, i) = "end" THEN R!KeyOrder(x, y)
                           ELSE R!KeyOrder(Then(R!KeyFrom(s)[R!RoundEnd(s, i)], x),
                                           Then(R!KeyFrom(t)[R!RoundEnd(t, j)], y))
        <5> HIDE DEF s, t, i, j, x, y
        <5> QED
          BY <1>1, <2>1, <4>1, <4>2, RoundDecides
      <4>4. kind = R!RoundKind(t, j) /\ n = R!RoundEnd(t, j)
        BY <2>3, <4>3
      <4> HIDE DEF s, t, i, j, x, y, n
      <4> QED
        BY <4>3, <4>4
    <3>2. CASE kind = "end"
      <4>1. R!Decide(0)
        BY <2>2, <2>6, <3>2
      <4>2. part = "version" =>
              KeysOrder = R!KeyOrder(R!LoopKey(R!PartOf(texts.left, "release")),
                                     R!LoopKey(R!PartOf(texts.right, "release")))
        BY <3>1, <3>2 DEF KeyAfter
      <4>3. part = "release" => KeysOrder = 0
        <5> DEFINE e == <<>>
        <5>1. e \in Seq(Int)
          OBVIOUS
        <5>2. part = "release" => x = e /\ y = e
          BY DEF KeyAfter
        <5>3. KeysOrder = R!KeyOrder(x, y)
          BY <3>1, <3>2
        <5> HIDE DEF e, x, y
        <5>4. R!KeyOrder(e, e) = 0
          BY <5>1, ZeroMeansEqual
        <5> QED
          BY <5>2, <5>3, <5>4
      <4> QED
        BY <2>1, <4>1, <4>2, <4>3, DecideAgrees
    <3>3. CASE kind # "end"
      <4>1. at' = <<m, n>> /\ UNCHANGED <<texts, part, result>>
        BY <2>2, <2>6, <3>3
      <4>2. KeysOrder = R!KeyOrder(Then(R!KeyFrom(s)[m], x), Then(R!KeyFrom(t)[n], y))
        BY <3>1, <3>3
      <4> HIDE DEF m, n, kind
      <4>3. KeysOrder' = KeysOrder /\ at'[1] = m /\ at'[2] = n
        BY <4>1 DEF KeysOrder
      <4>4. KeysOrder = R!KeyOrder(KeyLeft(texts.left, part, m), KeyLeft(texts.right, part, n))
        BY <4>2 DEF KeyLeft, R!L, R!R
      <4> QED
        BY <2>1, <4>1, <4>3, <4>4 DEF KeysAgree
    <3> QED
      BY <3>2, <3>3
  <2> QED
    BY <2>4, <2>5, <2>6
<1> QED
  BY <1>3, <1>4, <1>5, <1>6 DEF R!Next

LEMMA KeysInit ==
  ASSUME R!Init
  PROVE  KeysAgree
BY DEF R!Init, KeysAgree

(***************************************************************************)
(* Whatever two versions are compared, of whatever length and over         *)
(* whatever digits and letters, the result is the order of the keys that   *)
(* each has of its own (compare_rpm_package_versions, _rpmvercmp).                *)
(***************************************************************************)
THEOREM VersionsHaveKeys ==
  ASSUME ServicesAssumption
  PROVE  /\ R!Spec => []R!ComparesKeys
         /\ ServicesSpec => []ComparesKeys
<1>1. R!Init => VersionsInv /\ KeysAgree
  BY VersionsInit, KeysInit DEF ServicesAssumption
<1>2. VersionsInv /\ KeysAgree /\ [R!Next]_versions => (VersionsInv /\ KeysAgree)'
  BY VersionsStep, KeysStep DEF ServicesAssumption
<1>3. KeysAgree => R!ComparesKeys
  BY DEF KeysAgree, KeysOrder, R!ComparesKeys
<1>4. R!Spec => []R!ComparesKeys
  BY <1>1, <1>2, <1>3, PTL DEF R!Spec, R!vars, versions
<1>5. R!ComparesKeys => ComparesKeys
  BY DEF ComparesKeys
<1> QED
  BY <1>4, <1>5, EachServiceRuns, PTL

(* The keys are in a total order. *)
LEMMA KeysTurned ==
  ASSUME NEW x \in Seq(Int), NEW y \in Seq(Int)
  PROVE  R!KeyOrder(y, x) = -R!KeyOrder(x, y)
<1>1. PICK k \in 1..(Len(x) + 1) : DifferAt(x, y, k)
  BY SomewhereDiffer
<1>2. k \in 1..(Len(y) + 1) /\ Len(x) \in Nat /\ Len(y) \in Nat
  <2>1. Len(x) \in Nat /\ Len(y) \in Nat
    OBVIOUS
  <2>2. CASE k = 1
    BY <2>1, <2>2
  <2>3. CASE k # 1
    <3>1. k - 1 \in 1..(k - 1)
      BY <2>3
    <3> QED
      BY <2>1, <3>1, <1>1 DEF DifferAt
  <2> QED
    BY <2>2, <2>3
<1>3. DifferAt(y, x, k)
  BY <1>1, <1>2 DEF DifferAt
<1>4. /\ R!KeyOrder(x, y) = IF k > Len(x) \/ k > Len(y) THEN R!Order(Len(x), Len(y))
                            ELSE R!Order(x[k], y[k])
      /\ R!KeyOrder(y, x) = IF k > Len(y) \/ k > Len(x) THEN R!Order(Len(y), Len(x))
                            ELSE R!Order(y[k], x[k])
  BY <1>1, <1>3, KeyOrderAt
<1>5. k <= Len(x) /\ k <= Len(y) => x[k] \in Int /\ y[k] \in Int
  BY <1>2
<1>6. \A a, b \in Int : R!Order(b, a) = -R!Order(a, b)
  BY DEF R!Order
<1> QED
  BY <1>2, <1>4, <1>5, <1>6

(***************************************************************************)
(* The order of the keys is a total order: no two versions are each before *)
(* the other, and a version before one that is before a third is before    *)
(* the third.  With VersionsHaveKeys, the versions of a package that count  *)
(* as older than the fixed one are all before all others                   *)
(* (_matches_package).                                                     *)
(***************************************************************************)
THEOREM KeysAreOrdered ==
  ASSUME NEW x \in Seq(Int), NEW y \in Seq(Int), NEW z \in Seq(Int)
  PROVE  /\ R!KeyOrder(x, y) \in {-1, 0, 1}
         /\ R!KeyOrder(y, x) = -R!KeyOrder(x, y)
         /\ R!KeyOrder(x, y) = 0 <=> x = y
         /\ R!KeyOrder(x, y) = -1 /\ R!KeyOrder(y, z) = -1 => R!KeyOrder(x, z) = -1
<1>1. R!KeyOrder(x, y) \in {-1, 0, 1}
  BY DEF R!KeyOrder, R!Order
<1>2. ASSUME R!KeyOrder(x, y) = -1, R!KeyOrder(y, z) = -1
      PROVE  R!KeyOrder(x, z) = -1
  <2> DEFINE Before(u, v, l) == /\ l \in Nat \ {0} /\ l <= Len(v)
                                /\ l <= Len(u) + 1
                                /\ \A m \in 1..(l - 1) : u[m] = v[m]
                                /\ l <= Len(u) => u[l] < v[l]
  <2>1. ASSUME NEW u \in Seq(Int), NEW v \in Seq(Int), R!KeyOrder(u, v) = -1
        PROVE  \E l : Before(u, v, l)
    <3>1. PICK l \in 1..(Len(u) + 1) : DifferAt(u, v, l)
      BY SomewhereDiffer
    <3>2. Len(u) \in Nat /\ Len(v) \in Nat
      OBVIOUS
    <3>3. R!KeyOrder(u, v) = IF l > Len(u) \/ l > Len(v) THEN R!Order(Len(u), Len(v))
                             ELSE R!Order(u[l], v[l])
      BY <3>1, KeyOrderAt
    <3>4. l <= Len(v)
      <4> SUFFICES ASSUME l > Len(v)  PROVE FALSE
        BY <3>2
      <4>1. R!Order(Len(u), Len(v)) = -1
        BY <2>1, <3>3
      <4>2. Len(u) < Len(v)
        BY <3>2, <4>1 DEF R!Order
      <4> QED
        BY <3>2, <4>2
    <3>5. ASSUME l <= Len(u)  PROVE u[l] < v[l]
      <4>1. R!Order(u[l], v[l]) = -1
        BY <2>1, <3>2, <3>3, <3>4, <3>5
      <4>2. u[l] \in Int /\ v[l] \in Int
        BY <3>2, <3>4, <3>5
      <4> QED
        BY <4>1, <4>2 DEF R!Order
    <3>6. /\ l \in Nat \ {0} /\ l <= Len(u) + 1
          /\ \A m \in 1..(l - 1) : u[m] = v[m]
      BY <3>1, <3>2 DEF DifferAt
    <3> QED
      BY <3>4, <3>5, <3>6
  <2>2. ASSUME NEW u \in Seq(Int), NEW v \in Seq(Int), NEW l, Before(u, v, l)
        PROVE  R!KeyOrder(u, v) = -1
    <3>1. Len(u) \in Nat /\ Len(v) \in Nat
      OBVIOUS
    <3>2. DifferAt(u, v, l)
      BY <2>2, <3>1 DEF DifferAt
    <3>3. R!KeyOrder(u, v) = IF l > Len(u) \/ l > Len(v) THEN R!Order(Len(u), Len(v))
                             ELSE R!Order(u[l], v[l])
      BY <3>2, KeyOrderAt
    <3>4. CASE l <= Len(u)
      <4>1. R!KeyOrder(u, v) = R!Order(u[l], v[l]) /\ u[l] \in Int /\ v[l] \in Int
        BY <2>2, <3>1, <3>3, <3>4
      <4> QED
        BY <2>2, <3>4, <4>1 DEF R!Order
    <3>5. CASE ~(l <= Len(u))
      <4>1. R!KeyOrder(u, v) = R!Order(Len(u), Len(v)) /\ Len(u) < Len(v)
        BY <2>2, <3>1, <3>3, <3>5
      <4> QED
        BY <3>1, <4>1 DEF R!Order
    <3> QED
      BY <3>4, <3>5
  <2>3. PICK k : Before(x, y, k)
    BY <1>2, <2>1
  <2>4. PICK l : Before(y, z, l)
    BY <1>2, <2>1
  <2>5. Len(x) \in Nat /\ Len(y) \in Nat /\ Len(z) \in Nat
    OBVIOUS
  <2>6. CASE k <= l
    <3>1. k \in Nat \ {0} /\ k <= Len(z) /\ k <= Len(x) + 1 /\ k <= Len(y)
      BY <2>3, <2>4, <2>5, <2>6
    <3>2. \A m \in 1..(k - 1) : x[m] = z[m]
      BY <2>3, <2>4, <2>6, SMTT(30)
    <3>3. ASSUME k <= Len(x)  PROVE x[k] < z[k]
      <4>1. x[k] \in Int /\ y[k] \in Int /\ z[k] \in Int
        BY <2>5, <3>1, <3>3, SMTT(30)
      <4>2. x[k] < y[k]
        BY <2>3, <3>3
      <4>3. k < l => y[k] = z[k]
        BY <2>4, <3>1
      <4>4. k = l => y[k] < z[k]
        BY <2>4, <3>1
      <4> QED
        BY <2>4, <2>6, <3>1, <4>1, <4>2, <4>3, <4>4
    <3>4. Before(x, z, k)
      BY <3>1, <3>2, <3>3
    <3> HIDE DEF Before
    <3> QED
      BY <2>2, <3>4
  <2>7. CASE ~(k <= l)
    <3>1. /\ l \in Nat \ {0} /\ l <= Len(z) /\ l <= Len(x) + 1 /\ l <= Len(y)
          /\ l \in 1..(k - 1)
      BY <2>3, <2>4, <2>5, <2>7, SMTT(30)
    <3>2. \A m \in 1..(l - 1) : x[m] = z[m]
      BY <2>3, <2>4, <2>7
    <3>3. ASSUME l <= Len(x)  PROVE x[l] < z[l]
      <4>1. x[l] = y[l] /\ y[l] < z[l]
        BY <2>3, <2>4, <3>1
      <4> QED
        BY <4>1
    <3>4. Before(x, z, l)
      BY <3>1, <3>2, <3>3
    <3> HIDE DEF Before
    <3> QED
      BY <2>2, <3>4
  <2> QED
    BY <2>3, <2>4, <2>6, <2>7
<1> QED
  BY <1>1, <1>2, KeysTurned, ZeroMeansEqual

-----------------------------------------------------------------------------
(***************************************************************************)
(* The credential of a host.                                               *)
(***************************************************************************)
CredentialTypes ==
  /\ row \in H!Rows /\ known \in 0..MaxSecrets
  /\ writer \in [Writers -> [busy : BOOLEAN, read : H!Rows, new : H!Rows]]
  /\ work \in [Logins -> [kind : H!Kinds \cup {"none"}, asked : 0..MaxSecrets,
                          state : {"idle", "queued", "read", "working", "refused"},
                          read : H!Rows, new : H!Rows]]
  /\ confirmed \subseteq H!Secrets /\ proved \subseteq H!Secrets /\ mixed \in BOOLEAN

(* A row is vouched for: its secret was confirmed and, if it reads ready,   *)
(* a login has proved it; or writers have mixed two rows.                  *)
Confirmed(r) == r.admin => r.secret \in confirmed \/ mixed
Proved(r) == r.admin /\ r.status = "success" => r.secret \in proved \/ mixed

(* What is read, and what will be committed over it. *)
WritersVouch == \A w \in Writers : Confirmed(writer[w].new) /\ Proved(writer[w].new)

(***************************************************************************)
(* A collection that logged in holds its own verdict; the others that are  *)
(* past their reading found the row ready, except a finding's remediation, *)
(* which remembers the secret its request looked at.                       *)
(***************************************************************************)
JobVouches(x) ==
  /\ x.state \in {"read", "working"} => x.read.secret # 0
  /\ x.kind = "execute" => x.asked \in confirmed \/ mixed
  /\ x.kind = "collect" /\ x.state \in {"read", "working"} =>
       /\ x.new.secret = x.read.secret /\ x.new.admin = x.read.admin
       /\ x.new.status = "success" => x.read.secret \in proved
       /\ x.state = "working" => x.new.status = "success"
       /\ Confirmed(x.new)
  /\ x.kind \in {"collect", "batch", "terminal"} /\ x.state = "working" => x.read.admin
  /\ x.kind \in {"batch", "terminal"} /\ x.state \in {"read", "working"} =>
       x.read.admin /\ Confirmed(x.read)
  /\ x.state = "working" =>
       /\ x.read.secret \in proved \/ (x.kind = "terminal" /\ mixed)
       /\ \/ x.read.secret \in confirmed
          \/ mixed
          \/ x.kind = "execute" /\ x.read.secret # x.asked

AccessInv ==
  /\ CredentialTypes /\ Confirmed(row) /\ Proved(row) /\ WritersVouch
  /\ \A j \in Logins : JobVouches(work[j])

(***************************************************************************)
(* A commit over the row it read leaves the new one; over another row it   *)
(* leaves a mixture, and says so.                                          *)
(***************************************************************************)
LEMMA MergedRow ==
  ASSUME NEW read \in H!Rows, NEW new \in H!Rows, row \in H!Rows
  PROVE  /\ H!Merge(read, new) \in H!Rows
         /\ read = row => H!Merge(read, new) = new
<1>1. /\ DOMAIN row = {"secret", "admin", "status"}
      /\ DOMAIN new = {"secret", "admin", "status"}
  BY DEF H!Rows
<1> DEFINE m == H!Merge(read, new)
<1>2. m = [secret |-> IF new.secret # read.secret THEN new.secret ELSE row.secret,
           admin |-> IF new.admin # read.admin THEN new.admin ELSE row.admin,
           status |-> IF new.status # read.status THEN new.status ELSE row.status]
  BY <1>1 DEF H!Merge
<1> HIDE DEF m
<1>3. m \in H!Rows
  BY <1>2 DEF H!Rows
<1>4. read = row => m = new
  BY <1>2 DEF H!Rows
<1> QED
  BY <1>3, <1>4 DEF m

LEMMA AccessInit ==
  ASSUME H!HostAccessAssumption, H!Init
  PROVE  AccessInv
<1> USE DEF H!HostAccessAssumption
<1>1. H!Absent \in H!Rows /\ ~H!Absent.admin
  BY DEF H!Absent, H!Rows, H!Statuses
<1>2. CredentialTypes
  <2>1. H!Idle \in [busy : BOOLEAN, read : H!Rows, new : H!Rows]
    BY <1>1 DEF H!Idle
  <2>2. H!Resting \in [kind : H!Kinds \cup {"none"}, asked : 0..MaxSecrets,
                       state : {"idle", "queued", "read", "working", "refused"},
                       read : H!Rows, new : H!Rows]
    BY <1>1 DEF H!Resting
  <2>3. row \in H!Rows /\ known \in 0..MaxSecrets
    BY <1>1 DEF H!Init
  <2>4. confirmed \subseteq H!Secrets /\ proved \subseteq H!Secrets /\ mixed \in BOOLEAN
    BY DEF H!Init
  <2> HIDE DEF H!HostAccessAssumption
  <2> QED
    BY <2>1, <2>2, <2>3, <2>4 DEF H!Init, CredentialTypes
<1>3. Confirmed(row) /\ Proved(row) /\ WritersVouch
  BY <1>1 DEF H!Init, Confirmed, Proved, WritersVouch, H!Idle
<1>4. \A j \in Logins : JobVouches(work[j])
  BY DEF H!Init, JobVouches, H!Resting
<1> QED
  BY <1>2, <1>3, <1>4 DEF AccessInv

(* A request reads the row, and perhaps logs in. *)
LEMMA AccessStarts ==
  ASSUME H!HostAccessAssumption, AccessInv, NEW w \in Writers,
         H!SaveRead(w) \/ H!ImportRead(w) \/ H!VerifyRead(w)
  PROVE  AccessInv'
<1> USE DEF AccessInv
<1>1. PICK new \in H!Rows :
        /\ H!Start(w, new) /\ UNCHANGED <<row, work, mixed>>
        /\ confirmed \subseteq confirmed' /\ confirmed' \subseteq H!Secrets
        /\ proved \subseteq proved' /\ proved' \subseteq H!Secrets
        /\ known' \in 0..MaxSecrets
        /\ new.admin => new.secret \in confirmed' \/ mixed
        /\ new.admin /\ new.status = "success" => new.secret \in proved'
  <2>1. CASE H!SaveRead(w)
    <3>1. H!Saved(known + 1) \in H!Rows /\ known + 1 \in H!Secrets
      BY <2>1 DEF H!SaveRead, CredentialTypes, H!Saved, H!Rows, H!Statuses, H!Secrets, H!HostAccessAssumption
    <3> QED
      BY <2>1, <3>1 DEF H!SaveRead, CredentialTypes, H!Saved, H!Secrets
  <2>2. CASE H!ImportRead(w)
    <3>1. H!Imported(row, known + 1) \in H!Rows /\ ~H!Imported(row, known + 1).admin
      <4>1. known + 1 \in 0..MaxSecrets
        BY <2>2 DEF H!ImportRead, CredentialTypes, H!HostAccessAssumption
      <4> QED
        BY <4>1 DEF CredentialTypes, H!Imported, H!Rows
    <3> QED
      BY <2>2, <3>1 DEF H!ImportRead, CredentialTypes, H!HostAccessAssumption
  <2>3. CASE H!VerifyRead(w)
    <3>1. PICK ok \in BOOLEAN : H!Start(w, H!Verified(row, ok)) /\ H!Login(row.secret, ok)
      BY <2>3 DEF H!VerifyRead
    <3>2. /\ H!Verified(row, ok) \in H!Rows
          /\ H!Verified(row, ok).secret = row.secret /\ H!Verified(row, ok).admin = row.admin
          /\ H!Verified(row, ok).status = "success" => ok
      BY DEF CredentialTypes, H!Verified, H!Rows, H!Statuses
    <3>3. row.secret \in H!Secrets
      BY <2>3 DEF H!VerifyRead, CredentialTypes, H!Rows, H!Secrets
    <3> QED
      BY <2>3, <3>1, <3>2, <3>3 DEF H!VerifyRead, H!Login, CredentialTypes, Confirmed
  <2> QED
    BY <2>1, <2>2, <2>3
<1>2. /\ writer'[w] = [busy |-> TRUE, read |-> row, new |-> new]
      /\ \A u \in Writers \ {w} : writer'[u] = writer[u]
      /\ writer' \in [Writers -> [busy : BOOLEAN, read : H!Rows, new : H!Rows]]
  BY <1>1 DEF H!Start, CredentialTypes
<1>3. CredentialTypes'
  BY <1>1, <1>2 DEF CredentialTypes
<1>4. Confirmed(row)' /\ Proved(row)' /\ WritersVouch'
  BY <1>1, <1>2 DEF Confirmed, Proved, WritersVouch
<1>5. ASSUME NEW j \in Logins  PROVE JobVouches(work[j])'
  BY <1>1 DEF JobVouches, Confirmed
<1> QED
  BY <1>3, <1>4, <1>5

(* A row that is vouched for is committed, over the row it was made from. *)
LEMMA AccessCommits ==
  ASSUME AccessInv, NEW read \in H!Rows, NEW new \in H!Rows,
         H!Commit(read, new), UNCHANGED <<confirmed, proved>>, Confirmed(new), Proved(new)
  PROVE  /\ row' \in H!Rows /\ mixed' \in BOOLEAN /\ (mixed => mixed')
         /\ Confirmed(row)' /\ Proved(row)'
<1> USE DEF AccessInv, CredentialTypes
<1>1. row' \in H!Rows /\ mixed' \in BOOLEAN /\ (mixed => mixed')
  BY MergedRow DEF H!Commit
<1>2. read = row => row' = new
  BY MergedRow DEF H!Commit
<1>3. read # row => mixed'
  BY DEF H!Commit
<1> QED
  BY <1>1, <1>2, <1>3 DEF Confirmed, Proved

LEMMA AccessWrites ==
  ASSUME H!HostAccessAssumption, AccessInv, NEW w \in Writers, H!WriterCommit(w)
  PROVE  AccessInv'
<1> USE DEF AccessInv
<1>1. H!Idle \in [busy : BOOLEAN, read : H!Rows, new : H!Rows] /\ ~H!Idle.new.admin
  BY DEF H!Idle, H!Absent, H!Rows, H!Statuses, H!HostAccessAssumption
<1>2. /\ writer' \in [Writers -> [busy : BOOLEAN, read : H!Rows, new : H!Rows]]
      /\ writer'[w] = H!Idle /\ \A u \in Writers \ {w} : writer'[u] = writer[u]
      /\ UNCHANGED <<known, work, confirmed, proved>>
  BY <1>1 DEF H!WriterCommit, CredentialTypes
<1>3. /\ row' \in H!Rows /\ mixed' \in BOOLEAN /\ (mixed => mixed')
      /\ Confirmed(row)' /\ Proved(row)'
  <2>1. CASE UNCHANGED <<row, mixed>>
    BY <1>2, <2>1 DEF CredentialTypes, Confirmed, Proved
  <2>2. CASE H!Commit(writer[w].read, writer[w].new)
    <3>1. writer[w].read \in H!Rows /\ writer[w].new \in H!Rows
      BY DEF CredentialTypes
    <3> QED
      BY <1>2, <2>2, <3>1, AccessCommits DEF WritersVouch
  <2> QED
    BY <2>1, <2>2 DEF H!WriterCommit
<1>4. CredentialTypes'
  BY <1>2, <1>3 DEF CredentialTypes
<1>5. WritersVouch'
  BY <1>1, <1>2, <1>3 DEF WritersVouch, Confirmed, Proved
<1>6. ASSUME NEW j \in Logins  PROVE JobVouches(work[j])'
  BY <1>2, <1>3 DEF JobVouches, Confirmed
<1> QED
  BY <1>3, <1>4, <1>5, <1>6

(***************************************************************************)
(* A step of one job.  Nothing is forgotten that vouched for the others.   *)
(***************************************************************************)
LEMMA OneJobMoves ==
  ASSUME AccessInv, NEW j \in Logins, CredentialTypes', UNCHANGED <<writer, confirmed>>,
         \A i \in Logins \ {j} : work'[i] = work[i],
         proved \subseteq proved', mixed => mixed',
         Confirmed(row)', Proved(row)', JobVouches(work[j])'
  PROVE  AccessInv'
<1> USE DEF AccessInv
<1>1. WritersVouch'
  BY DEF WritersVouch, Confirmed, Proved
<1>2. ASSUME NEW i \in Logins \ {j}  PROVE JobVouches(work[i])'
  BY DEF JobVouches, Confirmed
<1> QED
  BY <1>1, <1>2

LEMMA AccessWorks ==
  ASSUME H!HostAccessAssumption, AccessInv, NEW j \in Logins,
         \/ \E kind \in H!Kinds : H!Ask(j, kind)
         \/ H!CollectLogin(j) \/ H!CollectInventory(j) \/ H!CollectCommit(j)
         \/ H!BatchRead(j) \/ H!BatchCollect(j) \/ H!Execute(j) \/ H!TerminalOpen(j)
         \/ H!JobEnds(j)
  PROVE  AccessInv'
<1> DEFINE Work == [kind : H!Kinds \cup {"none"}, asked : 0..MaxSecrets,
                    state : {"idle", "queued", "read", "working", "refused"},
                    read : H!Rows, new : H!Rows]
<1>1. /\ work \in [Logins -> Work] /\ work[j] \in Work /\ row \in H!Rows
      /\ Confirmed(row) /\ Proved(row) /\ JobVouches(work[j])
      /\ proved \subseteq H!Secrets
  BY DEF AccessInv, CredentialTypes
<1>2. H!Resting \in Work /\ H!Resting.state = "idle" /\ H!Resting.kind = "none"
  BY DEF H!Resting, H!Absent, H!Rows, H!Statuses, H!HostAccessAssumption
<1>3. ASSUME NEW x \in Work, work' = [work EXCEPT ![j] = x], UNCHANGED <<row, known, writer, confirmed, mixed>>,
             proved \subseteq proved', proved' \subseteq H!Secrets, JobVouches(x)'
      PROVE  AccessInv'
  <2>1. CredentialTypes'
    BY <1>1, <1>3 DEF AccessInv, CredentialTypes
  <2>2. Confirmed(row)' /\ Proved(row)'
    BY <1>1, <1>3 DEF Confirmed, Proved
  <2>3. work'[j] = x /\ \A i \in Logins \ {j} : work'[i] = work[i]
    BY <1>1, <1>3
  <2>4. JobVouches(work[j])'
    BY <1>3, <2>3 DEF JobVouches, Confirmed
  <2> QED
    BY <1>3, <2>1, <2>2, <2>3, <2>4, OneJobMoves
<1>4. ASSUME NEW kind \in H!Kinds, H!Ask(j, kind)
      PROVE  AccessInv'
  <2>1. PICK x \in Work :
          /\ work' = [work EXCEPT ![j] = x] /\ UNCHANGED <<row, known, writer, confirmed, mixed, proved>>
          /\ x.kind = kind /\ x.state = "queued" /\ (kind = "execute" => x.asked = row.secret)
    <3> DEFINE x == [H!Resting EXCEPT !.kind = kind, !.state = "queued",
                                      !.asked = IF kind = "execute" THEN row.secret ELSE 0]
    <3>1. /\ x \in Work /\ x.kind = kind /\ x.state = "queued"
          /\ (kind = "execute" => x.asked = row.secret)
      BY <1>1, <1>2 DEF H!Rows, H!HostAccessAssumption, H!Resting
    <3>2. work' = [work EXCEPT ![j] = x] /\ UNCHANGED <<row, known, writer, confirmed, mixed, proved>>
      BY <1>4 DEF H!Ask
    <3> HIDE DEF x
    <3> QED
      BY <3>1, <3>2
  <2>2. kind = "execute" => row.admin
    BY <1>4 DEF H!Ask, H!Ready
  <2>3. JobVouches(x)'
    BY <1>1, <2>1, <2>2 DEF JobVouches, Confirmed
  <2> QED
    BY <1>1, <1>3, <2>1, <2>3
<1>5. ASSUME NEW kind \in H!Kinds, NEW state \in {"read", "working"}, NEW new \in H!Rows,
             H!Reads(j, kind, state, new)
      PROVE  \E x \in Work :
               /\ work' = [work EXCEPT ![j] = x] /\ UNCHANGED <<row, known, writer, confirmed, mixed>>
               /\ x.kind = kind /\ x.state = state /\ x.read = row /\ x.new = new
               /\ x.asked = work[j].asked /\ work[j].kind = kind /\ row.secret \in H!Secrets
  <2> DEFINE x == [work[j] EXCEPT !.state = state, !.read = row, !.new = new]
  <2>1. /\ x \in Work /\ x.kind = work[j].kind /\ x.state = state /\ x.read = row /\ x.new = new
        /\ x.asked = work[j].asked
    BY <1>1
  <2>2. work' = [work EXCEPT ![j] = x]
    BY <1>1, <1>5 DEF H!Reads
  <2>3. row.secret \in H!Secrets
    BY <1>1, <1>5 DEF H!Reads, H!Rows, H!Secrets
  <2> HIDE DEF x
  <2> QED
    BY <1>5, <2>1, <2>2, <2>3 DEF H!Reads
<1>6. ASSUME NEW state \in {"working", "refused"}, H!Becomes(j, state)
      PROVE  \E x \in Work :
               /\ work' = [work EXCEPT ![j] = x] /\ UNCHANGED <<row, known, writer, confirmed, mixed>>
               /\ x.kind = work[j].kind /\ x.state = state /\ x.read = work[j].read
               /\ x.new = work[j].new /\ x.asked = work[j].asked
  <2> DEFINE x == [work[j] EXCEPT !.state = state]
  <2>1. /\ x \in Work /\ x.kind = work[j].kind /\ x.state = state /\ x.read = work[j].read
        /\ x.new = work[j].new /\ x.asked = work[j].asked
    BY <1>1
  <2>2. work' = [work EXCEPT ![j] = x]
    BY <1>1, <1>6 DEF H!Becomes
  <2> HIDE DEF x
  <2> QED
    BY <1>6, <2>1, <2>2 DEF H!Becomes
<1>7. CASE H!CollectLogin(j)
  <2>1. PICK ok \in BOOLEAN : H!Reads(j, "collect", "read", H!Verified(row, ok)) /\ H!Login(row.secret, ok)
    BY <1>7 DEF H!CollectLogin
  <2>2. /\ H!Verified(row, ok) \in H!Rows
        /\ H!Verified(row, ok).secret = row.secret /\ H!Verified(row, ok).admin = row.admin
        /\ H!Verified(row, ok).status = "success" => ok
    BY <1>1 DEF H!Verified, H!Rows, H!Statuses
  <2>3. PICK x \in Work :
          /\ work' = [work EXCEPT ![j] = x] /\ UNCHANGED <<row, known, writer, confirmed, mixed>>
          /\ x.kind = "collect" /\ x.state = "read" /\ x.read = row /\ x.new = H!Verified(row, ok)
          /\ row.secret \in H!Secrets
    BY <1>5, <2>1, <2>2 DEF H!Kinds
  <2>4. JobVouches(x)'
    BY <1>1, <2>1, <2>2, <2>3 DEF JobVouches, Confirmed, H!Login, H!Secrets
  <2> QED
    BY <1>1, <1>3, <2>1, <2>3, <2>4 DEF H!Login
<1>8. CASE H!CollectInventory(j)
  <2>1. PICK x \in Work :
          /\ work' = [work EXCEPT ![j] = x] /\ UNCHANGED <<row, known, writer, confirmed, mixed>>
          /\ x.kind = "collect" /\ x.state = "working" /\ x.read = work[j].read /\ x.new = work[j].new
    BY <1>6, <1>8 DEF H!CollectInventory
  <2>2. JobVouches(x)'
    BY <1>1, <1>8, <2>1 DEF JobVouches, Confirmed, H!CollectInventory, H!Ready
  <2> QED
    BY <1>1, <1>3, <1>8, <2>1, <2>2 DEF H!CollectInventory
<1>9. CASE H!CollectCommit(j)
  <2> DEFINE old == work[j]
  <2>1. /\ work' = [work EXCEPT ![j] = H!Resting] /\ H!Commit(old.read, old.new)
        /\ UNCHANGED <<known, writer, confirmed, proved>>
        /\ old.kind = "collect" /\ old.state \in {"read", "working"}
    BY <1>9 DEF H!CollectCommit, H!End
  <2>2. Confirmed(old.new) /\ Proved(old.new) /\ old.read \in H!Rows /\ old.new \in H!Rows
    BY <1>1, <2>1 DEF JobVouches, Proved
  <2>3. /\ row' \in H!Rows /\ mixed' \in BOOLEAN /\ (mixed => mixed')
        /\ Confirmed(row)' /\ Proved(row)'
    BY <2>1, <2>2, AccessCommits
  <2>4. CredentialTypes'
    BY <1>1, <1>2, <2>1, <2>3 DEF AccessInv, CredentialTypes
  <2>5. work'[j] = H!Resting /\ \A i \in Logins \ {j} : work'[i] = work[i]
    BY <1>1, <2>1
  <2>6. JobVouches(work[j])'
    BY <1>2, <2>5 DEF JobVouches
  <2> QED
    BY <2>1, <2>3, <2>4, <2>5, <2>6, OneJobMoves
<1>10. CASE H!BatchRead(j)
  <2>1. PICK x \in Work :
          /\ work' = [work EXCEPT ![j] = x] /\ UNCHANGED <<row, known, writer, confirmed, mixed>>
          /\ x.kind = "batch" /\ x.state = "read" /\ x.read = row
    BY <1>1, <1>5, <1>10 DEF H!BatchRead, H!Kinds
  <2>2. JobVouches(x)'
    BY <1>1, <1>10, <2>1 DEF JobVouches, Confirmed, H!BatchRead, H!Ready
  <2> QED
    BY <1>1, <1>3, <1>10, <2>1, <2>2 DEF H!BatchRead
<1>11. CASE H!BatchCollect(j)
  <2>1. PICK ok \in BOOLEAN : /\ H!Login(work[j].read.secret, ok)
                             /\ H!Becomes(j, IF ok THEN "working" ELSE "refused")
    BY <1>11 DEF H!BatchCollect, H!BatchLogin
  <2>2. PICK x \in Work :
          /\ work' = [work EXCEPT ![j] = x] /\ UNCHANGED <<row, known, writer, confirmed, mixed>>
          /\ x.kind = "batch" /\ x.state = (IF ok THEN "working" ELSE "refused") /\ x.read = work[j].read
    BY <1>6, <1>11, <2>1 DEF H!BatchCollect
  <2>3. work[j].read.admin /\ Confirmed(work[j].read)
    BY <1>1, <1>11 DEF H!BatchCollect, JobVouches
  <2>4. proved' = IF ok THEN proved \cup {work[j].read.secret} ELSE proved
    BY <2>1 DEF H!Login
  <2>5. work[j].read.secret \in H!Secrets /\ work[j].read.secret # 0
    BY <1>1, <1>11 DEF H!BatchCollect, JobVouches, H!Rows, H!Secrets
  <2>6. JobVouches(x)'
    BY <2>2, <2>3, <2>4, <2>5 DEF JobVouches, Confirmed
  <2> QED
    BY <1>1, <1>3, <2>2, <2>4, <2>5, <2>6
<1>12. CASE H!Execute(j)
  <2>1. PICK x \in Work :
          /\ work' = [work EXCEPT ![j] = x] /\ UNCHANGED <<row, known, writer, confirmed, mixed>>
          /\ x.kind = "execute" /\ x.state = "working" /\ x.read = row /\ x.asked = work[j].asked
          /\ work[j].kind = "execute" /\ row.secret \in H!Secrets
    BY <1>1, <1>5, <1>12 DEF H!Execute, H!Kinds
  <2>2. proved' = proved \cup {row.secret}
    BY <1>12 DEF H!Execute, H!Login
  <2>3. JobVouches(x)'
    BY <1>1, <2>1, <2>2 DEF JobVouches, H!Secrets
  <2> QED
    BY <1>1, <1>3, <2>1, <2>2, <2>3
<1>13. CASE H!TerminalOpen(j)
  <2>1. PICK x \in Work :
          /\ work' = [work EXCEPT ![j] = x] /\ UNCHANGED <<row, known, writer, confirmed, mixed>>
          /\ x.kind = "terminal" /\ x.state = "working" /\ x.read = row
    BY <1>1, <1>5, <1>13 DEF H!TerminalOpen, H!Kinds
  <2>2. JobVouches(x)'
    BY <1>1, <1>13, <2>1 DEF JobVouches, Confirmed, Proved, H!TerminalOpen, H!Ready
  <2> QED
    BY <1>1, <1>3, <1>13, <2>1, <2>2 DEF H!TerminalOpen
<1>14. CASE H!JobEnds(j)
  <2>1. JobVouches(H!Resting)'
    BY <1>2 DEF JobVouches, H!Resting
  <2> QED
    BY <1>1, <1>2, <1>3, <1>14, <2>1 DEF H!JobEnds, H!End
<1> QED
  BY <1>4, <1>7, <1>8, <1>9, <1>10, <1>11, <1>12, <1>13, <1>14

LEMMA AccessStep ==
  ASSUME H!HostAccessAssumption, AccessInv, [H!Next]_access
  PROVE  AccessInv'
<1>1. CASE UNCHANGED access
  <2> USE <1>1 DEF access, AccessInv
  <2>1. CredentialTypes' /\ Confirmed(row)' /\ Proved(row)' /\ WritersVouch'
    BY DEF CredentialTypes, Confirmed, Proved, WritersVouch
  <2>2. ASSUME NEW j \in Logins  PROVE JobVouches(work[j])'
    BY DEF JobVouches, Confirmed
  <2> QED
    BY <2>1, <2>2
<1> QED
  BY <1>1, AccessStarts, AccessWrites, AccessWorks DEF H!Next

(***************************************************************************)
(* Work on a host is done with a secret that a login there has proved and  *)
(* an administrator has confirmed, up to overlapping writers and a secret  *)
(* exchanged under a finding's remediation (verify_authorization,          *)
(* _upsert_password_credential), for any number of writers and jobs.       *)
(***************************************************************************)
THEOREM WorkVouched ==
  ASSUME ServicesAssumption
  PROVE  /\ H!Spec => [](H!WorkIsProven /\ H!WorkIsConfirmed)
         /\ ServicesSpec => []WorkIsVouched
<1>1. H!Init => AccessInv
  BY AccessInit DEF ServicesAssumption
<1>2. AccessInv /\ [H!Next]_access => (AccessInv)'
  BY AccessStep DEF ServicesAssumption
<1>3. AccessInv => (H!WorkIsProven /\ H!WorkIsConfirmed)
  BY DEF AccessInv, JobVouches, H!WorkIsProven, H!WorkIsConfirmed
<1>4. H!Spec => [](H!WorkIsProven /\ H!WorkIsConfirmed)
  BY <1>1, <1>2, <1>3, PTL DEF H!Spec, H!vars, access
<1>5. (H!WorkIsProven /\ H!WorkIsConfirmed) => WorkIsVouched
  BY DEF WorkIsVouched
<1> QED
  BY <1>4, <1>5, EachServiceRuns, PTL

-----------------------------------------------------------------------------
(***************************************************************************)
(* The calls of the language model.  Nothing was given before a provider   *)
(* is built or a whole answer asked for, so what a stream has given is of  *)
(* the request under way; and there is a channel and a URL to ask.         *)
(***************************************************************************)
Asks ==
  [at : {"idle", "building", "asking", "done", "failed"}, streams : BOOLEAN, plain : BOOLEAN,
   todo : Seq(Channels), base : Nat \ {0}, pin : M!Apis \cup {M!Unknown},
   api : M!Apis \cup {M!Unknown}, json : BOOLEAN, tries : 0..MaxAttempts, text : M!Texts]

OneAnswer(x) ==
  /\ x.text \in {"none", "current"}
  /\ x.at \in {"building", "asking"} => x.todo # <<>>
  /\ x.at = "asking" => x.base <= Len(Urls[Head(x.todo)])
  /\ x.at = "building" \/ (x.at = "asking" /\ x.plain) => x.text = "none"
  /\ x.at = "asking" /\ ~x.plain => x.streams /\ ~x.json
  /\ x.at = "building" => ~x.json
  /\ x.at = "done" => x.text = "current" \/ x.api = IF x.plain THEN "chat" ELSE "ollama"

CallInv == M!TypeOK /\ OneAnswer(ask)

(* The model's finite sets are those of the library. *)
LEMMA SameSets ==
  ASSUME NEW T
  PROVE  M!Cardinality(T) = Cardinality(T) /\ (M!IsFiniteSet(T) <=> IsFiniteSet(T))
<1>1. M!Cardinality(T) = Cardinality(T)
  BY DEF M!Cardinality, Cardinality
<1>2. M!IsFiniteSet(T) <=> IsFiniteSet(T)
  BY DEF M!IsFiniteSet, IsFiniteSet
<1> QED
  BY <1>1, <1>2

LEMMA ModelBounds ==
  ASSUME ServicesAssumption
  PROVE  /\ MaxAttempts \in Nat \ {0} /\ Threshold \in Nat \ {0} /\ IsFiniteSet(Channels)
         /\ \A c \in Channels : /\ Urls[c] \in Seq(STRING) /\ Len(Urls[c]) >= 1
                                /\ Wire[c] \in {"responses", "chat", "auto", "ollama"}
<1>1. M!ModelCallAssumption
  BY DEF ServicesAssumption
<1>2. \A s \in Seq(STRING) \ {<<>>} : s \in Seq(STRING) /\ Len(s) >= 1
  OBVIOUS
<1> QED
  BY <1>1, <1>2, SameSets DEF M!ModelCallAssumption

LEMMA RestTyped ==
  ASSUME ServicesAssumption
  PROVE  M!Rest \in Asks
BY ModelBounds DEF M!Rest, Asks, M!Texts, M!Unknown

LEMMA CallInit ==
  ASSUME ServicesAssumption, M!Init
  PROVE  CallInv
<1>1. ask \in Asks
  BY RestTyped DEF M!Init
<1>2. M!TypeOK
  BY <1>1, ModelBounds DEF M!Init, M!TypeOK, Asks
<1> QED
  BY <1>2 DEF CallInv, OneAnswer, M!Init, M!Rest

(* A pin is a wire API or unknown, what is asked first a wire API. *)
LEMMA PinTyped ==
  ASSUME ServicesAssumption, M!TypeOK, NEW c \in Channels, NEW i \in 1..Len(Urls[c])
  PROVE  /\ M!Pinned(c, Urls[c][i]) \in M!Apis \cup {M!Unknown}
         /\ M!FirstApi(M!Pinned(c, Urls[c][i])) \in M!Apis
<1>1. Urls[c][i] \in M!AllUrls
  <2>1. i \in DOMAIN Urls[c]
    BY ModelBounds
  <2> QED
    BY <2>1 DEF M!AllUrls
<1> QED
  BY <1>1, ModelBounds DEF M!Pinned, M!FirstApi, M!TypeOK, M!Apis, M!Unknown

LEMMA AgainTyped ==
  ASSUME ServicesAssumption, NEW x \in Asks, x.text = "none"
  PROVE  /\ M!Again(x) \in Asks /\ M!Again(x).text = "none"
         /\ M!Again(x).at = x.at /\ M!Again(x).todo = x.todo /\ M!Again(x).base = x.base
         /\ M!Again(x).plain = x.plain /\ M!Again(x).streams = x.streams
         /\ M!Again(x).json = x.json
<1>1. 1 \in 0..MaxAttempts
  BY ModelBounds
<1>2. M!Again(x) = [x EXCEPT !.tries = 1, !.text = "none"]
  BY DEF M!Again, Asks
<1> QED
  BY <1>1, <1>2 DEF Asks, M!Texts

(* Whatever is asked plainly is one answer to come. *)
LEMMA AskPlainTyped ==
  ASSUME ServicesAssumption, CallInv, ask.at \in {"building", "asking"}, ask.text = "none",
         NEW i \in 1..Len(Urls[M!Channel])
  PROVE  M!AskPlain(M!Channel, i) \in Asks /\ OneAnswer(M!AskPlain(M!Channel, i))
<1>1. ask \in Asks /\ ask.todo \in Seq(Channels) /\ ask.todo # <<>>
  BY DEF CallInv, M!TypeOK, Asks, OneAnswer
<1>2. M!Channel \in Channels
  BY <1>1 DEF M!Channel
<1> DEFINE pin == M!Pinned(M!Channel, Urls[M!Channel][i])
           json == M!FirstApi(pin) = "chat" /\ M!Channel \in Json
           x == [ask EXCEPT !.at = "asking", !.plain = TRUE, !.base = i, !.pin = pin,
                            !.api = M!FirstApi(pin), !.json = json]
<1>3. pin \in M!Apis \cup {M!Unknown} /\ M!FirstApi(pin) \in M!Apis
  BY <1>2, PinTyped DEF CallInv
<1>4. json \in BOOLEAN /\ i \in Nat \ {0}
  BY <1>2, ModelBounds
<1>5. M!AskPlain(M!Channel, i) = M!Again(x)
  BY DEF M!AskPlain
<1> HIDE DEF pin, json
<1>6. x \in Asks /\ x.at = "asking" /\ x.plain /\ x.base = i /\ x.todo = ask.todo /\ x.text = "none"
  BY <1>1, <1>3, <1>4 DEF Asks
<1> HIDE DEF x
<1> QED
  BY <1>1, <1>2, <1>5, <1>6, AgainTyped, ModelBounds DEF OneAnswer, M!Channel

LEMMA AskStreamTyped ==
  ASSUME ServicesAssumption, CallInv, ask.at \in {"building", "asking"}, ask.text = "none",
         ask.streams, ~ask.json, NEW i \in 1..Len(Urls[M!Channel]),
         NEW pin \in M!Apis \cup {M!Unknown}
  PROVE  M!AskStream(i, pin) \in Asks /\ OneAnswer(M!AskStream(i, pin))
<1>1. ask \in Asks /\ ask.todo \in Seq(Channels) /\ ask.todo # <<>>
  BY DEF CallInv, M!TypeOK, Asks, OneAnswer
<1>2. M!Channel \in Channels
  BY <1>1 DEF M!Channel
<1> DEFINE x == [ask EXCEPT !.at = "asking", !.plain = FALSE, !.base = i, !.pin = pin,
                            !.api = M!FirstApi(pin)]
<1>3. M!FirstApi(pin) \in M!Apis /\ i \in Nat \ {0}
  BY <1>2, ModelBounds DEF M!FirstApi, M!Apis, M!Unknown
<1>4. M!AskStream(i, pin) = M!Again(x)
  BY DEF M!AskStream
<1>5. /\ x \in Asks /\ x.at = "asking" /\ ~x.plain /\ x.base = i /\ x.todo = ask.todo /\ x.text = "none"
      /\ x.streams /\ ~x.json
  BY <1>1, <1>3 DEF Asks
<1> HIDE DEF x
<1> QED
  BY <1>1, <1>2, <1>4, <1>5, AgainTyped, ModelBounds DEF OneAnswer, M!Channel

LEMMA EndedTyped ==
  ASSUME ServicesAssumption, CallInv, NEW text \in {"none", "current"},
         NEW end \in {"done", "failed", "building"}, end = "building" => text = "none"
  PROVE  LET x == M!Ended(end, text)
         IN /\ x \in Asks /\ x.text = text /\ x.at = end
            /\ x.api = IF end = "done" THEN ask.api ELSE M!Unknown
            /\ end = "done" => x.plain = ask.plain
            /\ ~x.json
<1>1. ask.api \in M!Apis \cup {M!Unknown} /\ ask.plain \in BOOLEAN
  BY DEF CallInv, M!TypeOK
<1>2. M!Rest \in Asks
  BY RestTyped
<1> QED
  BY <1>1, <1>2 DEF M!Ended, Asks, M!Texts, M!Rest

(* The next channel of the list, or the end of the call. *)
LEMMA ProceedTyped ==
  ASSUME ServicesAssumption, CallInv, ask.text = "none", NEW todo \in Seq(Channels)
  PROVE  M!Proceed(todo) \in Asks /\ OneAnswer(M!Proceed(todo))
<1>1. CASE todo = <<>>
  BY <1>1, EndedTyped DEF M!Proceed, OneAnswer
<1>2. CASE todo # <<>>
  <2>1. M!Ended("building", "none") \in Asks /\ ask.streams \in BOOLEAN
    BY EndedTyped DEF CallInv, M!TypeOK
  <2> DEFINE y == M!Ended("building", "none")
             x == [y EXCEPT !.streams = ask.streams, !.todo = todo]
  <2>2. y.at = "building" /\ y.text = "none" /\ ~y.json
    BY EndedTyped
  <2>3. M!Proceed(todo) = x
    BY <1>2 DEF M!Proceed
  <2> HIDE DEF y
  <2>4. x \in Asks /\ x.at = "building" /\ x.text = "none" /\ x.todo = todo /\ ~x.json
    BY <2>1, <2>2 DEF Asks, y
  <2> QED
    BY <1>2, <2>3, <2>4 DEF OneAnswer
<1> QED
  BY <1>1, <1>2

(* What calls leave in the tables of the process. *)
LEMMA RecordTyped ==
  ASSUME ServicesAssumption, M!TypeOK, NEW c \in Channels, NEW e, M!Record(c, e)
  PROVE  enabled' \subseteq Channels /\ cool' \subseteq Channels /\ failures' \in [Channels -> 0..Threshold]
<1>1. /\ enabled \subseteq Channels /\ cool \subseteq Channels
      /\ failures \in [Channels -> 0..Threshold] /\ failures[c] \in 0..Threshold
  BY DEF M!TypeOK
<1>2. failures[c] # Threshold => failures[c] + 1 \in 0..Threshold
  BY <1>1, ModelBounds
<1>3. enabled' \in {enabled, enabled \ {c}} /\ cool' \in {cool, cool \cup {c}}
  BY DEF M!Record
<1>4. failures' = failures
        \/ (failures[c] # Threshold /\ failures' = [failures EXCEPT ![c] = failures[c] + 1])
  BY DEF M!Record
<1> QED
  BY <1>1, <1>2, <1>3, <1>4

LEMMA AnsweredStep ==
  ASSUME ServicesAssumption, CallInv, ask.at = "asking", NEW text \in {"none", "current"},
         text = "current" \/ ask.api = (IF ask.plain THEN "chat" ELSE "ollama"), M!Answered(text)
  PROVE  CallInv'
<1>1. ask \in Asks /\ ask.todo \in Seq(Channels) /\ ask.todo # <<>>
  BY DEF CallInv, M!TypeOK, Asks, OneAnswer
<1>2. M!Channel \in Channels
  BY <1>1 DEF M!Channel
<1>3. ask' \in Asks /\ OneAnswer(ask)'
  <2>1. ask' = M!Ended("done", text)
    BY DEF M!Answered
  <2>2. ask' \in Asks /\ ask'.text = text /\ ask'.at = "done" /\ ask'.api = ask.api /\ ask'.plain = ask.plain
    BY <2>1, EndedTyped
  <2> QED
    BY <2>2 DEF OneAnswer
<1>4. /\ enabled' \subseteq Channels /\ cool' \subseteq Channels
      /\ failures' \in [Channels -> 0..Threshold]
  BY <1>2, ModelBounds DEF M!Answered, CallInv, M!TypeOK
<1>5. learned' \in [M!AllUrls -> M!Apis \cup {M!Unknown}]
  BY <1>1 DEF M!Answered, CallInv, M!TypeOK, Asks
<1> QED
  BY <1>3, <1>4, <1>5 DEF CallInv, M!TypeOK, Asks

LEMMA CallsStep ==
  ASSUME ServicesAssumption, CallInv, [M!Next]_model
  PROVE  CallInv'
<1>1. /\ ask \in Asks /\ ask.todo \in Seq(Channels) /\ ask.text \in {"none", "current"}
      /\ enabled \subseteq Channels /\ cool \subseteq Channels
  BY DEF CallInv, M!TypeOK, Asks, OneAnswer
<1>2. ASSUME ask' \in Asks, OneAnswer(ask'), UNCHANGED <<enabled, cool, failures, learned>>
      PROVE  CallInv'
  BY <1>2 DEF CallInv, M!TypeOK, Asks, OneAnswer
<1>3. CASE UNCHANGED model
  BY <1>3 DEF model, CallInv, M!TypeOK, OneAnswer
<1>4. ASSUME ask.at \in {"building", "asking"}
      PROVE  ask.todo # <<>> /\ M!Channel \in Channels /\ 1 \in 1..Len(Urls[M!Channel])
  <2>1. ask.todo # <<>>
    BY <1>4 DEF CallInv, OneAnswer
  <2>2. M!Channel \in Channels
    BY <1>1, <2>1 DEF M!Channel
  <2> QED
    BY <2>1, <2>2, ModelBounds
<1>5. ASSUME NEW streams \in BOOLEAN, M!Start(streams)
      PROVE  CallInv'
  <2>1. PICK capable \in (SUBSET enabled) \ {{}} :
          \E order \in M!SetToSeqs(IF capable \ cool # {} THEN capable \ cool ELSE capable) :
            ask' = [M!Rest EXCEPT !.at = "building", !.streams = streams, !.todo = order]
    BY <1>5 DEF M!Start
  <2> DEFINE T == IF capable \ cool # {} THEN capable \ cool ELSE capable
  <2>2. PICK order \in M!SetToSeqs(T) :
            ask' = [M!Rest EXCEPT !.at = "building", !.streams = streams, !.todo = order]
    BY <2>1
  <2>3. T \subseteq Channels /\ T # {}
    <3>1. capable \subseteq enabled /\ capable # {}
      BY <2>1
    <3> QED
      BY <1>1, <3>1
  <2>4. IsFiniteSet(T) /\ Cardinality(T) \in Nat /\ Cardinality(T) # 0
    BY <2>3, ModelBounds, FS_Subset, FS_CardinalityType, FS_EmptySet
  <2> HIDE DEF T
  <2>5. order \in [1..Cardinality(T) -> T]
    BY <2>2, SameSets DEF M!SetToSeqs
  <2>6. order \in Seq(Channels) /\ order # <<>>
    BY <2>3, <2>4, <2>5
  <2>7. ask' \in Asks /\ ask'.at = "building" /\ ask'.todo = order /\ ask'.text = "none"
        /\ ~ask'.json
    BY <2>2, <2>6, RestTyped DEF Asks, M!Rest
  <2> QED
    BY <1>2, <1>5, <2>6, <2>7 DEF M!Start, OneAnswer
<1>6. ASSUME NEW usable \in BOOLEAN, M!Build(usable)
      PROVE  CallInv'
  <2>1. ask.at = "building" /\ ask.text = "none" /\ UNCHANGED <<enabled, cool, failures, learned>>
    BY <1>6 DEF M!Build, CallInv, OneAnswer
  <2>2. CASE ~usable
    BY <1>2, <1>6, <2>1, <2>2, EndedTyped DEF M!Build, OneAnswer
  <2>3. CASE usable /\ ask.streams
    <3>1. M!Pinned(M!Channel, Urls[M!Channel][1]) \in M!Apis \cup {M!Unknown}
      BY <1>4, <2>1, PinTyped DEF CallInv
    <3>2. ~ask.json
      BY <2>1 DEF CallInv, OneAnswer
    <3>3. ask' = M!AskStream(1, M!Pinned(M!Channel, Urls[M!Channel][1]))
      BY <1>6, <2>3 DEF M!Build
    <3> QED
      BY <1>2, <1>4, <2>1, <2>3, <3>1, <3>2, <3>3, AskStreamTyped
  <2>4. CASE usable /\ ~ask.streams
    <3>1. ask' = M!AskPlain(M!Channel, 1)
      BY <1>6, <2>4 DEF M!Build
    <3> QED
      BY <1>2, <1>4, <2>1, <3>1, AskPlainTyped
  <2> QED
    BY <1>1, <2>2, <2>3, <2>4 DEF Asks
<1>7. ASSUME NEW c \in Channels, M!Probe(c)
      PROVE  CallInv'
  <2> DEFINE pin == M!Pinned(c, Urls[c][1])
             json == M!FirstApi(pin) = "chat" /\ c \in Json
             x == [M!Rest EXCEPT !.at = "asking", !.plain = TRUE, !.todo = <<c>>, !.tries = 1,
                                 !.pin = pin, !.api = M!FirstApi(pin), !.json = json]
  <2>1. 1 \in 1..Len(Urls[c]) /\ 1 \in 0..MaxAttempts
    BY ModelBounds
  <2>2. pin \in M!Apis \cup {M!Unknown} /\ M!FirstApi(pin) \in M!Apis
    BY <2>1, PinTyped DEF CallInv
  <2>3. json \in BOOLEAN /\ <<c>> \in Seq(Channels) /\ <<c>> # <<>> /\ Head(<<c>>) = c
    OBVIOUS
  <2>4. ask' = x /\ UNCHANGED <<enabled, cool, failures, learned>>
    BY <1>7 DEF M!Probe
  <2> HIDE DEF pin, json
  <2>5. /\ x \in Asks /\ x.at = "asking" /\ x.plain /\ x.todo = <<c>> /\ x.base = 1 /\ x.text = "none"
    BY <2>1, <2>2, <2>3, RestTyped DEF Asks, M!Rest
  <2> HIDE DEF x
  <2> QED
    BY <1>2, <2>1, <2>3, <2>4, <2>5, ModelBounds DEF OneAnswer
<1>8. CASE M!Delta
  <2>1. /\ ask.at = "asking" /\ ~ask.plain /\ UNCHANGED <<enabled, cool, failures, learned>>
        /\ ask' = [ask EXCEPT !.text = "current"]
    BY <1>1, <1>8 DEF M!Delta, Asks
  <2>2. ask' \in Asks
    BY <1>1, <2>1 DEF Asks, M!Texts
  <2>3. /\ ask'.text = "current" /\ ask'.at = "asking" /\ ~ask'.plain /\ ask'.todo = ask.todo
        /\ ask'.base = ask.base /\ ask'.streams = ask.streams /\ ask'.json = ask.json
    BY <1>1, <2>1 DEF Asks
  <2> QED
    BY <1>2, <2>1, <2>2, <2>3 DEF CallInv, OneAnswer
<1>9. CASE M!StreamEnds
  <2>1. ask.at = "asking" /\ ~ask.plain /\ (ask.text = "none" => ask.api = "ollama") /\ M!Answered(ask.text)
    BY <1>9 DEF M!StreamEnds
  <2> QED
    BY <1>1, <2>1, AnsweredStep
<1>10. CASE M!PlainAnswer
  <2>1. ask.at = "asking" /\ ask.plain /\ ask.text = "none"
    BY <1>10 DEF M!PlainAnswer, CallInv, OneAnswer
  <2>2. M!Answered("current") \/ (ask.api = "chat" /\ M!Answered("none"))
    BY <1>10, <2>1 DEF M!PlainAnswer
  <2> QED
    BY <2>1, <2>2, AnsweredStep
(* The same URL once more: a plain request, or one of which nothing was given. *)
<1>11. ASSUME NEW x \in Asks, ask.at = "asking", x.at = "asking", x.text = "none", x.todo = ask.todo, x.base = ask.base,
              x.plain = ask.plain, x.streams = ask.streams, ~ask.plain => ~x.json
       PROVE  OneAnswer(x)
  BY <1>11 DEF CallInv, OneAnswer
<1>12. ASSUME NEW e \in M!Errors, M!Retry(e)
       PROVE  CallInv'
  <2>1. ask.at = "asking" /\ UNCHANGED <<enabled, cool, failures, learned>>
    BY <1>12 DEF M!Retry
  <2>2. CASE M!MayTryAgain(e) /\ ask' = [M!Again(ask) EXCEPT !.tries = ask.tries + 1]
    <3>1. ask.plain /\ ask.text = "none" /\ ask.tries < MaxAttempts
      BY <2>1, <2>2 DEF M!MayTryAgain, CallInv, OneAnswer
    <3>2. ask.tries + 1 \in 0..MaxAttempts
      BY <1>1, <3>1, ModelBounds DEF Asks
    <3>3. M!Again(ask) \in Asks
      BY <1>1, <3>1, AgainTyped
    <3>4. /\ ask' \in Asks /\ ask'.at = "asking" /\ ask'.text = "none" /\ ask'.todo = ask.todo
          /\ ask'.base = ask.base /\ ask'.plain = ask.plain /\ ask'.streams = ask.streams
      BY <1>1, <2>1, <2>2, <3>1, <3>2, <3>3, AgainTyped DEF Asks
    <3> QED
      BY <1>2, <1>11, <2>1, <3>1, <3>4
  <2>3. CASE ask.json /\ ask' = M!Again([ask EXCEPT !.json = FALSE])
    <3>1. ask.plain /\ ask.text = "none"
      BY <2>1, <2>3 DEF CallInv, OneAnswer
    <3> DEFINE x == [ask EXCEPT !.json = FALSE]
    <3>2. /\ x \in Asks /\ x.at = "asking" /\ x.text = "none" /\ x.todo = ask.todo
          /\ x.base = ask.base /\ x.plain = ask.plain /\ x.streams = ask.streams
      BY <1>1, <2>1, <3>1 DEF Asks
    <3>3. ask' = M!Again(x)
      BY <2>3
    <3> HIDE DEF x
    <3> QED
      BY <1>2, <1>11, <2>1, <3>1, <3>2, <3>3, AgainTyped
  <2>4. CASE M!FindsOutItself /\ ask' = M!AskChat
    <3>1. ask.text = "none"
      BY <2>1, <2>4 DEF M!FindsOutItself, M!NothingGiven, CallInv, OneAnswer
    <3> DEFINE x == [ask EXCEPT !.api = "chat", !.json = ask.plain /\ M!Channel \in Json]
    <3>2. /\ x \in Asks /\ x.at = "asking" /\ x.text = "none" /\ x.todo = ask.todo
          /\ x.base = ask.base /\ x.plain = ask.plain /\ x.streams = ask.streams
          /\ ~ask.plain => ~x.json
      <4> DEFINE json == ask.plain /\ M!Channel \in Json
      <4>1. json \in BOOLEAN /\ (~ask.plain => ~json)
        OBVIOUS
      <4>2. x = [ask EXCEPT !.api = "chat", !.json = json]
        OBVIOUS
      <4>3. "chat" \in M!Apis
        BY DEF M!Apis
      <4> HIDE DEF json, x
      <4> QED
        BY <1>1, <2>1, <3>1, <4>1, <4>2, <4>3 DEF Asks
    <3>3. ask' = M!Again(x)
      BY <2>4 DEF M!AskChat
    <3> HIDE DEF x
    <3> QED
      BY <1>2, <1>11, <2>1, <3>2, <3>3, AgainTyped
  <2> QED
    BY <1>12, <2>2, <2>3, <2>4 DEF M!Retry
<1>13. ASSUME NEW e \in M!Errors, M!ChangeUrl(e)
       PROVE  CallInv'
  <2>1. ask.at = "asking" /\ ask.base < Len(Urls[M!Channel]) /\ M!NothingGiven
    BY <1>13 DEF M!ChangeUrl, M!Leaves, M!MayChangeUrl
  <2>2. ask.text = "none"
    BY <2>1 DEF M!NothingGiven, CallInv, OneAnswer
  <2>3. ask.base + 1 \in 1..Len(Urls[M!Channel])
    BY <1>1, <1>4, <2>1, ModelBounds DEF Asks
  <2>4. UNCHANGED <<enabled, cool, failures, learned>>
    BY <1>13 DEF M!ChangeUrl
  <2>5. CASE ask.plain
    <3>1. ask' = M!AskPlain(M!Channel, ask.base + 1)
      BY <1>13, <2>5 DEF M!ChangeUrl
    <3> QED
      BY <1>2, <2>1, <2>2, <2>3, <2>4, <3>1, AskPlainTyped
  <2>6. CASE ~ask.plain
    <3>1. ask' = M!AskStream(ask.base + 1, ask.pin)
      BY <1>13, <2>6 DEF M!ChangeUrl
    <3>2. ask.streams /\ ~ask.json /\ ask.pin \in M!Apis \cup {M!Unknown}
      BY <1>1, <2>1, <2>6 DEF CallInv, OneAnswer, Asks
    <3> QED
      BY <1>2, <2>1, <2>2, <2>3, <2>4, <3>1, <3>2, AskStreamTyped
  <2> QED
    BY <2>5, <2>6
<1>14. ASSUME NEW e \in M!Errors, M!FallToPlain(e)
       PROVE  CallInv'
  <2>1. /\ ask.at = "asking" /\ ask.text = "none" /\ ask' = M!AskPlain(M!Channel, 1)
        /\ UNCHANGED <<enabled, cool, failures, learned>>
    BY <1>14 DEF M!FallToPlain, M!Leaves, M!PlainInstead
  <2> QED
    BY <1>2, <1>4, <2>1, AskPlainTyped
<1>15. ASSUME NEW e \in M!Errors, M!GiveUp(e)
       PROVE  CallInv'
  <2>1. ask.at = "asking" /\ M!Record(M!Channel, e) /\ UNCHANGED learned
    BY <1>15 DEF M!GiveUp, M!Leaves
  <2>2. /\ enabled' \subseteq Channels /\ cool' \subseteq Channels
        /\ failures' \in [Channels -> 0..Threshold]
    BY <1>4, <2>1, RecordTyped DEF CallInv
  <2>3. ask' \in Asks /\ OneAnswer(ask')
    <3>1. CASE ask.streams /\ (ask.text # "none" \/ e \notin M!NextMayWork)
      <4>1. ask' = M!Ended("failed", ask.text)
        BY <1>15, <3>1 DEF M!GiveUp
      <4> QED
        BY <1>1, <4>1, EndedTyped DEF OneAnswer
    <3>2. CASE ~(ask.streams /\ (ask.text # "none" \/ e \notin M!NextMayWork))
      <4>1. ask.text = "none"
        BY <2>1, <3>2 DEF CallInv, OneAnswer
      <4>2. ask' = M!Proceed(Tail(ask.todo))
        BY <1>15, <3>2 DEF M!GiveUp
      <4>3. Tail(ask.todo) \in Seq(Channels)
        BY <1>1, <1>4, <2>1
      <4> QED
        BY <4>1, <4>2, <4>3, ProceedTyped
    <3> QED
      BY <3>1, <3>2
  <2> QED
    BY <2>1, <2>2, <2>3 DEF CallInv, M!TypeOK, Asks, OneAnswer
<1>16. ASSUME NEW c \in Channels, M!Elsewhere(c)
       PROVE  CallInv'
  <2>1. UNCHANGED <<learned, ask>>
    BY <1>16 DEF M!Elsewhere
  <2>2. /\ enabled' \subseteq Channels /\ cool' \subseteq Channels
        /\ failures' \in [Channels -> 0..Threshold]
    <3>1. ASSUME NEW e, M!Record(c, e)
          PROVE  /\ enabled' \subseteq Channels /\ cool' \subseteq Channels
                 /\ failures' \in [Channels -> 0..Threshold]
      BY <3>1, RecordTyped DEF CallInv
    <3>2. CASE enabled' = enabled /\ cool' = cool \ {c} /\ failures' = [failures EXCEPT ![c] = 0]
      BY <3>2, ModelBounds DEF CallInv, M!TypeOK
    <3>3. CASE enabled' = enabled \cup {c} /\ UNCHANGED <<cool, failures>>
      BY <3>3 DEF CallInv, M!TypeOK
    <3> QED
      BY <1>16, <3>1, <3>2, <3>3 DEF M!Elsewhere
  <2> QED
    BY <2>1, <2>2 DEF CallInv, M!TypeOK, OneAnswer
<1> QED
  BY <1>3, <1>5, <1>6, <1>7, <1>8, <1>9, <1>10, <1>12, <1>13, <1>14, <1>15, <1>16 DEF M!Next

(***************************************************************************)
(* A caller of the model is given text of one answer only, and of one when *)
(* the call ends well unless a stream of Ollama or a plain chat completion *)
(* was empty, for any channels, URLs and number of attempts                *)
(* (_stream_with_base_url_fallback, stream_generate, stream_with_gateway,  *)
(* _extract_openai_content).                                               *)
(***************************************************************************)
THEOREM OneAnswerGiven ==
  ASSUME ServicesAssumption
  PROVE  /\ M!Spec => []M!OneWholeAnswer
         /\ ServicesSpec => []OneWholeAnswer
<1>1. M!Init => CallInv
  BY CallInit DEF ServicesAssumption
<1>2. CallInv /\ [M!Next]_model => (CallInv)'
  BY CallsStep DEF ServicesAssumption
<1>3. CallInv => M!OneWholeAnswer
  BY DEF CallInv, OneAnswer, M!OneWholeAnswer
<1>4. M!Spec => []M!OneWholeAnswer
  BY <1>1, <1>2, <1>3, PTL DEF M!Spec, M!vars, model
<1>5. M!OneWholeAnswer => OneWholeAnswer
  BY DEF OneWholeAnswer
<1> QED
  BY <1>4, <1>5, EachServiceRuns, PTL

-----------------------------------------------------------------------------
(***************************************************************************)
(* The remediation of one finding.  A worker that is past a step has run   *)
(* it if it was chosen; what it is about to report says so, and says which *)
(* re-verification it queued; once the success is stored it is idle for    *)
(* good, and the verdicts that come later replace the pending one.         *)
(***************************************************************************)
RunInv ==
  /\ X!TypeOK
  /\ entry.mode # "apply" => worker.at = "idle"
  /\ worker.at \in {"stepping", "stepped"} =>
       /\ worker.ok \subseteq worker.chosen
       /\ \A s \in worker.chosen : s < worker.next => s \in worker.ok \cup worker.bad
  /\ worker.at = "stepping" => worker.next <= LastStep
  /\ worker.at = "stepped" => worker.next = LastStep + 1 \/ worker.bad # {}
  /\ worker.at \in {"reporting", "closing"} =>
       /\ worker.result.execution # "failed" => worker.ok = worker.chosen
       /\ worker.result.business = "pending" =>
            worker.result.by = worker.attempt + 1 /\ verifier[worker.attempt].at # "none"
  /\ entry.mode = "apply" /\ entry.status = "SUCCESS" => worker.at = "idle" /\ X!SuccessIsBacked

LEMMA RunInit ==
  ASSUME ServicesAssumption, X!Init
  PROVE  RunInv
<1>1. LastStep \in Nat \ {0} /\ MaxAgain \in Nat
  BY DEF ServicesAssumption, X!FindingRunAssumption
<1>2. X!Nothing \in X!Results
  BY <1>1 DEF X!Nothing, X!Results, X!Businesses, X!Verdicts
<1>3. X!TypeOK
  BY <1>1, <1>2 DEF X!TypeOK, X!Init, X!Attempts, X!Steps, X!Verdicts
<1> QED
  BY <1>3 DEF RunInv, X!Init

LEMMA RunStep ==
  ASSUME ServicesAssumption, RunInv, [X!Next]_fix
  PROVE  RunInv'
<1>1. LastStep \in Nat \ {0} /\ MaxAgain \in Nat
  BY DEF ServicesAssumption, X!FindingRunAssumption
<1>2. CASE UNCHANGED fix
  BY <1>2 DEF RunInv, fix, X!TypeOK, X!SuccessIsBacked
<1> DEFINE
  Worker == [at : {"idle", "queued", "loading", "copied", "stepping", "stepped", "reporting", "closing"},
             attempt : X!Attempts, chosen : SUBSET X!Steps, next : 1..LastStep + 1,
             ok : SUBSET X!Steps, bad : SUBSET X!Steps, result : X!Results]
  Entry == [mode : {"none", "apply", "dry_run"}, result : X!Results,
            status : {"none", "PENDING", "RUNNING", "RETRY", "SUCCESS", "FAILURE", "CANCELED"}]
  Verifier == [at : {"none", "queued", "judged", "done", "lost"},
               verdict : X!Verdicts \cup {"none"}, read : X!Results]
<1>3. /\ worker \in Worker /\ entry \in Entry /\ verifier \in [X!Attempts -> Verifier]
      /\ overtaken \subseteq X!Attempts
  BY DEF RunInv, X!TypeOK
<1>4. ASSUME worker' \in Worker, entry' \in Entry, verifier' \in [X!Attempts -> Verifier],
             overtaken' \subseteq X!Attempts
      PROVE  X!TypeOK'
  BY <1>4 DEF X!TypeOK
<1>5. ASSUME NEW chosen \in SUBSET X!Steps, X!Execute(chosen)
      PROVE  RunInv'
  <2>1. /\ entry' \in Entry /\ entry'.mode = "apply" /\ entry'.status = "PENDING"
        /\ worker' \in Worker /\ worker'.at = "queued" /\ UNCHANGED <<verifier, overtaken>>
    BY <1>3, <1>5 DEF X!Execute
  <2> QED
    BY <1>3, <1>4, <2>1 DEF RunInv
<1>6. CASE X!Preview
  <2>1. /\ entry' \in Entry /\ entry'.mode = "dry_run" /\ UNCHANGED <<worker, verifier, overtaken>>
        /\ worker.at = "idle"
    BY <1>1, <1>3, <1>6
       DEF X!Preview, X!Nothing, X!Results, X!Businesses, X!Verdicts, RunInv
  <2> QED
    BY <1>3, <1>4, <2>1 DEF RunInv
<1>7. CASE X!Cancel
  <2>1. /\ entry' \in Entry /\ entry'.mode = "apply" /\ entry'.status = "CANCELED"
        /\ entry.mode = "apply" /\ UNCHANGED <<worker, verifier, overtaken>>
    BY <1>3, <1>7 DEF X!Cancel
  <2> QED
    BY <1>3, <1>4, <2>1 DEF RunInv
(* A worker at work has no success behind it. *)
<1>8. worker.at # "idle" => entry.mode = "apply" /\ entry.status # "SUCCESS"
  BY <1>3 DEF RunInv
<1>9. ASSUME NEW place \in {"idle", "loading", "closing"}, X!Goes(place)
      PROVE  /\ worker' \in Worker /\ worker'.at = place /\ worker'.ok = worker.ok
             /\ worker'.chosen = worker.chosen /\ worker'.result = worker.result
             /\ worker'.attempt = worker.attempt
  BY <1>3, <1>9 DEF X!Goes
<1>10. CASE X!Stops
  <2>1. worker' \in Worker /\ worker'.at = "idle"
    BY <1>9, <1>10 DEF X!Stops
  <2>2. entry.status = "CANCELED" /\ UNCHANGED <<entry, verifier, overtaken>>
    BY <1>10 DEF X!Stops
  <2> QED
    BY <1>3, <1>4, <2>1, <2>2 DEF RunInv
<1>11. CASE X!Begin
  <2>1. worker' \in Worker /\ worker'.at = "loading" /\ worker.at # "idle"
    BY <1>9, <1>11 DEF X!Begin
  <2>2. /\ entry' \in Entry /\ entry'.status = "RUNNING" /\ entry'.mode = entry.mode
        /\ UNCHANGED <<verifier, overtaken>>
    BY <1>3, <1>11 DEF X!Begin
  <2> QED
    BY <1>3, <1>4, <1>8, <2>1, <2>2 DEF RunInv
<1>12. CASE X!CopyResult
  <2>1. worker' \in Worker /\ worker'.at = "copied" /\ worker.at # "idle"
    BY <1>3, <1>12 DEF X!CopyResult
  <2>2. UNCHANGED <<entry, verifier, overtaken>>
    BY <1>12 DEF X!CopyResult
  <2> QED
    BY <1>3, <1>4, <1>8, <2>1, <2>2 DEF RunInv
<1>13. ASSUME NEW status \in {"RUNNING", "RETRY", "FAILURE", "SUCCESS"}, NEW reply \in X!Results,
              X!Report(status, reply), worker.at # "idle"
       PROVE  /\ entry' \in Entry /\ entry'.mode = "apply"
              /\ entry'.status = "SUCCESS" => status = "SUCCESS" /\ entry'.result = reply
  <2>1. CASE entry.status \in X!Ended
    BY <1>3, <1>8, <1>13, <2>1 DEF X!Report
  <2>2. CASE entry.status \notin X!Ended
    <3>1. entry' = [entry EXCEPT !.status = status, !.result = reply]
      BY <1>13, <2>2 DEF X!Report
    <3> QED
      BY <1>3, <1>8, <1>13, <3>1
  <2> QED
    BY <2>1, <2>2
<1>14. CASE X!WriteBack
  <2>1. /\ worker' \in Worker /\ worker'.at \in {"loading", "stepping"} /\ worker.at # "idle"
        /\ worker'.next = 1 /\ worker'.ok = {}
    <3>1. PICK goes \in {"loading", "stepping"} :
            worker' = [worker EXCEPT !.at = goes, !.next = 1, !.ok = {}, !.bad = {}]
      BY <1>14 DEF X!WriteBack
    <3>2. 1 \in 1..LastStep + 1 /\ {} \in SUBSET X!Steps
      BY <1>1
    <3>3. worker' \in Worker /\ worker'.at = goes /\ worker'.next = 1 /\ worker'.ok = {}
      BY <1>3, <3>1, <3>2
    <3> QED
      BY <1>14, <3>3 DEF X!WriteBack
  <2>2. /\ entry' \in Entry /\ entry'.mode = "apply" /\ entry'.status # "SUCCESS"
        /\ UNCHANGED <<verifier, overtaken>>
    BY <1>3, <1>13, <1>14 DEF X!WriteBack
  <2>3. worker'.chosen \subseteq Nat \ {0}
    BY <1>1, <2>1 DEF X!Steps
  <2> QED
    BY <1>1, <1>3, <1>4, <2>1, <2>2, <2>3 DEF RunInv
<1>15. ASSUME NEW works \in BOOLEAN, X!Step(works)
       PROVE  RunInv'
  <2>1. /\ worker.at = "stepping" /\ worker.next \in worker.chosen /\ worker.next \in 1..LastStep
        /\ worker.chosen \subseteq Nat
        /\ UNCHANGED <<entry, verifier, overtaken>>
    BY <1>1, <1>3, <1>15 DEF X!Step, X!Steps
  <2>2. /\ worker'.next = worker.next + 1 /\ worker'.chosen = worker.chosen
        /\ worker'.at \in {"stepping", "stepped"}
        /\ worker'.at = "stepping" => worker.next + 1 <= LastStep
        /\ worker'.at = "stepped" => ~works \/ worker.next + 1 > LastStep
        /\ worker'.ok = (IF works THEN worker.ok \cup {worker.next} ELSE worker.ok)
        /\ worker'.bad = (IF works THEN worker.bad ELSE worker.bad \cup {worker.next})
        /\ worker'.attempt = worker.attempt /\ worker'.result = worker.result
        /\ worker' \in Worker
    <3> DEFINE stop == ~works /\ StopsOnFailure
               place == IF stop \/ worker.next + 1 > LastStep THEN "stepped" ELSE "stepping"
               ok == IF works THEN worker.ok \cup {worker.next} ELSE worker.ok
               bad == IF works THEN worker.bad ELSE worker.bad \cup {worker.next}
    <3>1. worker' = [worker EXCEPT !.next = worker.next + 1, !.at = place, !.ok = ok, !.bad = bad]
      BY <1>3, <1>15 DEF X!Step
    <3>2. /\ place \in {"stepping", "stepped"} /\ worker.next + 1 \in 1..LastStep + 1
          /\ place = "stepping" => worker.next + 1 <= LastStep
          /\ place = "stepped" => ~works \/ worker.next + 1 > LastStep
      BY <1>1, <2>1
    <3>3. ok \in SUBSET X!Steps /\ bad \in SUBSET X!Steps
      BY <1>3, <2>1 DEF X!Steps
    <3> HIDE DEF place, ok, bad
    <3>4. /\ worker'.next = worker.next + 1 /\ worker'.chosen = worker.chosen
          /\ worker'.at = place /\ worker'.ok = ok /\ worker'.bad = bad
          /\ worker'.attempt = worker.attempt /\ worker'.result = worker.result
          /\ worker' \in Worker
      BY <1>3, <3>1, <3>2, <3>3
    <3> QED
      BY <3>2, <3>4 DEF ok, bad
  <2>3. \A s \in worker'.chosen : s < worker'.next => s \in worker'.ok \cup worker'.bad
    <3> SUFFICES ASSUME NEW s \in worker.chosen, s < worker.next + 1
                 PROVE  s \in worker'.ok \cup worker'.bad
      BY <2>2
    <3>1. s < worker.next \/ s = worker.next
      BY <2>1
    <3> QED
      BY <2>1, <2>2, <3>1 DEF RunInv
  <2>4. worker'.ok \subseteq worker'.chosen
    BY <2>1, <2>2 DEF RunInv
  <2>5. worker'.at = "stepped" => worker'.next = LastStep + 1 \/ worker'.bad # {}
    BY <1>1, <2>1, <2>2
  <2>6. worker'.at = "stepping" => worker'.next <= LastStep
    BY <2>2
  <2>7. X!TypeOK'
    BY <1>3, <1>4, <2>1, <2>2
  <2>8. entry'.mode = "apply" /\ entry'.status # "SUCCESS"
    BY <1>8, <2>1
  <2> QED
    BY <2>2, <2>3, <2>4, <2>5, <2>6, <2>7, <2>8 DEF RunInv
<1>16. CASE X!PassOver
  <2>1. /\ worker.at = "stepping" /\ worker.next \notin worker.chosen /\ worker.next \in 1..LastStep
        /\ worker.chosen \subseteq Nat
        /\ UNCHANGED <<entry, verifier, overtaken>>
    BY <1>1, <1>3, <1>16 DEF X!PassOver, X!Steps
  <2>2. /\ worker' \in Worker /\ worker'.next = worker.next + 1 /\ worker'.chosen = worker.chosen
        /\ worker'.at = (IF worker.next = LastStep THEN "stepped" ELSE "stepping")
        /\ worker'.ok = worker.ok /\ worker'.bad = worker.bad
    <3> DEFINE goes == IF worker.next = LastStep THEN "stepped" ELSE "stepping"
    <3>1. worker' = [worker EXCEPT !.next = worker.next + 1, !.at = goes]
      BY <1>3, <1>16 DEF X!PassOver
    <3>2. goes \in {"stepping", "stepped"} /\ worker.next + 1 \in 1..LastStep + 1
      BY <1>1, <2>1
    <3> HIDE DEF goes
    <3>3. /\ worker' \in Worker /\ worker'.next = worker.next + 1 /\ worker'.chosen = worker.chosen
          /\ worker'.at = goes /\ worker'.ok = worker.ok /\ worker'.bad = worker.bad
      BY <1>3, <3>1, <3>2
    <3> QED
      BY <3>3 DEF goes
  <2>3. \A s \in worker'.chosen : s < worker'.next => s \in worker'.ok \cup worker'.bad
    BY <2>1, <2>2 DEF RunInv
  <2>4. worker'.at = "stepping" => worker'.next <= LastStep
    BY <1>1, <2>1, <2>2
  <2>5. X!TypeOK'
    BY <1>3, <1>4, <2>1, <2>2
  <2>6. entry'.mode = "apply" /\ entry'.status # "SUCCESS"
    BY <1>8, <2>1
  <2> QED
    BY <2>1, <2>2, <2>3, <2>4, <2>5, <2>6 DEF RunInv
<1>17. ASSUME NEW verifies \in BOOLEAN, X!Conclude(verifies)
       PROVE  RunInv'
  <2> DEFINE triggered == verifies /\ worker.ok # {}
             reply == [execution |-> IF X!StepFailed THEN "failed" ELSE "succeeded",
                        business |-> IF X!StepFailed THEN "failed" ELSE IF triggered THEN "pending" ELSE "none",
                        by |-> IF triggered THEN worker.attempt + 1 ELSE 0]
  <2>1. /\ worker.at = "stepped" /\ worker' = [worker EXCEPT !.at = "reporting", !.result = reply]
        /\ verifier' = IF triggered THEN [verifier EXCEPT ![worker.attempt].at = "queued"] ELSE verifier
        /\ UNCHANGED <<entry, overtaken>>
    BY <1>17 DEF X!Conclude
  <2>2. worker.attempt \in 0..MaxAgain
    BY <1>3 DEF X!Attempts
  <2>3. reply \in X!Results
    BY <1>1, <2>2 DEF X!Results, X!Businesses, X!Verdicts
  <2>4. /\ reply.execution # "failed" => worker.bad = {}
        /\ reply.business = "pending" => triggered /\ reply.by = worker.attempt + 1
    BY DEF X!StepFailed
  <2>5. verifier' \in [X!Attempts -> Verifier] /\ (triggered => verifier'[worker.attempt].at # "none")
    BY <1>3, <2>1, <2>2 DEF X!Attempts
  <2> HIDE DEF triggered, reply
  <2>6. /\ worker' \in Worker /\ worker'.at = "reporting" /\ worker'.result = reply
        /\ worker'.ok = worker.ok /\ worker'.chosen = worker.chosen /\ worker'.attempt = worker.attempt
    BY <1>3, <2>1, <2>3
  <2>7. worker.bad = {} => worker.ok = worker.chosen
    <3> SUFFICES ASSUME worker.bad = {}  PROVE worker.ok = worker.chosen
      OBVIOUS
    <3>1. worker.next = LastStep + 1 /\ worker.ok \subseteq worker.chosen
      BY <2>1 DEF RunInv
    <3>2. \A s \in worker.chosen : s < worker.next
      BY <1>1, <1>3, <3>1 DEF X!Steps
    <3> QED
      BY <2>1, <3>1, <3>2 DEF RunInv
  <2>8. X!TypeOK'
    BY <1>3, <1>4, <2>1, <2>5, <2>6
  <2>9. entry'.mode = "apply" /\ entry'.status # "SUCCESS"
    BY <1>8, <2>1
  <2> QED
    BY <2>4, <2>5, <2>6, <2>7, <2>8, <2>9 DEF RunInv
<1>18. ASSUME X!WritesOver, worker.at # "idle"
       PROVE  /\ overtaken' \subseteq X!Attempts
              /\ verifier[worker.attempt].at = "done" => worker.attempt \in overtaken'
  BY <1>3, <1>18 DEF X!WritesOver
<1>19. CASE X!PostValidate
  <2>1. /\ worker.at = "reporting" /\ UNCHANGED verifier /\ X!WritesOver
        /\ X!Report("RUNNING", worker.result) /\ X!Goes("closing")
    BY <1>19 DEF X!PostValidate
  <2>2. entry' \in Entry /\ entry'.mode = "apply" /\ entry'.status # "SUCCESS"
    BY <1>3, <1>13, <2>1
  <2>3. X!TypeOK'
    BY <1>3, <1>4, <1>9, <1>18, <2>1, <2>2
  <2> QED
    BY <1>9, <2>1, <2>2, <2>3 DEF RunInv
<1>20. CASE X!Close
  <2>1. worker.at = "closing" /\ UNCHANGED verifier /\ X!Goes("idle")
    BY <1>20 DEF X!Close
  <2>2. /\ worker' \in Worker /\ worker'.at = "idle" /\ worker'.ok = worker.ok
        /\ worker'.chosen = worker.chosen
    BY <1>9, <2>1
  <2>3. CASE worker.result.execution = "failed"
    <3>1. X!Report("FAILURE", entry.result) /\ UNCHANGED overtaken
      BY <1>20, <2>3 DEF X!Close
    <3>2. entry' \in Entry /\ entry'.status # "SUCCESS"
      BY <1>3, <1>13, <2>1, <3>1
    <3> QED
      BY <1>3, <1>4, <2>1, <2>2, <3>1, <3>2 DEF RunInv
  <2>4. CASE worker.result.execution # "failed"
    <3>1. X!Report("SUCCESS", worker.result) /\ X!WritesOver
      BY <1>20, <2>4 DEF X!Close
    <3>2. entry' \in Entry /\ (entry'.status = "SUCCESS" => entry'.result = worker.result)
      BY <1>3, <1>13, <2>1, <3>1
    <3>3. X!TypeOK'
      BY <1>3, <1>4, <1>18, <2>1, <2>2, <3>1, <3>2
    <3>4. worker.ok = worker.chosen
      BY <2>1, <2>4 DEF RunInv
    <3>5. ASSUME entry'.status = "SUCCESS", entry'.result.business = "pending"
          PROVE  \/ verifier'[entry'.result.by - 1].at \in {"queued", "judged", "lost"}
                 \/ entry'.result.by - 1 \in overtaken'
      <4>1. entry'.result.by = worker.attempt + 1 /\ verifier[worker.attempt].at # "none"
        BY <2>1, <3>2, <3>5 DEF RunInv
      <4>2. worker.attempt \in Nat /\ worker.attempt \in X!Attempts
        BY <1>1, <1>3 DEF X!Attempts
      <4>3. entry'.result.by - 1 = worker.attempt
        BY <4>1, <4>2
      <4>4. verifier[worker.attempt].at \in {"queued", "judged", "done", "lost"}
        BY <1>3, <4>1, <4>2
      <4>5. verifier[worker.attempt].at = "done" => worker.attempt \in overtaken'
        BY <1>18, <2>1, <3>1
      <4> QED
        BY <2>1, <4>3, <4>4, <4>5
    <3>6. X!SuccessIsBacked'
      BY <2>2, <3>4, <3>5 DEF X!SuccessIsBacked
    <3> QED
      BY <2>2, <3>3, <3>6 DEF RunInv
  <2> QED
    BY <2>3, <2>4
<1>21. CASE X!Break
  <2>1. worker.at \notin {"idle", "queued"} /\ UNCHANGED <<verifier, overtaken>>
    BY <1>21 DEF X!Break
  <2>2. CASE worker.attempt < MaxAgain
    <3>1. /\ worker' = [worker EXCEPT !.at = "queued", !.attempt = @ + 1]
          /\ X!Report("RETRY", entry.result)
      BY <1>21, <2>2 DEF X!Break
    <3>2. worker' \in Worker /\ worker'.at = "queued"
      <4>1. worker.attempt + 1 \in X!Attempts
        BY <1>1, <1>3, <2>2 DEF X!Attempts
      <4> QED
        BY <1>3, <3>1, <4>1
    <3>3. entry' \in Entry /\ entry'.mode = "apply" /\ entry'.status # "SUCCESS"
      BY <1>3, <1>13, <2>1, <3>1
    <3> QED
      BY <1>3, <1>4, <2>1, <3>2, <3>3 DEF RunInv
  <2>3. CASE ~(worker.attempt < MaxAgain)
    <3>1. X!Goes("idle") /\ X!Report("FAILURE", entry.result)
      BY <1>21, <2>3 DEF X!Break
    <3>2. worker' \in Worker /\ worker'.at = "idle"
      BY <1>9, <3>1
    <3>3. entry' \in Entry /\ entry'.mode = "apply" /\ entry'.status # "SUCCESS"
      BY <1>3, <1>13, <2>1, <3>1
    <3> QED
      BY <1>3, <1>4, <2>1, <3>2, <3>3 DEF RunInv
  <2> QED
    BY <2>2, <2>3
<1>22. CASE X!Die
  <2>1. /\ worker.at # "idle" /\ X!Goes("idle") /\ UNCHANGED <<entry, verifier, overtaken>>
    BY <1>22 DEF X!Die
  <2>2. worker' \in Worker /\ worker'.at = "idle"
    BY <1>9, <2>1
  <2> QED
    BY <1>3, <1>4, <1>8, <2>1, <2>2 DEF RunInv
(* A verifier that goes on, and does not come to its end, leaves a pending  *)
(* verdict on its way.                                                     *)
<1>23. ASSUME NEW a \in X!Attempts, NEW v \in Verifier, verifier' = [verifier EXCEPT ![a] = v],
              v.at \in {"judged", "lost"}, UNCHANGED <<entry, worker, overtaken>>
       PROVE  RunInv'
  <2>1. verifier' \in [X!Attempts -> Verifier] /\ X!TypeOK'
    BY <1>3, <1>4, <1>23
  <2>2. /\ verifier'[a].at \in {"judged", "lost"}
        /\ \A b \in X!Attempts \ {a} : verifier'[b] = verifier[b]
    BY <1>3, <1>23
  <2>3. worker.attempt \in X!Attempts
    BY <1>3
  <2>4. entry.result.business = "pending" /\ X!SuccessIsBacked =>
          X!SuccessIsBacked'
    <3> SUFFICES ASSUME X!SuccessIsBacked, entry.mode = "apply", entry.status = "SUCCESS",
                        entry.result.business = "pending"
                 PROVE  \/ verifier'[entry.result.by - 1].at \in {"queued", "judged", "lost"}
                        \/ entry.result.by - 1 \in overtaken
      BY <1>23 DEF X!SuccessIsBacked
    <3> DEFINE b == entry.result.by - 1
    <3>1. verifier[b].at \in {"queued", "judged", "lost"} \/ b \in overtaken
      BY DEF X!SuccessIsBacked
    <3>2. CASE b = a
      BY <2>2, <3>2
    <3>3. CASE b # a
      <4>1. verifier'[b] = verifier[b]
        BY <1>3, <1>23, <3>3
      <4> QED
        BY <3>1, <4>1
    <3> QED
      BY <3>2, <3>3
  <2>5. X!SuccessIsBacked => X!SuccessIsBacked'
    BY <1>23, <2>4 DEF X!SuccessIsBacked
  <2>6. verifier[worker.attempt].at # "none" => verifier'[worker.attempt].at # "none"
    BY <2>2, <2>3
  <2> QED
    BY <1>23, <2>1, <2>5, <2>6 DEF RunInv
<1>24. ASSUME NEW a \in X!Attempts, NEW verdict \in X!Verdicts, X!Verify(a, verdict)
       PROVE  RunInv'
  <2> DEFINE v == [at |-> "judged", verdict |-> verdict, read |-> entry.result]
  <2>1. v \in Verifier /\ v.at = "judged"
    BY <1>3
  <2>2. verifier' = [verifier EXCEPT ![a] = v] /\ UNCHANGED <<entry, worker, overtaken>>
    BY <1>24 DEF X!Verify
  <2> HIDE DEF v
  <2> QED
    BY <1>23, <2>1, <2>2
<1>25. ASSUME NEW a \in X!Attempts, X!VerifierLost(a)
       PROVE  RunInv'
  <2> DEFINE v == [verifier[a] EXCEPT !.at = "lost"]
  <2>1. v \in Verifier /\ v.at = "lost"
    BY <1>3
  <2>2. verifier' = [verifier EXCEPT ![a] = v] /\ UNCHANGED <<entry, worker, overtaken>>
    BY <1>3, <1>25 DEF X!VerifierLost
  <2> HIDE DEF v
  <2> QED
    BY <1>23, <2>1, <2>2
<1>26. ASSUME NEW a \in X!Attempts, X!Finalize(a)
       PROVE  RunInv'
  <2> DEFINE reply == [verifier[a].read EXCEPT !.business = verifier[a].verdict, !.by = a + 1]
  <2>1. verifier[a] \in Verifier /\ a + 1 \in 0..MaxAgain + 1
    BY <1>1, <1>3 DEF X!Attempts
  <2>2. reply \in X!Results /\ reply.business # "pending"
    BY <2>1 DEF X!Results, X!Businesses, X!Verdicts
  <2>3. /\ entry' = [entry EXCEPT !.result = reply] /\ verifier' = [verifier EXCEPT ![a].at = "done"]
        /\ UNCHANGED <<worker, overtaken>>
    BY <1>26 DEF X!Finalize
  <2> HIDE DEF reply
  <2>4. /\ entry' \in Entry /\ entry'.result = reply /\ entry'.status = entry.status
        /\ entry'.mode = entry.mode
    BY <1>3, <2>2, <2>3
  <2>5. /\ verifier' \in [X!Attempts -> Verifier]
        /\ verifier[worker.attempt].at # "none" => verifier'[worker.attempt].at # "none"
    BY <1>3, <2>3
  <2>6. X!TypeOK'
    BY <1>3, <1>4, <2>3, <2>4, <2>5
  <2>7. X!SuccessIsBacked => X!SuccessIsBacked'
    BY <2>2, <2>3, <2>4 DEF X!SuccessIsBacked
  <2> QED
    BY <2>3, <2>4, <2>5, <2>6, <2>7 DEF RunInv
<1> QED
  BY <1>2, <1>5, <1>6, <1>7, <1>10, <1>11, <1>12, <1>14, <1>15, <1>16, <1>17, <1>19, <1>20,
     <1>21, <1>22, <1>24, <1>25, <1>26 DEF X!Next

(***************************************************************************)
(* The success of a finding's remediation is backed by every step that was *)
(* asked for, and its pending verdict by a re-verification on its way, for *)
(* plans and retries of any length (remediation_executor.py:518,           *)
(* remediation_tasks.py:84).                                               *)
(***************************************************************************)
THEOREM SuccessBacked ==
  ASSUME ServicesAssumption
  PROVE  /\ X!Spec => []X!SuccessIsBacked
         /\ ServicesSpec => []SuccessIsBacked
<1>1. X!Init => RunInv
  BY RunInit DEF ServicesAssumption
<1>2. RunInv /\ [X!Next]_fix => (RunInv)'
  BY RunStep DEF ServicesAssumption
<1>3. RunInv => X!SuccessIsBacked
  BY DEF RunInv, X!SuccessIsBacked
<1>4. X!Spec => []X!SuccessIsBacked
  BY <1>1, <1>2, <1>3, PTL DEF X!Spec, X!vars, fix
<1>5. X!SuccessIsBacked => SuccessIsBacked
  BY DEF SuccessIsBacked
<1> QED
  BY <1>4, <1>5, EachServiceRuns, PTL

-----------------------------------------------------------------------------
(***************************************************************************)
(* The applying of settings.  While the services are recreated and checked *)
(* whoever has what the request changed is in its history, and a service   *)
(* that was found right had it.                                            *)
(***************************************************************************)
AppliesInv ==
  /\ P!TypeOK
  /\ \A a \in Applies :
       /\ apply[a].at \in {"none", "sent", "accepted", "written", "composing"} => apply[a].checked = {}
       /\ apply[a].at \in {"written", "composing", "checking"} =>
            /\ \A s \in P!Services : P!Has(env[s], a) => s \in loaded[a]
            /\ ~apply[a].bad => apply[a].checked \subseteq loaded[a]
       /\ apply[a].status = "SUCCESS" =>
            apply[a].at \in {"failing", "ended"} /\ loaded[a] = P!Services

LEMMA AppliesInit ==
  ASSUME P!Init
  PROVE  AppliesInv
<1>1. P!First \in P!Files
  BY DEF P!First, P!Files, P!Values
<1>2. P!TypeOK
  BY <1>1 DEF P!Init, P!TypeOK, P!New
<1> QED
  BY <1>2 DEF P!Init, AppliesInv, P!New

(***************************************************************************)
(* A step of one request that neither writes the file nor recreates a      *)
(* service: it may find a service right, which then has its values, and    *)
(* it is a success when both were found right.                             *)
(***************************************************************************)
Applying == [at : {"none", "sent", "accepted", "written", "composing", "checking", "failing", "ended"},
             status : {"none", "RUNNING", "SUCCESS", "FAILURE"}, content : P!Files,
             changed : SUBSET P!Fields, read : P!Files, up : SUBSET P!Services, checked : SUBSET P!Services,
             bad : BOOLEAN]

LEMMA OneApplies ==
  ASSUME AppliesInv, NEW a \in Applies, NEW x \in Applying, apply' = [apply EXCEPT ![a] = x],
         UNCHANGED <<file, env, loaded>>,
         x.at \in {"none", "sent", "accepted", "written", "composing"} => x.checked = {},
         x.at \in {"written", "composing", "checking"} =>
           /\ apply[a].at \in {"written", "composing", "checking"}
           /\ x.changed = apply[a].changed /\ x.content = apply[a].content
           /\ ~x.bad => x.checked \subseteq loaded[a],
         x.status = "SUCCESS" => x.at \in {"failing", "ended"} /\ loaded[a] = P!Services
  PROVE  AppliesInv'
<1>1. /\ apply \in [Applies -> Applying] /\ apply'[a] = x
      /\ \A b \in Applies \ {a} : apply'[b] = apply[b]
  BY DEF AppliesInv, P!TypeOK, Applying
<1>2. P!TypeOK'
  BY <1>1 DEF AppliesInv, P!TypeOK, Applying
<1>3. ASSUME NEW b \in Applies, apply'[b].at \in {"written", "composing", "checking"}
      PROVE  /\ \A s \in P!Services : P!Has(env[s], b)' => s \in loaded'[b]
             /\ ~apply'[b].bad => apply'[b].checked \subseteq loaded'[b]
  <2>1. CASE b = a
    BY <1>1, <1>3, <2>1 DEF AppliesInv, P!Has
  <2>2. CASE b # a
    BY <1>1, <1>3, <2>2 DEF AppliesInv, P!Has
  <2> QED
    BY <2>1, <2>2
<1> QED
  BY <1>1, <1>2, <1>3 DEF AppliesInv

LEMMA AppliesStep ==
  ASSUME AppliesInv, [P!Next]_settings
  PROVE  AppliesInv'
<1> USE DEF AppliesInv
<1>1. CASE UNCHANGED settings
  BY <1>1 DEF settings, P!TypeOK, P!Has
<1>2. CASE P!HelperDies
  <2>1. P!TypeOK' /\ UNCHANGED <<file, env, loaded>>
    BY <1>2, SMTT(30), ZenonT(30) DEF P!HelperDies, P!TypeOK
  <2>2. ASSUME NEW a \in Applies
        PROVE  apply'[a] = apply[a] \/ (apply'[a].at = "ended" /\ apply'[a].status = apply[a].status)
    BY <1>2 DEF P!HelperDies, P!TypeOK
  <2> QED
    BY <2>1, <2>2 DEF P!Has
<1>3. ASSUME NEW a \in Applies,
             \/ \E entersKey \in BOOLEAN : P!Put(a, entersKey)
             \/ P!Accept(a) \/ P!PostFails(a) \/ P!WriteFile(a) \/ P!Resolve(a) \/ P!Healthy(a)
             \/ \E s \in P!Services : P!Recreate(a, s) \/ P!Check(a, s)
             \/ P!ReportSuccess(a) \/ P!Fail(a) \/ P!ReportFailure(a)
      PROVE  AppliesInv'
  <2>1. /\ apply \in [Applies -> Applying] /\ apply[a] \in Applying /\ file \in P!Files
        /\ env \in [P!Services -> P!Files] /\ loaded \in [Applies -> SUBSET P!Services]
    BY DEF P!TypeOK, Applying
  <2>2. ASSUME NEW entersKey \in BOOLEAN, P!Put(a, entersKey)  PROVE AppliesInv'
    <3>1. P!Content(a, entersKey) \in P!Files /\ P!Changed(P!Content(a, entersKey)) \subseteq P!Fields
      BY <2>1 DEF P!Content, P!Changed, P!Files, P!Fields, P!Values
    <3>2. P!First \in P!Files
      BY DEF P!First, P!Files, P!Values
    <3>3. PICK x \in Applying : /\ apply' = [apply EXCEPT ![a] = x] /\ x.at = "sent"
                               /\ x.status = "RUNNING" /\ x.checked = {}
                               /\ UNCHANGED <<file, env, loaded>>
      <4> DEFINE x == [P!New EXCEPT !.at = "sent", !.status = "RUNNING", !.content = P!Content(a, entersKey),
                                    !.changed = P!Changed(P!Content(a, entersKey))]
      <4>1. x \in Applying /\ x.at = "sent" /\ x.status = "RUNNING" /\ x.checked = {}
        BY <3>1, <3>2 DEF Applying, P!New
      <4>2. apply' = [apply EXCEPT ![a] = x] /\ UNCHANGED <<file, env, loaded>>
        BY <2>2 DEF P!Put
      <4> HIDE DEF x
      <4> QED
        BY <4>1, <4>2
    <3> QED
      BY <3>3, OneApplies
  <2>3. ASSUME NEW place \in {"accepted", "checking", "failing", "ended"}, P!Becomes(a, place)
        PROVE  \E x \in Applying :
                 /\ apply' = [apply EXCEPT ![a] = x] /\ x.at = place /\ x.status = apply[a].status
                 /\ x.checked = apply[a].checked /\ x.bad = apply[a].bad
                 /\ x.changed = apply[a].changed /\ x.content = apply[a].content
    <3> DEFINE x == [apply[a] EXCEPT !.at = place]
    <3>1. /\ x \in Applying /\ x.at = place /\ x.status = apply[a].status
          /\ x.checked = apply[a].checked /\ x.bad = apply[a].bad
          /\ x.changed = apply[a].changed /\ x.content = apply[a].content
      BY <2>1 DEF Applying
    <3>2. apply' = [apply EXCEPT ![a] = x]
      BY <2>1, <2>3 DEF P!Becomes
    <3> HIDE DEF x
    <3> QED
      BY <3>1, <3>2
  <2>4. CASE P!Accept(a)
    BY <2>3, <2>4, OneApplies DEF P!Accept
  <2>5. CASE P!PostFails(a)
    <3>1. PICK x \in Applying : /\ apply' = [apply EXCEPT ![a] = x] /\ x.at \in {"accepted", "ended"}
                               /\ x.status = "FAILURE" /\ x.checked = apply[a].checked
                               /\ UNCHANGED <<file, env, loaded>> /\ apply[a].at = "sent"
      <4>1. PICK place \in {"accepted", "ended"} :
              apply' = [apply EXCEPT ![a].status = "FAILURE", ![a].at = place]
        BY <2>5 DEF P!PostFails
      <4> DEFINE x == [apply[a] EXCEPT !.status = "FAILURE", !.at = place]
      <4>2. x \in Applying /\ x.at = place /\ x.status = "FAILURE" /\ x.checked = apply[a].checked
        BY <2>1 DEF Applying
      <4>3. apply' = [apply EXCEPT ![a] = x]
        BY <2>1, <4>1
      <4> HIDE DEF x
      <4> QED
        BY <2>5, <4>2, <4>3 DEF P!PostFails
    <3> QED
      BY <3>1, OneApplies
  <2>6. CASE P!Healthy(a)
    BY <2>3, <2>6, OneApplies DEF P!Healthy
  <2>7. CASE P!Fail(a)
    <3>1. apply[a].at \in {"accepted", "written", "composing", "checking"}
      BY <2>7 DEF P!Fail
    <3> QED
      BY <2>3, <2>7, <3>1, OneApplies DEF P!Fail
  <2>8. CASE P!ReportSuccess(a)
    <3>1. loaded[a] = P!Services
      BY <2>1, <2>8 DEF P!ReportSuccess, P!VerifiedServices
    <3>2. PICK x \in Applying : /\ apply' = [apply EXCEPT ![a] = x] /\ x.at \in {"failing", "ended"}
                               /\ UNCHANGED <<file, env, loaded>>
      <4>1. PICK place \in {"failing", "ended"} :
              apply' = [apply EXCEPT ![a].status = "SUCCESS", ![a].at = place]
        BY <2>8 DEF P!ReportSuccess
      <4> DEFINE x == [apply[a] EXCEPT !.status = "SUCCESS", !.at = place]
      <4>2. x \in Applying /\ x.at = place
        BY <2>1 DEF Applying
      <4>3. apply' = [apply EXCEPT ![a] = x]
        BY <2>1, <4>1
      <4> HIDE DEF x
      <4> QED
        BY <2>8, <4>2, <4>3 DEF P!ReportSuccess
    <3> QED
      BY <3>1, <3>2, OneApplies
  <2>9. CASE P!ReportFailure(a)
    <3>1. PICK x \in Applying : /\ apply' = [apply EXCEPT ![a] = x] /\ x.at = "ended"
                               /\ x.status \in {"FAILURE", apply[a].status}
                               /\ UNCHANGED <<file, env, loaded>>
      <4>1. PICK arrives \in BOOLEAN :
              apply' = [apply EXCEPT ![a].at = "ended", ![a].status = IF arrives THEN "FAILURE" ELSE @]
        BY <2>9 DEF P!ReportFailure
      <4> DEFINE x == [apply[a] EXCEPT !.at = "ended", !.status = IF arrives THEN "FAILURE" ELSE @]
      <4>2. x \in Applying /\ x.at = "ended" /\ x.status \in {"FAILURE", apply[a].status}
        BY <2>1 DEF Applying
      <4>3. apply' = [apply EXCEPT ![a] = x]
        BY <2>1, <4>1
      <4> HIDE DEF x
      <4> QED
        BY <2>9, <4>2, <4>3 DEF P!ReportFailure
    <3> QED
      BY <3>1, OneApplies
  <2>10. ASSUME NEW s \in P!Services, P!Check(a, s)  PROVE AppliesInv'
    <3>1. PICK matches \in BOOLEAN :
            /\ IF apply[a].changed = {} THEN matches ELSE matches => P!Has(env[s], a)
            /\ apply' = [apply EXCEPT ![a].checked = @ \cup {s}, ![a].bad = @ \/ ~matches]
      BY <2>10 DEF P!Check
    <3>2. apply[a].at = "checking" /\ UNCHANGED <<file, env, loaded>>
      BY <2>10 DEF P!Check
    <3>3. matches => s \in loaded[a]
      BY <3>1, <3>2 DEF P!Has
    <3>4. PICK x \in Applying :
            /\ apply' = [apply EXCEPT ![a] = x] /\ x.at = "checking" /\ x.status = apply[a].status
            /\ x.checked = apply[a].checked \cup {s} /\ x.bad = (apply[a].bad \/ ~matches)
            /\ x.changed = apply[a].changed /\ x.content = apply[a].content
      <4> DEFINE x == [apply[a] EXCEPT !.checked = @ \cup {s}, !.bad = @ \/ ~matches]
      <4>1. /\ x.at = "checking" /\ x.status = apply[a].status
            /\ x.checked = apply[a].checked \cup {s} /\ x.bad = (apply[a].bad \/ ~matches)
            /\ x.changed = apply[a].changed /\ x.content = apply[a].content
        BY <2>1, <3>2 DEF Applying
      <4>2. x \in Applying
        BY <2>1 DEF Applying
      <4>3. apply' = [apply EXCEPT ![a] = x]
        BY <2>1, <3>1
      <4> HIDE DEF x
      <4> QED
        BY <4>1, <4>2, <4>3
    <3> QED
      BY <3>2, <3>3, <3>4, OneApplies
  <2>11. CASE P!WriteFile(a)
    <3>1. /\ \A b \in Applies \ {a} : apply'[b] = apply[b] /\ loaded'[b] = loaded[b]
          /\ apply'[a].at = "written" /\ apply'[a].checked = {} /\ apply'[a].status # "SUCCESS"
          /\ apply'[a].changed = apply[a].changed /\ apply'[a].content = apply[a].content
          /\ loaded'[a] = {s \in P!Services : P!Has(env[s], a)} /\ UNCHANGED env
      BY <2>1, <2>11 DEF P!WriteFile, P!Becomes, Applying
    <3>2. P!TypeOK'
      BY <2>1, <2>11 DEF P!WriteFile, P!Becomes, P!TypeOK, Applying
    <3> QED
      BY <3>1, <3>2 DEF P!Has
  <2>12. ASSUME NEW s \in P!Services, P!Recreate(a, s)  PROVE AppliesInv'
    <3>1. /\ \A b \in Applies \ {a} : apply'[b] = apply[b]
          /\ apply'[a].at = "composing" /\ apply'[a].checked = apply[a].checked
          /\ apply'[a].bad = apply[a].bad /\ apply'[a].status = apply[a].status
          /\ apply'[a].changed = apply[a].changed /\ apply'[a].content = apply[a].content
          /\ apply[a].at = "composing" /\ apply[a].read \in P!Files
      BY <2>1, <2>12 DEF P!Recreate, Applying
    <3>2. /\ env'[s] = apply[a].read /\ \A u \in P!Services \ {s} : env'[u] = env[u]
          /\ \A b \in Applies : /\ loaded[b] \subseteq loaded'[b] /\ loaded'[b] \subseteq P!Services
                                /\ P!Written(b) /\ P!Has(apply[a].read, b) => s \in loaded'[b]
      BY <2>1, <2>12 DEF P!Recreate
    <3>3. P!TypeOK'
      BY <2>1, <2>12, <3>1 DEF P!Recreate, P!TypeOK, Applying
    <3>4. \A b \in Applies : /\ apply'[b].at = apply[b].at /\ apply'[b].checked = apply[b].checked
                             /\ apply'[b].bad = apply[b].bad /\ apply'[b].status = apply[b].status
                             /\ apply'[b].changed = apply[b].changed
                             /\ apply'[b].content = apply[b].content
      BY <3>1
    <3>5. ASSUME NEW b \in Applies, apply'[b].at \in {"written", "composing", "checking"}, NEW u \in P!Services,
                 P!Has(env[u], b)'
          PROVE  u \in loaded'[b]
      <4>1. P!Written(b)
        BY <3>4, <3>5 DEF P!Written
      <4>2. CASE u = s
        BY <3>2, <3>4, <3>5, <4>1, <4>2 DEF P!Has
      <4>3. CASE u # s
        BY <3>2, <3>4, <3>5, <4>3 DEF P!Has
      <4> QED
        BY <4>2, <4>3
    <3>6. ASSUME NEW b \in Applies, apply'[b].at \in {"written", "composing", "checking"}, ~apply'[b].bad
          PROVE  apply'[b].checked \subseteq loaded'[b]
      <4>1. apply[b].checked \subseteq loaded[b] /\ loaded[b] \subseteq loaded'[b]
        BY <3>2, <3>4, <3>6
      <4> QED
        BY <3>4, <4>1
    <3>7. ASSUME NEW b \in Applies, apply'[b].status = "SUCCESS"
          PROVE  apply'[b].at \in {"failing", "ended"} /\ loaded'[b] = P!Services
      <4>1. apply[b].at \in {"failing", "ended"} /\ loaded[b] = P!Services
        BY <3>4, <3>7
      <4>2. loaded[b] \subseteq loaded'[b] /\ loaded'[b] \subseteq P!Services
        BY <3>2
      <4> QED
        BY <3>4, <4>1, <4>2
    <3>8. ASSUME NEW b \in Applies, apply'[b].at \in {"none", "sent", "accepted", "written", "composing"}
          PROVE  apply'[b].checked = {}
      BY <3>4, <3>8
    <3> QED
      BY <3>3, <3>5, <3>6, <3>7, <3>8
  <2>13. CASE P!Resolve(a)
    <3> DEFINE x == [apply[a] EXCEPT !.at = "composing", !.read = file]
    <3>1. /\ x.at = "composing" /\ x.status = apply[a].status
          /\ x.checked = apply[a].checked /\ x.bad = apply[a].bad
          /\ x.changed = apply[a].changed /\ x.content = apply[a].content /\ x \in Applying
      BY <2>1 DEF Applying
    <3>2. apply' = [apply EXCEPT ![a] = x]
      BY <2>1, <2>13 DEF P!Resolve
    <3>3. apply[a].at = "written" /\ UNCHANGED <<file, env, loaded>>
      BY <2>13 DEF P!Resolve
    <3> HIDE DEF x
    <3> QED
      BY <3>1, <3>2, <3>3, OneApplies
  <2> QED
    BY <1>3, <2>2, <2>4, <2>5, <2>6, <2>7, <2>8, <2>9, <2>10, <2>11, <2>12, <2>13
<1> QED
  BY <1>1, <1>2, <1>3 DEF P!Next

(***************************************************************************)
(* Settings said to be applied were loaded by both services, for any       *)
(* number of overlapping requests (infra/settings-helper/app.py:472).      *)
(***************************************************************************)
THEOREM AppliedLoaded ==
  ASSUME ServicesAssumption
  PROVE  /\ P!Spec => []P!AppliedIsLoaded
         /\ ServicesSpec => []AppliedIsLoaded
<1>1. P!Init => AppliesInv
  BY AppliesInit DEF ServicesAssumption
<1>2. AppliesInv /\ [P!Next]_settings => (AppliesInv)'
  BY AppliesStep DEF ServicesAssumption
<1>3. AppliesInv => P!AppliedIsLoaded
  BY DEF AppliesInv, P!AppliedIsLoaded
<1>4. P!Spec => []P!AppliedIsLoaded
  BY <1>1, <1>2, <1>3, PTL DEF P!Spec, P!vars, settings
<1>5. P!AppliedIsLoaded => AppliedIsLoaded
  BY DEF AppliedIsLoaded
<1> QED
  BY <1>4, <1>5, EachServiceRuns, PTL

-----------------------------------------------------------------------------
(***************************************************************************)
(* The script on the host.  The steps that were backed up are those with a *)
(* result and the one that runs; the backup of each is a copy named after  *)
(* its second or a snapshot of what it found; until the host was rebooted  *)
(* a copy holds what its step found unless another was made in its second; *)
(* and as long as nothing failed the file is that of the last step and     *)
(* nothing goes on.                                                        *)
(***************************************************************************)
BackedUp == 1..(IF script.at = "run" THEN Len(script.results) + 1 ELSE Len(script.results))

BackupOf(i, b) ==
  /\ plan[i] = "copy" => b = <<"copy", second[i]>>
  /\ plan[i] = "snapshot" => b = <<"snapshot", before[i]>>

CopiesHold ==
  script.at # "end" \/ received # C!NoReport =>
    \A i \in BackedUp :
      plan[i] = "copy" =>
        \/ \E j \in BackedUp \ {i} : plan[j] = "copy" /\ second[j] = second[i]
        \/ copies[second[i]] = before[i]

WholeSoFar ==
  script.status = "success" =>
    /\ target = <<Len(script.results), "done">> /\ left = {}
    /\ \A k \in BackedUp \ {1} : before[k] = <<k - 1, "done">>

ScriptInv ==
  /\ C!TypeOK
  /\ script.at = "run" => Len(script.results) < Len(plan) /\ BackupOf(Len(script.results) + 1, script.backup)
  /\ \A i \in 1..Len(script.results) : BackupOf(i, script.results[i].backup)
  /\ CopiesHold
  /\ WholeSoFar
  /\ received # C!NoReport => Len(script.results) = Len(plan) /\ script.at = "end"

Scripts == [at : {"backup", "run", "end"}, backup : C!Backups, status : C!Status,
            results : Seq([status : C!Status, backup : C!Backups])]

LEMMA PlanShape ==
  ASSUME ServicesAssumption, C!TypeOK
  PROVE  /\ MaxSteps \in Nat \ {0} /\ Seconds \in Nat
         /\ Len(plan) \in 1..MaxSteps /\ DOMAIN plan = 1..Len(plan)
         /\ plan \in [1..Len(plan) -> C!Kinds]
         /\ script \in Scripts /\ Len(script.results) \in 0..Len(plan)
<1>1. MaxSteps \in Nat \ {0} /\ Seconds \in Nat
  BY DEF ServicesAssumption, C!HostScriptAssumption
<1>2. PICK n \in C!Steps : plan \in [1..n -> C!Kinds]
  BY DEF C!TypeOK
<1>3. n \in Nat /\ Len(plan) = n
  BY <1>1, <1>2 DEF C!Steps
<1>4. script \in Scripts /\ script.results \in Seq([status : C!Status, backup : C!Backups])
  BY DEF C!TypeOK, Scripts
<1>5. Len(script.results) \in Nat /\ Len(script.results) <= Len(plan)
  BY <1>4 DEF C!TypeOK
<1> QED
  BY <1>1, <1>2, <1>3, <1>4, <1>5 DEF C!Steps

LEMMA ScriptInit ==
  ASSUME ServicesAssumption, C!Init
  PROVE  ScriptInv
<1>1. MaxSteps \in Nat \ {0} /\ Seconds \in Nat
  BY DEF ServicesAssumption, C!HostScriptAssumption
<1>2. C!Original \in C!Contents /\ C!NoBackup \in C!Backups /\ "success" \in C!Status
  BY DEF C!Contents, C!Backups, C!Status
<1>3. /\ script = [at |-> "backup", backup |-> C!NoBackup, results |-> <<>>, status |-> "success"]
      /\ <<>> \in Seq([status : C!Status, backup : C!Backups]) /\ Len(script.results) = 0
  BY DEF C!Init
<1>4. PICK n \in C!Steps : plan \in [1..n -> C!Kinds]
  BY DEF C!Init
<1>5. Len(plan) = n /\ n \in Nat
  BY <1>1, <1>4 DEF C!Steps
<1>6. C!TypeOK
  BY <1>1, <1>2, <1>3, <1>5 DEF C!Init, C!TypeOK
<1>7. BackedUp = {}
  BY <1>3 DEF BackedUp
<1>8. WholeSoFar
  BY <1>3, <1>7 DEF WholeSoFar, C!Init, C!Original
<1> QED
  BY <1>3, <1>6, <1>7, <1>8 DEF ScriptInv, CopiesHold, C!Init

(* The end of a step adds its result, with the backup made before it. *)
LEMMA StepEnds ==
  ASSUME ServicesAssumption, ScriptInv, script.at = "run", NEW status \in C!Status, C!Ends(status),
         UNCHANGED <<plan, copies, clock, received, before, second>>
  PROVE  /\ script' \in Scripts /\ script'.at = "backup" /\ script'.status = C!StatusAfter(status)
         /\ Len(script'.results) = Len(script.results) + 1 /\ Len(script'.results) <= Len(plan)
         /\ received = C!NoReport /\ BackedUp' = BackedUp
         /\ \A i \in 1..Len(script'.results) : BackupOf(i, script.results[i].backup)'
         /\ CopiesHold'
<1> DEFINE entered == [status |-> status, backup |-> script.backup]
<1>1. script \in Scripts /\ Len(script.results) \in Nat /\ Len(plan) \in Nat
  BY PlanShape DEF ScriptInv
<1>2. entered \in [status : C!Status, backup : C!Backups] /\ entered.backup = script.backup
  BY <1>1 DEF Scripts
<1>3. C!NoBackup \in C!Backups /\ C!StatusAfter(status) \in C!Status
  BY <1>1 DEF C!Backups, C!StatusAfter, C!Status, Scripts
<1>4. script' = [script EXCEPT !.at = "backup", !.backup = C!NoBackup,
                               !.results = Append(script.results, entered), !.status = C!StatusAfter(status)]
  BY <1>1 DEF C!Ends, Scripts
<1> HIDE DEF entered
<1>5. script.results \in Seq([status : C!Status, backup : C!Backups])
  BY <1>1 DEF Scripts
<1>6. /\ Append(script.results, entered) \in Seq([status : C!Status, backup : C!Backups])
      /\ Len(Append(script.results, entered)) = Len(script.results) + 1
      /\ Append(script.results, entered)[Len(script.results) + 1] = entered
      /\ \A i \in 1..Len(script.results) : Append(script.results, entered)[i] = script.results[i]
  BY <1>2, <1>5
<1>7. /\ script' \in Scripts /\ script'.at = "backup" /\ script'.status = C!StatusAfter(status)
      /\ script'.results = Append(script.results, entered)
  BY <1>1, <1>3, <1>4, <1>6 DEF Scripts
<1>8. Len(script'.results) = Len(script.results) + 1 /\ Len(script'.results) <= Len(plan)
  BY <1>1, <1>6, <1>7 DEF ScriptInv
<1>9. received = C!NoReport
  BY DEF ScriptInv
<1>10. BackedUp' = BackedUp
  BY <1>7, <1>8 DEF BackedUp
<1>11. ASSUME NEW i \in 1..Len(script'.results)
       PROVE  BackupOf(i, script.results[i].backup)'
  <2>1. CASE i = Len(script.results) + 1
    <3>1. script'.results[i].backup = script.backup
      BY <1>2, <1>6, <1>7, <2>1
    <3> QED
      BY <2>1, <3>1 DEF ScriptInv, BackupOf
  <2>2. CASE i # Len(script.results) + 1
    <3>1. i \in 1..Len(script.results) /\ script'.results[i] = script.results[i]
      BY <1>1, <1>6, <1>7, <1>8, <2>2
    <3> QED
      BY <3>1 DEF ScriptInv, BackupOf
  <2> QED
    BY <2>1, <2>2
<1>12. CopiesHold'
  BY <1>7, <1>10 DEF ScriptInv, CopiesHold
<1> QED
  BY <1>7, <1>8, <1>9, <1>10, <1>11, <1>12

LEMMA ScriptStep ==
  ASSUME ServicesAssumption, ScriptInv, [C!Next]_steps
  PROVE  ScriptInv'
<1> DEFINE n == Len(script.results)
<1>1. /\ MaxSteps \in Nat \ {0} /\ Seconds \in Nat /\ Len(plan) \in 1..MaxSteps
      /\ DOMAIN plan = 1..Len(plan) /\ plan \in [1..Len(plan) -> C!Kinds] /\ script \in Scripts
      /\ n \in 0..Len(plan)
  BY PlanShape DEF ScriptInv
<1>2. /\ plan \in UNION {[1..m -> C!Kinds] : m \in C!Steps}
      /\ target \in C!Contents /\ clock \in 0..Seconds /\ left \subseteq C!Steps
      /\ copies \in [0..Seconds -> C!Contents] /\ before \in [C!Steps -> C!Contents]
      /\ second \in [C!Steps -> 0..Seconds]
      /\ received = C!NoReport \/ received = [status |-> script.status, results |-> script.results]
  BY DEF ScriptInv, C!TypeOK
<1>3. ASSUME script' \in Scripts, Len(script'.results) <= Len(plan'), UNCHANGED plan,
             target' \in C!Contents, clock' \in 0..Seconds, left' \subseteq C!Steps,
             copies' \in [0..Seconds -> C!Contents], before' \in [C!Steps -> C!Contents],
             second' \in [C!Steps -> 0..Seconds],
             received' = C!NoReport \/ received' = [status |-> script'.status, results |-> script'.results]
      PROVE  C!TypeOK'
  BY <1>2, <1>3 DEF C!TypeOK, Scripts
<1>4. C!Step = n + 1
  BY DEF C!Step
<1>5. CASE UNCHANGED steps
  <2>1. UNCHANGED <<plan, script, target, copies, clock, left, received, before, second>>
    BY <1>5 DEF steps
  <2>2. C!TypeOK'
    BY <2>1 DEF ScriptInv, C!TypeOK
  <2> QED
    BY <2>1, <2>2 DEF ScriptInv, BackupOf, CopiesHold, WholeSoFar, BackedUp
<1>6. CASE C!Prepare
  <2> DEFINE b == CASE plan[C!Step] = "copy" -> <<"copy", C!Name>>
                    [] plan[C!Step] = "snapshot" -> <<"snapshot", target>>
                    [] plan[C!Step] = "none" -> C!NoBackup
  <2>1. /\ script.at = "backup" /\ n + 1 <= Len(plan) /\ n + 1 \in 1..Len(plan) /\ n + 1 \in C!Steps
        /\ UNCHANGED <<plan, target, clock, left, received>>
    BY <1>1, <1>4, <1>6 DEF C!Prepare, C!Steps
  <2>2. script' = [script EXCEPT !.at = "run", !.backup = b]
    BY <1>6 DEF C!Prepare
  <2>3. plan[n + 1] \in {"copy", "snapshot", "none"}
    BY <1>1, <2>1 DEF C!Kinds
  <2>4. /\ b \in C!Backups
        /\ plan[n + 1] = "copy" => b = <<"copy", clock>>
        /\ plan[n + 1] = "snapshot" => b = <<"snapshot", target>>
    BY <1>2, <1>4, <2>3 DEF C!Backups, C!Name
  <2> HIDE DEF b
  <2>5. script' \in Scripts /\ script'.at = "run" /\ script'.backup = b /\ script'.results = script.results
        /\ script'.status = script.status
    BY <1>1, <2>2, <2>4 DEF Scripts
  <2>6. /\ before' = [before EXCEPT ![n + 1] = target] /\ second' = [second EXCEPT ![n + 1] = clock]
        /\ copies' = IF plan[n + 1] = "copy" THEN [copies EXCEPT ![clock] = target] ELSE copies
    BY <1>4, <1>6 DEF C!Prepare, C!Name
  <2>7. /\ before' \in [C!Steps -> C!Contents] /\ second' \in [C!Steps -> 0..Seconds]
        /\ copies' \in [0..Seconds -> C!Contents]
        /\ before'[n + 1] = target /\ second'[n + 1] = clock
        /\ \A i \in C!Steps \ {n + 1} : before'[i] = before[i] /\ second'[i] = second[i]
    BY <1>2, <2>1, <2>6
  <2>8. received = C!NoReport
    BY <2>1 DEF ScriptInv
  <2>9. C!TypeOK'
    BY <1>1, <1>2, <1>3, <2>1, <2>5, <2>7, <2>8
  <2>10. BackupOf(Len(script.results) + 1, script.backup)'
    BY <2>1, <2>4, <2>5, <2>7 DEF BackupOf
  <2>11. \A i \in 1..n : i \in C!Steps \ {n + 1}
    BY <1>1 DEF C!Steps
  <2>12. \A i \in 1..Len(script'.results) : BackupOf(i, script.results[i].backup)'
    BY <2>1, <2>5, <2>7, <2>11 DEF ScriptInv, BackupOf
  <2>13. BackedUp' = 1..n + 1 /\ BackedUp = 1..n
    BY <2>1, <2>5 DEF BackedUp
  <2>14. CopiesHold'
    <3> SUFFICES ASSUME NEW i \in 1..n + 1, plan[i] = "copy"
                 PROVE  \/ \E j \in (1..n + 1) \ {i} : plan[j] = "copy" /\ second'[j] = second'[i]
                        \/ copies'[second'[i]] = before'[i]
      BY <2>1, <2>13 DEF CopiesHold
    <3>1. CASE i = n + 1
      BY <1>2, <2>6, <2>7, <3>1
    <3>2. CASE i # n + 1
      <4>1. i \in 1..n /\ i \in C!Steps \ {n + 1}
        BY <1>1, <2>11, <3>2
      <4>2. second'[i] = second[i] /\ before'[i] = before[i] /\ second[i] \in 0..Seconds
        BY <1>2, <2>7, <4>1
      <4>3. CASE \E j \in (1..n) \ {i} : plan[j] = "copy" /\ second[j] = second[i]
        <5>1. PICK j \in (1..n) \ {i} : plan[j] = "copy" /\ second[j] = second[i]
          BY <4>3
        <5>2. j \in (1..n + 1) \ {i} /\ second'[j] = second[j]
          BY <1>1, <2>7, <2>11
        <5> QED
          BY <4>2, <5>1, <5>2
      <4>4. CASE copies[second[i]] = before[i]
        <5>1. CASE plan[n + 1] = "copy" /\ clock = second[i]
          <6>1. n + 1 \in (1..n + 1) \ {i} /\ second'[n + 1] = second'[i]
            BY <1>1, <2>7, <3>2, <4>2, <5>1
          <6> QED
            BY <5>1, <6>1
        <5>2. CASE ~(plan[n + 1] = "copy" /\ clock = second[i])
          BY <1>2, <2>6, <4>2, <4>4, <5>2
        <5> QED
          BY <5>1, <5>2
      <4> QED
        BY <2>1, <2>13, <4>1, <4>3, <4>4 DEF ScriptInv, CopiesHold
    <3> QED
      BY <3>1, <3>2
  <2>15. WholeSoFar'
    <3> SUFFICES ASSUME script.status = "success"
                 PROVE  /\ target = <<n, "done">> /\ left = {}
                        /\ \A k \in (1..n + 1) \ {1} : before'[k] = <<k - 1, "done">>
      BY <2>1, <2>5, <2>13 DEF WholeSoFar
    <3>1. /\ target = <<n, "done">> /\ left = {}
          /\ \A k \in (1..n) \ {1} : before[k] = <<k - 1, "done">>
      BY <2>13 DEF ScriptInv, WholeSoFar
    <3>2. ASSUME NEW k \in (1..n + 1) \ {1}  PROVE before'[k] = <<k - 1, "done">>
      <4>1. CASE k = n + 1
        BY <1>1, <2>7, <3>1, <4>1
      <4>2. CASE k # n + 1
        <5>1. k \in (1..n) \ {1} /\ k \in C!Steps \ {n + 1}
          BY <1>1, <2>11, <4>2
        <5> QED
          BY <2>7, <3>1, <5>1
      <4> QED
        BY <4>1, <4>2
    <3> QED
      BY <3>1, <3>2
  <2> QED
    BY <2>1, <2>5, <2>8, <2>9, <2>10, <2>12, <2>14, <2>15 DEF ScriptInv
(* A step that ends leaves the file complete only when it worked. *)
<1>7. ASSUME NEW status \in C!Status, script.at = "run", C!Ends(status),
             UNCHANGED <<plan, copies, clock, received, before, second>>,
             target' \in C!Contents, left' \subseteq C!Steps,
             status = "success" => target' = <<n + 1, "done">> /\ UNCHANGED left
      PROVE  ScriptInv'
  <2>1. /\ script' \in Scripts /\ script'.at = "backup" /\ script'.status = C!StatusAfter(status)
        /\ Len(script'.results) = n + 1 /\ Len(script'.results) <= Len(plan)
        /\ received = C!NoReport /\ BackedUp' = BackedUp
        /\ \A i \in 1..Len(script'.results) : BackupOf(i, script.results[i].backup)'
        /\ CopiesHold'
    BY <1>7, StepEnds
  <2>2. C!TypeOK'
    BY <1>2, <1>3, <1>7, <2>1
  <2>3. WholeSoFar'
    <3> SUFFICES ASSUME script'.status = "success"
                 PROVE  /\ target' = <<n + 1, "done">> /\ left' = {}
                        /\ \A k \in BackedUp \ {1} : before[k] = <<k - 1, "done">>
      BY <1>7, <2>1 DEF WholeSoFar
    <3>1. status = "success" /\ script.status = "success"
      BY <1>7, <2>1 DEF C!StatusAfter, C!Status
    <3> QED
      BY <1>7, <3>1 DEF ScriptInv, WholeSoFar
  <2> QED
    BY <1>7, <2>1, <2>2, <2>3 DEF ScriptInv
<1>8. script.at = "run" => n + 1 \in C!Steps /\ \A w \in {"part", "done"} : <<n + 1, w>> \in C!Contents
  BY <1>1 DEF ScriptInv, C!Steps, C!Contents
<1>9. CASE C!Works
  <2>1. /\ script.at = "run" /\ target' = <<n + 1, "done">> /\ C!Ends("success")
        /\ UNCHANGED <<plan, copies, clock, left, received, before, second>>
    BY <1>4, <1>9 DEF C!Works
  <2> QED
    BY <1>2, <1>7, <1>8, <2>1 DEF C!Status
<1>10. CASE C!Fails
  <2>1. /\ script.at = "run" /\ target' \in {target, <<n + 1, "part">>} /\ C!Ends("failure")
        /\ UNCHANGED <<plan, copies, clock, left, received, before, second>>
    BY <1>4, <1>10 DEF C!Fails
  <2> QED
    BY <1>2, <1>7, <1>8, <2>1 DEF C!Status
<1>11. CASE C!TimesOut
  <2>1. /\ script.at = "run" /\ target' \in {target, <<n + 1, "part">>, <<n + 1, "done">>}
        /\ C!Ends("failure") /\ left' \in {left, left \cup {n + 1}}
        /\ UNCHANGED <<plan, copies, clock, received, before, second>>
    BY <1>4, <1>11 DEF C!TimesOut
  <2> QED
    BY <1>2, <1>7, <1>8, <2>1 DEF C!Status
<1>12. ASSUME NEW arrives \in BOOLEAN, C!Send(arrives)
       PROVE  ScriptInv'
  <2>1. /\ script.at = "backup" /\ n = Len(plan) /\ script' = [script EXCEPT !.at = "end"]
        /\ UNCHANGED <<plan, target, copies, clock, left, before, second>>
    BY <1>1, <1>4, <1>12 DEF C!Send
  <2>2. /\ script' \in Scripts /\ script'.at = "end" /\ script'.results = script.results
        /\ script'.status = script.status
    BY <1>1, <2>1 DEF Scripts
  <2>3. received' \in {received, [status |-> script.status, results |-> script.results]}
    BY <1>12 DEF C!Send
  <2>4. C!TypeOK'
    BY <1>1, <1>2, <1>3, <2>1, <2>2, <2>3
  <2>5. BackedUp' = BackedUp
    BY <2>1, <2>2 DEF BackedUp
  <2> QED
    BY <2>1, <2>2, <2>4, <2>5 DEF ScriptInv, BackupOf, CopiesHold, WholeSoFar
<1>13. CASE C!Tick
  <2>1. clock' \in 0..Seconds /\ UNCHANGED <<plan, script, target, copies, left, received, before, second>>
    BY <1>1, <1>2, <1>13 DEF C!Tick
  <2>2. C!TypeOK'
    BY <1>1, <1>2, <1>3, <2>1
  <2> QED
    BY <2>1, <2>2 DEF ScriptInv, BackupOf, CopiesHold, WholeSoFar, BackedUp
<1>14. ASSUME NEW i \in C!Steps, C!Lingers(i)
       PROVE  ScriptInv'
  <2>1. /\ i \in left /\ left' = left \ {i} /\ target' \in {target, <<i, "done">>}
        /\ UNCHANGED <<plan, script, copies, clock, received, before, second>>
    BY <1>14 DEF C!Lingers
  <2>2. target' \in C!Contents
    BY <1>2, <2>1 DEF C!Contents
  <2>3. C!TypeOK'
    BY <1>1, <1>2, <1>3, <2>1, <2>2
  <2>4. script.status # "success"
    BY <2>1 DEF ScriptInv, WholeSoFar
  <2> QED
    BY <2>1, <2>3, <2>4 DEF ScriptInv, BackupOf, CopiesHold, WholeSoFar, BackedUp
<1>15. CASE C!Reboot
  <2>1. /\ script.at \in {"backup", "run"} /\ script' = [script EXCEPT !.at = "end"] /\ left' = {}
        /\ UNCHANGED <<plan, target, copies, clock, received, before, second>>
    BY <1>15 DEF C!Reboot
  <2>2. /\ script' \in Scripts /\ script'.at = "end" /\ script'.results = script.results
        /\ script'.status = script.status
    BY <1>1, <2>1 DEF Scripts
  <2>3. received = C!NoReport
    BY <2>1 DEF ScriptInv
  <2>4. C!TypeOK'
    BY <1>1, <1>2, <1>3, <2>1, <2>2, <2>3
  <2>5. BackedUp' \subseteq BackedUp /\ BackedUp' = 1..n
    BY <1>1, <2>2 DEF BackedUp
  <2>6. CopiesHold'
    BY <2>1, <2>2, <2>3 DEF CopiesHold
  <2> QED
    BY <2>1, <2>2, <2>3, <2>4, <2>5, <2>6 DEF ScriptInv, BackupOf, WholeSoFar
<1> QED
  BY <1>5, <1>6, <1>9, <1>10, <1>11, <1>12, <1>13, <1>14, <1>15 DEF C!Next

LEMMA BackupsHold ==
  ASSUME ServicesAssumption, ScriptInv
  PROVE  C!BackupsRestore
<1> SUFFICES ASSUME NEW k \in DOMAIN received.results, plan[k] # "none",
                    ~(plan[k] = "copy" /\ \E i \in DOMAIN plan \ {k} : plan[i] = "copy" /\ second[i] = second[k])
             PROVE  C!Saved(received.results[k].backup) = before[k]
  BY DEF C!BackupsRestore
<1>1. received # C!NoReport
  BY DEF C!NoReport
<1>2. received.results = script.results /\ Len(script.results) = Len(plan) /\ script.at = "end"
  BY <1>1 DEF ScriptInv, C!TypeOK
<1>3. /\ Len(plan) \in Nat /\ DOMAIN plan = 1..Len(plan) /\ plan \in [1..Len(plan) -> C!Kinds]
      /\ script.results \in Seq([status : C!Status, backup : C!Backups])
  BY PlanShape DEF ScriptInv, Scripts
<1>4. k \in 1..Len(plan) /\ BackedUp = 1..Len(plan)
  BY <1>2, <1>3 DEF BackedUp
<1>5. BackupOf(k, script.results[k].backup)
  BY <1>2, <1>4 DEF ScriptInv
<1>6. CASE plan[k] = "copy"
  <2>1. copies[second[k]] = before[k]
    BY <1>1, <1>3, <1>4, <1>6 DEF ScriptInv, CopiesHold
  <2> QED
    BY <1>2, <1>5, <1>6, <2>1 DEF BackupOf, C!Saved
<1>7. CASE plan[k] = "snapshot"
  BY <1>2, <1>5, <1>7 DEF BackupOf, C!Saved
<1> QED
  BY <1>3, <1>4, <1>6, <1>7 DEF C!Kinds

LEMMA SuccessWhole ==
  ASSUME ServicesAssumption, ScriptInv
  PROVE  C!SuccessIsWhole
<1> SUFFICES ASSUME received.status = "success"
             PROVE  /\ target = <<Len(plan), "done">> /\ left = {}
                    /\ \A k \in 2..Len(plan) : before[k] = <<k - 1, "done">>
  BY DEF C!SuccessIsWhole
<1>1. received # C!NoReport
  BY DEF C!NoReport
<1>2. script.status = "success" /\ Len(script.results) = Len(plan) /\ script.at = "end"
  BY <1>1 DEF ScriptInv, C!TypeOK
<1>3. BackedUp = 1..Len(plan) /\ Len(plan) \in Nat
  BY <1>2, PlanShape DEF BackedUp, ScriptInv
<1> QED
  BY <1>2, <1>3 DEF ScriptInv, WholeSoFar

(***************************************************************************)
(* A stage reported as a success has done every step and is over, and the  *)
(* backups of a reported stage restore what its steps found, whatever      *)
(* failed, was killed or lingered, for stages of any length                *)
(* (FINAL_STATUS, complete_payload, build_backup_paths_json).              *)
(***************************************************************************)
THEOREM ReportsTrue ==
  ASSUME ServicesAssumption
  PROVE  /\ C!Spec => [](C!BackupsRestore /\ C!SuccessIsWhole)
         /\ ServicesSpec => []ReportsAreTrue
<1>1. C!Init => ScriptInv
  BY ScriptInit DEF ServicesAssumption
<1>2. ScriptInv /\ [C!Next]_steps => (ScriptInv)'
  BY ScriptStep DEF ServicesAssumption
<1>3. ScriptInv => (C!BackupsRestore /\ C!SuccessIsWhole)
  BY BackupsHold, SuccessWhole
<1>4. C!Spec => [](C!BackupsRestore /\ C!SuccessIsWhole)
  BY <1>1, <1>2, <1>3, PTL DEF C!Spec, C!vars, steps
<1>5. (C!BackupsRestore /\ C!SuccessIsWhole) => ReportsAreTrue
  BY DEF ReportsAreTrue
<1> QED
  BY <1>4, <1>5, EachServiceRuns, PTL

-----------------------------------------------------------------------------
(***************************************************************************)
(* Every variable of the service that moves has its type.                  *)
(***************************************************************************)
THEOREM ServicesTypeCorrect ==
  ASSUME ServicesAssumption
  PROVE  ServicesSpec => []EachTypeOK
<1> DEFINE
  Moves == service \in {"tokens", "findings", "gateway", "scan", "versions",
                        "access", "model", "fix", "settings", "steps"}
<1>1. ServicesInit => Moves
  BY DEF ServicesInit
<1>2. Moves /\ [ServicesNext]_services => Moves'
  BY OneServiceMoves
<1>3. ServicesSpec => []TypeOK
  BY TypeCorrect, EachServiceRuns, PTL DEF ServicesAssumption
<1>4. F!Spec => []F!TypeOK
  <2>1. F!Init => FindingsInv
    BY FindingsInit
  <2>2. FindingsInv /\ [F!Next]_findings => FindingsInv'
    BY FindingsStep
  <2>3. FindingsInv => F!TypeOK
    BY DEF FindingsInv
  <2> QED
    BY <2>1, <2>2, <2>3, PTL DEF F!Spec, F!vars, findings
<1>5. G!Spec => []G!TypeOK
  <2>1. G!Init => ChannelsInv
    BY ChannelsInit DEF ServicesAssumption
  <2>2. ChannelsInv /\ [G!Next]_gateway => ChannelsInv'
    BY CountersStep, AnnouncedStep DEF ServicesAssumption, ChannelsInv
  <2>3. ChannelsInv => G!TypeOK
    BY DEF ChannelsInv, Counters, G!TypeOK
  <2> QED
    BY <2>1, <2>2, <2>3, PTL DEF G!Spec, G!vars, gateway
<1>6. S!Spec => []S!TypeOK
  <2>1. S!Init => ScansInv
    BY ScansInit DEF ServicesAssumption
  <2>2. ScansInv /\ [S!Next]_scan => ScansInv'
    BY ScansStep DEF ServicesAssumption
  <2>3. ScansInv => S!TypeOK
    BY DEF ScansInv
  <2> QED
    BY <2>1, <2>2, <2>3, PTL DEF S!Spec, S!vars, scan
<1>7. R!Spec => []R!TypeOK
  <2>1. R!Init => VersionsInv
    BY VersionsInit DEF ServicesAssumption
  <2>2. VersionsInv /\ [R!Next]_versions => VersionsInv'
    BY VersionsStep DEF ServicesAssumption
  <2>3. VersionsInv => R!TypeOK
    BY DEF VersionsInv
  <2> QED
    BY <2>1, <2>2, <2>3, PTL DEF R!Spec, R!vars, versions
<1>8. H!Spec => []H!TypeOK
  <2>1. H!Init => AccessInv
    BY AccessInit DEF ServicesAssumption
  <2>2. AccessInv /\ [H!Next]_access => AccessInv'
    BY AccessStep DEF ServicesAssumption
  <2>3. AccessInv => H!TypeOK
    BY DEF AccessInv, CredentialTypes, H!TypeOK
  <2> QED
    BY <2>1, <2>2, <2>3, PTL DEF H!Spec, H!vars, access
<1>9. M!Spec => []M!TypeOK
  <2>1. M!Init => CallInv
    BY CallInit DEF ServicesAssumption
  <2>2. CallInv /\ [M!Next]_model => CallInv'
    BY CallsStep DEF ServicesAssumption
  <2>3. CallInv => M!TypeOK
    BY DEF CallInv
  <2> QED
    BY <2>1, <2>2, <2>3, PTL DEF M!Spec, M!vars, model
<1>10. X!Spec => []X!TypeOK
  <2>1. X!Init => RunInv
    BY RunInit DEF ServicesAssumption
  <2>2. RunInv /\ [X!Next]_fix => RunInv'
    BY RunStep DEF ServicesAssumption
  <2>3. RunInv => X!TypeOK
    BY DEF RunInv
  <2> QED
    BY <2>1, <2>2, <2>3, PTL DEF X!Spec, X!vars, fix
<1>11. P!Spec => []P!TypeOK
  <2>1. P!Init => AppliesInv
    BY AppliesInit DEF ServicesAssumption
  <2>2. AppliesInv /\ [P!Next]_settings => AppliesInv'
    BY AppliesStep DEF ServicesAssumption
  <2>3. AppliesInv => P!TypeOK
    BY DEF AppliesInv
  <2> QED
    BY <2>1, <2>2, <2>3, PTL DEF P!Spec, P!vars, settings
<1>12. C!Spec => []C!TypeOK
  <2>1. C!Init => ScriptInv
    BY ScriptInit DEF ServicesAssumption
  <2>2. ScriptInv /\ [C!Next]_steps => ScriptInv'
    BY ScriptStep DEF ServicesAssumption
  <2>3. ScriptInv => C!TypeOK
    BY DEF ScriptInv
  <2> QED
    BY <2>1, <2>2, <2>3, PTL DEF C!Spec, C!vars, steps
<1>13. /\ Moves /\ TypeOK /\ F!TypeOK /\ G!TypeOK /\ S!TypeOK /\ R!TypeOK
       /\ H!TypeOK /\ M!TypeOK /\ X!TypeOK /\ P!TypeOK /\ C!TypeOK
       => EachTypeOK
  BY DEF EachTypeOK
<1> QED
  BY <1>1, <1>2, <1>3, <1>4, <1>5, <1>6, <1>7, <1>8, <1>9, <1>10, <1>11, <1>12, <1>13,
     EachServiceRuns, PTL DEF ServicesSpec
=============================================================================
