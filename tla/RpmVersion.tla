----------------------------- MODULE RpmVersion -----------------------------
(***************************************************************************)
(* The comparison of two rpm versions, on which the rule engine decides    *)
(* whether an installed package is older than the fixed one                *)
(* (utils/versioning.py, rules/rule_matcher.py).  A text is a sequence of  *)
(* characters: digits, letters, "~", ":", "-" and another separator.       *)
(***************************************************************************)
EXTENDS Integers, Sequences

CONSTANTS
  Digits, Letters,          \* sequences of characters in ascending order; the first digit is zero
  MaxLeft, MaxRight         \* bounds: the lengths of the two texts

RpmVersionAssumption ==
  /\ MaxLeft \in Nat \ {0} /\ MaxRight \in Nat \ {0}
  /\ Digits \in Seq(STRING) /\ Letters \in Seq(STRING)
  /\ Len(Digits) > 0
  /\ {Digits[k] : k \in DOMAIN Digits} \cap {Letters[k] : k \in DOMAIN Letters} = {}

VARIABLES
  texts,                    \* [left, right]: the installed and the fixed version
  part,                     \* what is compared: "epoch", "version", "release", "done"
  at,                       \* <<left_index, right_index>>, counted from 1
  result                    \* -1, 0 or 1

vars == <<texts, part, at, result>>

CharsOf(s) == {s[k] : k \in DOMAIN s}
Zero == Digits[1]
Chars == CharsOf(Digits) \cup CharsOf(Letters) \cup {"~", ".", "-", ":"}
Texts(n) == UNION {[1..k -> Chars] : k \in 1..n}

-----------------------------------------------------------------------------
(* The first place from i on that does not hold one of the characters C. *)
Stop(s, i, C) ==
  CHOOSE k \in i..(Len(s) + 1) :
    /\ \A m \in i..(k - 1) : s[m] \in C
    /\ k <= Len(s) => s[k] \notin C

From(s, i) == SubSeq(s, i, Len(s))

(* Numbers without their leading zeros; zero is the empty sequence. *)
Stripped(d) == From(d, Stop(d, 1, {Zero}))

Rank(c) ==
  IF c \in CharsOf(Digits) THEN CHOOSE k \in DOMAIN Digits : Digits[k] = c
                           ELSE CHOOSE k \in DOMAIN Letters : Letters[k] = c

Order(x, y) == IF x < y THEN -1 ELSE IF x > y THEN 1 ELSE 0

(* The order of two segments as Python orders strings. *)
TextOrder(s, t) ==
  LET k == CHOOSE k \in 1..(Len(s) + 1) :
             /\ \A m \in 1..(k - 1) : m <= Len(t) /\ s[m] = t[m]
             /\ k <= Len(s) /\ k <= Len(t) => s[k] # t[k]
  IN IF k > Len(s) \/ k > Len(t) THEN Order(Len(s), Len(t)) ELSE Order(Rank(s[k]), Rank(t[k]))

(* Mutation: numbers compared as texts. *)
NumberOrderOfTexts(c, d) == TextOrder(Stripped(c), Stripped(d))

NumberOrder(c, d) ==
  LET s == Stripped(c)
      t == Stripped(d)
  IN IF Len(s) # Len(t) THEN Order(Len(s), Len(t)) ELSE TextOrder(s, t)

(***************************************************************************)
(* _split_rpm_evr: the epoch is what stands before the first colon, when   *)
(* that is a number; the release is what follows the last dash.            *)
(***************************************************************************)
EpochEnd(s) ==
  LET k == Stop(s, 1, CharsOf(Digits))
  IN IF k > 1 /\ k <= Len(s) /\ s[k] = ":" THEN k ELSE 0

Dashes(s) == {k \in (EpochEnd(s) + 1)..Len(s) : s[k] = "-"}

ReleaseStart(s) ==
  IF Dashes(s) = {} THEN Len(s) + 1 ELSE CHOOSE k \in Dashes(s) : \A m \in Dashes(s) : m <= k

PartOf(s, p) ==
  CASE p = "epoch" -> SubSeq(s, 1, EpochEnd(s) - 1)
    [] p = "version" -> SubSeq(s, EpochEnd(s) + 1, ReleaseStart(s) - 1)
    [] p = "release" -> From(s, ReleaseStart(s) + 1)

-----------------------------------------------------------------------------
Init ==
  /\ texts \in [left : Texts(MaxLeft), right : Texts(MaxRight)]
  /\ part = "epoch" /\ at = <<1, 1>> /\ result = 0

L == PartOf(texts.left, part)
R == PartOf(texts.right, part)

NextPart == [epoch |-> "version", version |-> "release", release |-> "done"]

(* A part is decided: the comparison ends unless both are equal. *)
Decide(r) ==
  /\ result' = r
  /\ part' = IF r = 0 THEN NextPart[part] ELSE "done"
  /\ at' = <<1, 1>>
  /\ UNCHANGED texts

CompareEpochs == part = "epoch" /\ Decide(NumberOrder(L, R))

Tilde(s, i) == i <= Len(s) /\ s[i] = "~"

(* _consume_rpm_tilde *)
CompareTilde ==
  /\ part \in {"version", "release"}
  /\ Tilde(L, at[1]) # Tilde(R, at[2])
  /\ Decide(IF Tilde(L, at[1]) THEN -1 ELSE 1)

(* Where the next segment starts: behind a tilde of both and behind separators. *)
Segment(s, i) == Stop(s, IF Tilde(s, i) THEN i + 1 ELSE i, {".", "-", ":"})

Kind(s, k) ==
  CASE k > Len(s) -> "end"
    [] k <= Len(s) /\ s[k] \in CharsOf(Digits) -> "number"
    [] OTHER -> "letters"                                  \* none of them before a tilde

(* Nothing is less than letters, and letters are less than a number. *)
KindRank == [end |-> 0, letters |-> 1, number |-> 2]

KindCharacters(k) == CharsOf(IF k = "number" THEN Digits ELSE Letters)

(* One round of the loop of _rpmvercmp, when the tildes do not decide. *)
CompareSegment ==
  /\ part \in {"version", "release"}
  /\ Tilde(L, at[1]) = Tilde(R, at[2])
  /\ LET i == Segment(L, at[1])
         j == Segment(R, at[2])
         kind == Kind(L, i)
         m == Stop(L, i, KindCharacters(kind))
         n == Stop(R, j, KindCharacters(kind))
         l == SubSeq(L, i, m - 1)
         r == SubSeq(R, j, n - 1)
         order == IF kind # Kind(R, j) THEN Order(KindRank[kind], KindRank[Kind(R, j)])
                  ELSE IF kind = "number" THEN NumberOrder(l, r) ELSE TextOrder(l, r)
     IN IF kind = "end" \/ order # 0
        THEN Decide(order)
        ELSE at' = <<m, n>> /\ UNCHANGED <<texts, part, result>>

Next == CompareEpochs \/ CompareTilde \/ CompareSegment

Spec == Init /\ [][Next]_vars

-----------------------------------------------------------------------------
(* Every variable has its type, and the places are inside the texts. *)
TypeOK ==
  /\ texts \in [left : Texts(MaxLeft), right : Texts(MaxRight)]
  /\ part \in {"epoch", "version", "release", "done"}
  /\ at[1] \in 1..(Len(texts.left) + 1) /\ at[2] \in 1..(Len(texts.right) + 1)
  /\ result \in {-1, 0, 1}

(***************************************************************************)
(* A sort key of one text alone: numbers, of which the first that differs  *)
(* orders two keys.                                                        *)
(***************************************************************************)
NumberKey(d) == LET s == Stripped(d) IN <<Len(s)>> \o [k \in DOMAIN s |-> Rank(s[k])]
LettersKey(s) == [k \in DOMAIN s |-> Rank(s[k])] \o <<0>>

(* One round of the loop, of one text alone: what it reads and its key.    *)
RoundKind(s, i) == Kind(s, Segment(s, i))
RoundEnd(s, i) == Stop(s, Segment(s, i), KindCharacters(RoundKind(s, i)))
RoundText(s, i) == SubSeq(s, Segment(s, i), RoundEnd(s, i) - 1)

SegmentKey(kind, text) ==
  CASE kind = "end" -> <<>>
    [] kind = "number" -> NumberKey(text)
    [] kind = "letters" -> LettersKey(text)

RoundKey(s, i) ==
  <<IF Tilde(s, i) THEN 0 ELSE 1, KindRank[RoundKind(s, i)]>>
    \o SegmentKey(RoundKind(s, i), RoundText(s, i))

(* The key of what is left of a text, from each place on. *)
KeyFrom(s) ==
  LET key[i \in 1..(Len(s) + 1)] ==
        RoundKey(s, i) \o (IF RoundKind(s, i) = "end" THEN <<>> ELSE key[RoundEnd(s, i)])
  IN key

LoopKey(s) == KeyFrom(s)[1]

Key(s) ==
  NumberKey(PartOf(s, "epoch")) \o LoopKey(PartOf(s, "version")) \o LoopKey(PartOf(s, "release"))

KeyOrder(x, y) ==
  LET k == CHOOSE k \in 1..(Len(x) + 1) :
             /\ \A m \in 1..(k - 1) : m <= Len(y) /\ x[m] = y[m]
             /\ k <= Len(x) /\ k <= Len(y) => x[k] # y[k]
  IN IF k > Len(x) \/ k > Len(y) THEN Order(Len(x), Len(y)) ELSE Order(x[k], y[k])

(***************************************************************************)
(* The answer is the order of the two keys, each computed from one version *)
(* alone.  So the comparison is a total order up to equal keys: what is    *)
(* older than an affected version is affected, two equal versions are      *)
(* affected alike, and both directions agree.  Nothing in the loop, which  *)
(* moves through both texts at once, makes that evident (_rpmvercmp,       *)
(* _matches_package with lt_fixed).                                        *)
(***************************************************************************)
ComparesKeys == part = "done" => result = KeyOrder(Key(texts.left), Key(texts.right))
=============================================================================
