------------------------------ MODULE ModelCall ------------------------------
(***************************************************************************)
(* One process asking the language model: the channels a call tries, and   *)
(* for each the base URLs, the wire API, the JSON mode, the attempts and   *)
(* the fall from a stream to a plain request                               *)
(* (services/ai/model_router_service.py, services/ai/providers.py).        *)
(***************************************************************************)
EXTENDS Naturals, Sequences, SequencesExt

CONSTANTS
  Channels,
  Urls,           \* Urls[c]: the base URLs of a channel, in order
  Wire,           \* Wire[c]: "responses", "chat", "auto" or "ollama"
  Json,           \* channels asked in JSON mode
  MaxAttempts,    \* DEFAULT_TRANSIENT_RETRY_ATTEMPTS
  Threshold       \* CONSECUTIVE_FAILURE_THRESHOLD

ModelCallAssumption ==
  /\ MaxAttempts \in Nat \ {0} /\ Threshold \in Nat \ {0}
  /\ Json \subseteq Channels /\ IsFiniteSet(Channels)
  /\ \A c \in Channels : Urls[c] \in Seq(STRING) \ {<<>>} /\ Wire[c] \in {"responses", "chat", "auto", "ollama"}

VARIABLES
  enabled,        \* channels whose row is active
  cool,           \* channels this process sees cooling, in Redis or in its own map
  failures,       \* failures counted since the last success, up to Threshold
  learned,        \* the wire API remembered for a URL (_AUTO_WIRE_API_PREFERENCES)
  ask             \* the call under way, or how the last one ended

vars == <<enabled, cool, failures, learned, ask>>

AllUrls == UNION {{Urls[c][i] : i \in DOMAIN Urls[c]} : c \in Channels}
Unknown == "none"
Apis == {"responses", "chat", "ollama"}

(* What a request may fail with: 401 or 403, 429, 404 or 405, 400, 422, a   *)
(* 5xx, no answer, a page or an empty stream, another unreadable answer.   *)
Errors == {"auth", "limited", "missing", "rejected", "unprocessable", "down", "lost", "page", "unreadable"}

Transient == {"limited", "down", "lost"}
Refusals == {"rejected", "unprocessable"}
ElsewhereMayWork == {"missing", "unprocessable", "page"}
NoStatus == {"lost", "page", "unreadable"}

(* _can_failover_after_exception *)
NextMayWork == NoStatus \cup {"auth", "limited", "down"}

(* The text the caller was given: nothing, text of the request under way,  *)
(* of an earlier request, or of several.                                   *)
Texts == {"none", "current", "earlier", "mixed"}

Rest == [at |-> "idle", streams |-> FALSE, plain |-> FALSE, todo |-> <<>>, base |-> 1, pin |-> Unknown,
         api |-> Unknown, json |-> FALSE, tries |-> 0, text |-> "none"]

Init ==
  /\ enabled = Channels /\ cool = {}
  /\ failures = [c \in Channels |-> 0]
  /\ learned = [u \in AllUrls |-> Unknown]
  /\ ask = Rest

-----------------------------------------------------------------------------
Channel == Head(ask.todo)
Url == Urls[Channel][ask.base]

(* The API a channel is bound to; a channel that finds out itself starts    *)
(* with what it remembers of the URL.                                      *)
Pinned(c, u) == IF Wire[c] = "auto" THEN learned[u] ELSE Wire[c]

FirstApi(pin) == IF pin = Unknown THEN "responses" ELSE pin

(* Another request: what was given before is now of an earlier one. *)
Again(changed) == [changed EXCEPT !.tries = 1, !.text = IF @ = "current" THEN "earlier" ELSE @]

(* A plain request on a URL; only _generate_chat_completions knows the JSON mode. *)
AskPlain(c, base) ==
  LET pin == Pinned(c, Urls[c][base])
  IN Again([ask EXCEPT !.at = "asking", !.plain = TRUE, !.base = base, !.pin = pin, !.api = FirstApi(pin),
                        !.json = FirstApi(pin) = "chat" /\ c \in Json])

(* A stream keeps for every URL what was remembered of the first. *)
AskStream(base, pin) ==
  Again([ask EXCEPT !.at = "asking", !.plain = FALSE, !.base = base, !.pin = pin, !.api = FirstApi(pin)])

AskChat == Again([ask EXCEPT !.api = "chat", !.json = ask.plain /\ Channel \in Json])

Ended(at, text) ==
  [Rest EXCEPT !.at = at, !.text = text, !.plain = at = "done" /\ ask.plain,
               !.api = IF at = "done" THEN ask.api ELSE Unknown]

(* The next channel's provider is built; at the end of the list the last error is raised. *)
Proceed(left) ==
  IF left = <<>> THEN Ended("failed", ask.text)
  ELSE [Ended("building", ask.text) EXCEPT !.streams = ask.streams, !.todo = left]

-----------------------------------------------------------------------------
(* select_gateway_channels: the capable channels, the healthy ones if any,  *)
(* in an order that priorities, latencies and chance decide.               *)
Start(streams) ==
  /\ ask.at \notin {"building", "asking"}
  /\ \E capable \in (SUBSET enabled) \ {{}} :
     \E order \in SetToSeqs(IF capable \ cool # {} THEN capable \ cool ELSE capable) :
       ask' = [Rest EXCEPT !.at = "building", !.streams = streams, !.todo = order]
  /\ UNCHANGED <<enabled, cool, failures, learned>>

(* build_gateway_provider raises outside the try: the whole call ends. *)
Build(usable) ==
  /\ ask.at = "building"
  /\ ask' = IF ~usable THEN Ended("failed", ask.text)
             ELSE IF ask.streams THEN AskStream(1, Pinned(Channel, Urls[Channel][1]))
             ELSE AskPlain(Channel, 1)
  /\ UNCHANGED <<enabled, cool, failures, learned>>

(* check_cooldown_channels asks a cooling channel, as a plain request. *)
Probe(c) ==
  /\ ask.at \notin {"building", "asking"}
  /\ c \in enabled \cap cool
  /\ LET pin == Pinned(c, Urls[c][1])
     IN ask' = [Rest EXCEPT !.at = "asking", !.plain = TRUE, !.todo = <<c>>, !.tries = 1, !.pin = pin,
                             !.api = FirstApi(pin), !.json = FirstApi(pin) = "chat" /\ c \in Json]
  /\ UNCHANGED <<enabled, cool, failures, learned>>

-----------------------------------------------------------------------------
(* A delta of a streamed answer reaches the caller. *)
Delta ==
  /\ ask.at = "asking" /\ ~ask.plain
  /\ ask' = [ask EXCEPT !.text = IF @ = "none" THEN "current" ELSE IF @ = "earlier" THEN "mixed" ELSE @]
  /\ UNCHANGED <<enabled, cool, failures, learned>>

(* record_gateway_success and _remember_auto_wire_api *)
Answered(text) ==
  /\ ask' = Ended("done", text)
  /\ failures' = [failures EXCEPT ![Channel] = 0]
  /\ cool' = cool \ {Channel}
  /\ learned' = IF Wire[Channel] = "auto" THEN [learned EXCEPT ![Url] = ask.api] ELSE learned
  /\ UNCHANGED enabled

(* An empty stream is an error of the two OpenAI APIs, not of Ollama; a      *)
(* stream that fell to a plain request ends as one (PlainAnswer).          *)
StreamEnds ==
  /\ ask.at = "asking" /\ ~ask.plain
  /\ ask.text = "none" => ask.api = "ollama"
  /\ Answered(ask.text)

(* _extract_openai_content takes an empty content for the answer; the other *)
(* two APIs raise.                                                         *)
PlainAnswer ==
  /\ ask.at = "asking" /\ ask.plain
  /\ \/ Answered(IF ask.text = "none" THEN "current" ELSE "mixed")
     \/ ask.api = "chat" /\ Answered(ask.text)

-----------------------------------------------------------------------------
(* The layers an error passes on its way out, the innermost first. *)

(* _post_with_retry; streams and Ollama are asked once. *)
MayTryAgain(e) ==
  ask.plain /\ ask.api # "ollama" /\ e \in Transient /\ ask.tries < MaxAttempts

(* The layers of a stream look whether a part of it was given to the caller. *)
NothingGiven == ask.plain \/ ask.text = "none"

(* Mutation: a stream that breaks is asked for again as a whole answer. *)
AlwaysPlainInstead == TRUE

(* stream_generate falls back to generate. *)
PlainInstead ==
  ask.text = "none"

FindsOutItself == ask.pin = Unknown /\ ask.api = "responses" /\ NothingGiven

MayChangeUrl(e) ==
  e \in ElsewhereMayWork /\ ask.base < Len(Urls[Channel]) /\ NothingGiven

(* The request is made once more, another way. *)
Retry(e) ==
  /\ ask.at = "asking"
  /\ \/ MayTryAgain(e) /\ ask' = [Again(ask) EXCEPT !.tries = ask.tries + 1]
     \/ ask.json /\ e \in Refusals /\ ask' = Again([ask EXCEPT !.json = FALSE])
     \/ FindsOutItself /\ e \in Refusals \cup {"missing"} /\ ask' = AskChat
  /\ UNCHANGED <<enabled, cool, failures, learned>>

(* The error left generate_chat_completions or the wire API's fallback; of  *)
(* a 400 or 422 the message decides whether it does.                       *)
Leaves(e) ==
  /\ ask.at = "asking"
  /\ ~MayTryAgain(e)
  /\ ~(FindsOutItself /\ e = "missing")

ChangeUrl(e) ==
  /\ Leaves(e) /\ MayChangeUrl(e)
  /\ ask' = IF ask.plain THEN AskPlain(Channel, ask.base + 1) ELSE AskStream(ask.base + 1, ask.pin)
  /\ UNCHANGED <<enabled, cool, failures, learned>>

(* stream_generate asks for the whole answer, on the first URL again. *)
FallToPlain(e) ==
  /\ Leaves(e) /\ ~MayChangeUrl(e)
  /\ ~ask.plain /\ PlainInstead
  /\ ask' = AskPlain(Channel, 1)
  /\ UNCHANGED <<enabled, cool, failures, learned>>

(* record_gateway_failure *)
Record(c, e) ==
  LET count == failures[c] + 1
  IN /\ enabled' = IF e = "auth" THEN enabled \ {c} ELSE enabled
     /\ failures' = IF e \in {"auth", "limited"} \/ failures[c] = Threshold THEN failures
                    ELSE [failures EXCEPT ![c] = count]
     /\ cool' = IF e = "limited" \/ (e # "auth" /\ (e \in NoStatus \cup {"down"} \/ count >= Threshold))
                THEN cool \cup {c} ELSE cool

(* The provider gave up. generate_with_gateway asks the next channel        *)
(* whatever the error was, stream_with_gateway when nothing was given and  *)
(* the error is not one of the request.                                    *)
GiveUp(e) ==
  /\ Leaves(e) /\ ~MayChangeUrl(e)
  /\ ask.plain \/ ~PlainInstead
  /\ Record(Channel, e)
  /\ ask' = IF ask.streams /\ (ask.text # "none" \/ e \notin NextMayWork)
             THEN Ended("failed", ask.text)
             ELSE Proceed(Tail(ask.todo))
  /\ UNCHANGED learned

-----------------------------------------------------------------------------
(* Other processes record their calls (a record tells four kinds of error   *)
(* apart); a cooldown ends, there or by time; an administrator enables a   *)
(* channel again.                                                          *)
Elsewhere(c) ==
  /\ \/ \E e \in {"auth", "limited", "rejected", "lost"} : Record(c, e)
     \/ enabled' = enabled /\ cool' = cool \ {c} /\ failures' = [failures EXCEPT ![c] = 0]
     \/ enabled' = enabled \cup {c} /\ UNCHANGED <<cool, failures>>
  /\ UNCHANGED <<learned, ask>>

Next ==
  \/ \E streams \in BOOLEAN : Start(streams)
  \/ \E usable \in BOOLEAN : Build(usable)
  \/ Delta \/ StreamEnds \/ PlainAnswer
  \/ \E e \in Errors : Retry(e) \/ ChangeUrl(e) \/ FallToPlain(e) \/ GiveUp(e)
  \/ \E c \in Channels : Probe(c) \/ Elsewhere(c)

Spec == Init /\ [][Next]_vars

-----------------------------------------------------------------------------
TypeOK ==
  /\ enabled \subseteq Channels /\ cool \subseteq Channels
  /\ failures \in [Channels -> 0..Threshold]
  /\ learned \in [AllUrls -> Apis \cup {Unknown}]
  /\ ask \in [at : {"idle", "building", "asking", "done", "failed"}, streams : BOOLEAN, plain : BOOLEAN,
               todo : Seq(Channels), base : Nat \ {0}, pin : Apis \cup {Unknown},
               api : Apis \cup {Unknown}, json : BOOLEAN, tries : 0..MaxAttempts, text : Texts]

(* What a caller was given is text of one answer of one request: no layer   *)
(* asks again, another way or elsewhere, once a part of a stream is out    *)
(* (_stream_with_base_url_fallback, stream_generate, stream_with_gateway), *)
(* and a call that ends well without a word was answered by a stream of    *)
(* Ollama or by a plain request to chat completions, which alone may be    *)
(* empty (_extract_openai_content).                                        *)
OneWholeAnswer ==
  /\ ask.text \in {"none", "current"}
  /\ ask.at = "done" /\ ask.text = "none" => ask.api = IF ask.plain THEN "chat" ELSE "ollama"
=============================================================================
