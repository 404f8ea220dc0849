----------------------------- MODULE AnswerParts -----------------------------
(***************************************************************************)
(* The pure parts of an answer, each checked over small inputs: what the   *)
(* model is sent (prompt, history, window, key), what is read from its     *)
(* stream, how calls are paced, metered and retried, and what the tools    *)
(* answer.                                                                 *)
(***************************************************************************)
EXTENDS Integers, Sequences, FiniteSets, SequencesExt

LOCAL Larger(m, n) == IF m >= n THEN m ELSE n
LOCAL Smaller(m, n) == IF m <= n THEN m ELSE n
LOCAL Latest(s, n) == SubSeq(s, Larger(1, Len(s) - n + 1), Len(s))

(***************************************************************************)
(* Inline thinking: _ThinkingStreamParser.  The tags <think> and </think>  *)
(* are shortened to three characters that still share their first; "n" is  *)
(* a newline.  Text comes out as <<thinking, character>>.                  *)
(***************************************************************************)

ThinkOpen == <<"<", "t", ">">>
ThinkClose == <<"<", "/", ">">>

Find(buf, tag) ==
  SelectInSeq([i \in 1 .. Larger(0, Len(buf) - Len(tag) + 1) |->
                 SubSeq(buf, i, i + Len(tag) - 1)], LAMBDA w : w = tag)

(* What is surely no part of a tag: all but the longest end of the buffer  *)
(* that begins one.                                                        *)
Settled(buf, tag) ==
  Len(buf) - FoldLeft(LAMBDA best, k :
    IF k <= Len(buf) /\ SubSeq(buf, Len(buf) - k + 1, Len(buf)) = SubSeq(tag, 1, k)
    THEN k ELSE best, 0, [k \in 1 .. Len(tag) - 1 |-> k])

RECURSIVE Stripped(_)
Stripped(s) == IF s # <<>> /\ Head(s) = "n" THEN Stripped(Tail(s)) ELSE s

Tagged(think, s) == [i \in DOMAIN s |-> <<think, s[i]>>]

RECURSIVE Parsed(_)
Parsed(p) ==
  LET tag == IF p.think THEN ThinkClose ELSE ThinkOpen
      i == Find(p.buf, tag)
      sure == IF i = 0 THEN Settled(p.buf, tag) ELSE i - 1
      sent == [p EXCEPT !.out = @ \o Tagged(p.think, SubSeq(p.buf, 1, sure)),
                        !.buf = SubSeq(@, sure + 1, Len(@))]
  IN IF i = 0 THEN sent
     ELSE Parsed([sent EXCEPT !.think = ~@,
                              !.buf = Stripped(SubSeq(@, Len(tag) + 1, Len(@)))])

Feed(p, chunk) == Parsed([p EXCEPT !.buf = @ \o chunk])
Flush(p) == p.out \o Tagged(p.think, p.buf)
Streamed(chunks) ==
  Flush(FoldLeft(Feed, [think |-> FALSE, buf |-> <<>>, out |-> <<>>], chunks))

LOCAL Texts(chars, n) == UNION {[1 .. k -> chars] : k \in 0 .. n}
LOCAL OneByOne(s) == [i \in DOMAIN s |-> <<s[i]>>]
LOCAL InTwo(s) == {<<SubSeq(s, 1, i), SubSeq(s, i + 1, Len(s))>> : i \in 1 .. Len(s) - 1}

(* However the server cuts its stream into chunks, the same text is shown  *)
(* as thinking and the same as answer.                                     *)
ASSUME CutsDoNotMatter ==
  \A s \in Texts({"<", "t", "/", ">"}, 6) :
    \A cut \in {OneByOne(s)} \cup InTwo(s) : Streamed(cut) = Streamed(<<s>>)

(* Except for a newline after a tag, which is dropped only when it comes   *)
(* in the chunk that ends the tag.                                         *)
ASSUME CutsBeforeNewline ==
  \E s \in Texts({"<", "t", ">", "n"}, 4) : Streamed(OneByOne(s)) # Streamed(<<s>>)

(***************************************************************************)
(* Which event of the agent's stream becomes which frames.                 *)
(***************************************************************************)

Framed(acc, event) ==
  LET told(status) == IF status \in ToSet(acc) THEN <<>> ELSE <<status>> IN
  CASE event = "reasoning" -> acc \o told("thinking") \o <<"reasoning">>
    [] event = "content" -> acc \o told("answering") \o <<"content">>
    [] event \in {"tool_call", "tool_result"} -> Append(acc, event)
    [] OTHER -> acc
Frames(events) == FoldLeft(Framed, <<"retrieving">>, events)

(* A phase is announced once, before what it announces. *)
ASSUME PhasesAnnounced ==
  \A events \in Texts({"reasoning", "content", "tool_call", "chain"}, 4) :
    LET f == Frames(events)
        before(announced, what) == \A i \in DOMAIN f : f[i] = what =>
          Cardinality({j \in 1 .. i : f[j] = announced}) = 1
    IN before("thinking", "reasoning") /\ before("answering", "content")

(* A text that was not streamed is delivered in pieces: whole lines, a     *)
(* long one split between words.  A line is a sequence of word lengths.    *)
PieceLen(ws) == FoldLeft(LAMBDA n, w : n + w + 1, -1, ws)
PiecesOf(line, size) ==
  IF PieceLen(line) <= size THEN <<line>>
  ELSE LET step(acc, w) ==
             IF PieceLen(Append(acc.buf, w)) > size /\ acc.buf # <<>>
             THEN [out |-> Append(acc.out, acc.buf), buf |-> <<w>>]
             ELSE [acc EXCEPT !.buf = Append(@, w)]
           end == FoldLeft(step, [out |-> <<>>, buf |-> <<>>], line)
       IN Append(end.out, end.buf)

(* Every word is delivered, in order, in pieces of at most `size`.  The    *)
(* space between two pieces of a line is not.                              *)
ASSUME PiecesWhole ==
  \A line \in Texts(1 .. 3, 4) : line # <<>> =>
    LET ps == PiecesOf(line, 4) IN
    /\ FlattenSeq(ps) = line
    /\ \A i \in DOMAIN ps : PieceLen(ps[i]) <= 4

(***************************************************************************)
(* What the model is sent.                                                 *)
(***************************************************************************)

Marker == 60  \* length of the note that text was cut
Clamped(len, budget) == IF len <= budget THEN len ELSE budget + Marker
PromptBudget(window) == 4 * Larger(1024, window - 2048)
HistoryPart(window, history) ==
  Clamped(history, Larger(2048, PromptBudget(window) \div 3))
KnowledgePart(window, history, knowledge) ==
  Clamped(knowledge, Larger(2048, PromptBudget(window) - HistoryPart(window, history)))

(* History and knowledge together stay within the window, but for the two  *)
(* notes and the least share each of them has; neither is cut when both    *)
(* fit.                                                                    *)
ASSUME PromptFits ==
  \A window \in {1, 2048, 3072, 4096, 8192, 200000},
     history \in {0, 1, 1365, 2048, 2049, 5000, 900000},
     knowledge \in {0, 1, 2047, 2048, 30000, 900000} :
    LET h == HistoryPart(window, history)
        k == KnowledgePart(window, history, knowledge)
    IN /\ h + k <= PromptBudget(window) + 2 * Marker
       /\ 3 * history <= PromptBudget(window) /\ h + knowledge <= PromptBudget(window)
            => h = history /\ k = knowledge

(* Replayed history: the last messages of the conversation, those of the   *)
(* user and the assistant that say something.                              *)
LOCAL Said(m) == m.role \in {"user", "assistant"} /\ m.text
Replayed(messages, n) == SelectSeq(Latest(messages, n), Said)
InputMessages(messages, question, session, seed, n) ==
  (IF messages # <<>> /\ (~session \/ seed) THEN Replayed(messages, n) ELSE <<>>)
    \o <<question>>

(* A continued session replays nothing: its checkpointer has the history.  *)
ASSUME HistoryOnce ==
  LET msgs == Texts([role : {"user", "system"}, text : BOOLEAN], 3)
      ask == [role |-> "user", text |-> TRUE]
  IN \A ms \in msgs :
       /\ InputMessages(ms, ask, TRUE, FALSE, 2) = <<ask>>
       /\ \A seed \in BOOLEAN :
            LET in == InputMessages(ms, ask, FALSE, seed, 2) IN
            Len(in) <= 3 /\ Last(in) = ask /\ \A i \in DOMAIN in : Said(in[i])

(* The window of a model: the first source that says a positive number; 0  *)
(* stands for one that says nothing.                                       *)
FirstSaid(ns, default) ==
  LET said == SelectSeq(ns, LAMBDA n : n > 0) IN
  IF said = <<>> THEN default ELSE Head(said)
DefaultWindow == 200000
Advertised(probes) == FirstSaid(probes, 0)
ContextWindow(env, legacy, admin, cached, catalog, probes, probing) ==
  FirstSaid(<<env, legacy, admin, cached, catalog,
              IF probing THEN Advertised(probes) ELSE 0>>, DefaultWindow)
(* What a resolution leaves in the cache; a fallback without probes is not *)
(* kept.                                                                   *)
WindowCached(env, legacy, admin, cached, catalog, probes, probing) ==
  IF env > 0 \/ legacy > 0 \/ admin > 0 \/ cached > 0 THEN cached
  ELSE IF catalog > 0 \/ probing
       THEN ContextWindow(0, 0, 0, 0, catalog, probes, probing) ELSE cached

(* A cached answer is the one that would be found again: a resolution that *)
(* could not probe never stands in for one that can, and the catalogue is  *)
(* never overruled by a probe.                                             *)
ASSUME WindowStable ==
  \A catalog \in {0, 7}, probe \in {0, 5}, p1 \in BOOLEAN, p2 \in BOOLEAN :
    LET left == WindowCached(0, 0, 0, 0, catalog, <<0, probe>>, p1)
        again == ContextWindow(0, 0, 0, left, catalog, <<0, probe>>, p2)
    IN /\ p2 => again = ContextWindow(0, 0, 0, 0, catalog, <<0, probe>>, TRUE)
       /\ catalog > 0 => again = catalog

(* The key: an argument wins over the environment, which wins over the     *)
(* configured default.                                                     *)
Keys == {"none", "placeholder", "real"}
ResolvedKey(key) == IF key = "real" THEN key ELSE "none"
Credentials(arg, env, default, local) ==
  LET explicit == IF arg # "none" THEN arg ELSE env
      raw == IF explicit # "none" THEN explicit ELSE default
  IN IF ResolvedKey(raw) # "none" THEN "real"
     ELSE IF explicit = "placeholder" \/ local THEN "placeholder" ELSE "error"

(* An endpoint elsewhere is called without a key only when the argument or *)
(* the environment says so; a local one never fails for want of a key.     *)
ASSUME KeylessOnPurpose ==
  \A arg \in Keys, env \in Keys, default \in Keys, local \in BOOLEAN :
    LET key == Credentials(arg, env, default, local) IN
    /\ key = "placeholder" /\ ~local =>
         arg = "placeholder" \/ (arg = "none" /\ env = "placeholder")
    /\ local => key # "error"

(* A tunable of config/timeout.py: store, then environment, then default,  *)
(* never under its floor.  -1 stands for unset or not a number.            *)
Tunable(store, env, default, floor) ==
  Larger(floor, FirstSaid(<<store + 1, env + 1>>, default + 1) - 1)
Switch(store, env, default) ==
  IF store # "unset" THEN store = "on" ELSE IF env # "unset" THEN env # "off" ELSE default
(* sync_timeout_env exports what the store says; nothing takes it back.    *)
EnvAfter(store, env) == IF store >= 0 THEN store ELSE env

(* Exporting a stored value changes no resolution while it is stored, and  *)
(* a restored default is hidden by the value exported before.              *)
ASSUME TunableExported ==
  \A store \in -1 .. 3, env \in -1 .. 3, floor \in 0 .. 2 :
    /\ Tunable(store, EnvAfter(store, env), 2, floor) = Tunable(store, env, 2, floor)
    /\ Tunable(store, env, 2, floor) >= floor
    /\ store >= 0 => Tunable(-1, EnvAfter(store, env), 2, floor) = Larger(floor, store)

(***************************************************************************)
(* Pace, meters and retries.                                               *)
(***************************************************************************)

(* Slots of the model limiter: each call is told when it may start.        *)
Reserve(acc, now) ==
  LET start == Larger(now, acc.next) IN
  [next |-> start + acc.gap, starts |-> Append(acc.starts, start), gap |-> acc.gap]
(* Slots of the embedder limiter, from the time of the last one; 0: none.  *)
ReserveSlot(acc, now) ==
  LET start == IF acc.last = 0 THEN now ELSE Larger(now, acc.last + acc.gap) IN
  [last |-> start, starts |-> Append(acc.starts, start), gap |-> acc.gap]
LOCAL Arrivals == {s \in Texts(1 .. 4, 4) : \A i, j \in DOMAIN s : i < j => s[i] <= s[j]}

(* Calls that arrive together start one gap apart, in order, never early   *)
(* and no later than the queue before them makes necessary.                *)
ASSUME SlotsSpaced ==
  \A s \in Arrivals, gap \in 0 .. 3 :
    LET model == FoldLeft(Reserve, [next |-> 0, starts |-> <<>>, gap |-> gap], s).starts
        embed == FoldLeft(ReserveSlot, [last |-> 0, starts |-> <<>>, gap |-> gap], s).starts
    IN /\ model = embed
       /\ \A i \in DOMAIN s : model[i] >= s[i]
       /\ \A i \in 1 .. Len(s) - 1 :
            model[i + 1] = Larger(s[i + 1], model[i] + gap)

(* The token bucket of a user or an address: `limit` tokens, as many again *)
(* per window.  A token is `window` units, so that a tick adds `limit`.    *)
Taken(acc, now) ==
  LET have == Smaller(acc.limit * acc.window,
                      acc.tokens + (now - acc.updated) * acc.limit)
      ok == have >= acc.window
  IN [acc EXCEPT !.updated = now, !.tokens = IF ok THEN have - acc.window ELSE have,
                 !.allowed = IF ok THEN Append(@, now) ELSE @]
Allowed(requests, limit, window) ==
  FoldLeft(Taken, [tokens |-> limit * window, updated |-> 1, allowed |-> <<>>,
                   limit |-> limit, window |-> window], requests).allowed
(* What an administrator or the environment sets, if it is a number > 0.   *)
Limit(store, env, default) ==
  LET said == IF store # -1 THEN store ELSE env IN IF said > 0 THEN said ELSE default

(* In any stretch of time a user gets at most one bucket and its refill.   *)
ASSUME BucketBounds ==
  \A s \in Arrivals, limit \in 1 .. 2, window \in 1 .. 3 :
    LET ok == Allowed(s, limit, window) IN
    \A i, j \in DOMAIN ok : i <= j =>
      (j - i + 1) * window <= limit * window + limit * (ok[j] - ok[i])

(* One model call: up to three attempts while the server says 429; what    *)
(* GenerateLLM makes of the outcomes: retried while transient or empty.    *)
RateAttempts == 3
CallOutcome(replies) ==
  LET tries == SubSeq(replies, 1, Smaller(RateAttempts, Len(replies)))
      k == SelectInSeq(tries, LAMBDA x : x # "429")
  IN IF k > 0 THEN [used |-> k, got |-> tries[k]]
     ELSE [used |-> RateAttempts, got |-> "429"]
RECURSIVE Generated(_, _, _)
Generated(replies, attempt, used) ==
  LET call == CallOutcome(replies)
      now == used + call.used
      rest == SubSeq(replies, call.used + 1, Len(replies))
  IN CASE call.got = "text" -> [used |-> now, got |-> "text"]
       [] call.got = "error" -> [used |-> now, got |-> ""]
       [] attempt = 3 -> [used |-> now, got |-> ""]
       [] OTHER -> Generated(rest, attempt + 1, now)

(* Whatever the server does, an answer costs at most nine requests, and an *)
(* answer the server gave before it failed for good is not lost.           *)
ASSUME RequestsBounded ==
  \A replies \in [1 .. 4 -> {"429", "timeout", "empty", "text", "error"}] :
    LET served == replies \o <<"429", "429", "429", "429", "429">>
        g == Generated(served, 1, 0)
    IN g.used <= 9 /\ (g.got = "text" <=> served[g.used] = "text")

(***************************************************************************)
(* What the tools answer.                                                  *)
(***************************************************************************)

(* Recall: the nearest chunks, or the most recent ones when the search or  *)
(* the embedder fails; 1 <= k <= 100 of them.                              *)
HitCount(stored, topK) == Smaller(stored, Larger(1, Smaller(topK, 100)))
Recalled(capable, vector, stored, topK) ==
  [by |-> IF capable /\ vector THEN "distance" ELSE "recency",
   hits |-> HitCount(stored, topK)]

(* An entity by name: the first exact name, else the first exact title,    *)
(* else the first prefix.  A word is a sequence of letters.                *)
ExactOrPrefix(rows, target) ==
  LET exact == SelectInSeq(rows, LAMBDA r : r = target)
      prefix == SelectInSeq(rows, LAMBDA r : IsPrefix(target, r))
  IN IF target = <<>> THEN 0 ELSE IF exact > 0 THEN exact ELSE prefix

(* An exact name is never shadowed by a longer one, and a prefix that is   *)
(* unique finds its entity.                                                *)
ASSUME NamesFound ==
  LET words == Texts({"x", "y"}, 2) \ {<<>>} IN
  \A rows \in Texts(words, 2), target \in words :
    LET i == ExactOrPrefix(rows, target)
        matching == {j \in DOMAIN rows : IsPrefix(target, rows[j])}
    IN /\ target \in ToSet(rows) => rows[i] = target
       /\ matching = {} <=> i = 0
       /\ Cardinality(matching) = 1 => i \in matching

(* A file: the first clone of the product that has it; "escapes" when some *)
(* clone refuses the path and none has it.                                 *)
FileRead(clones) ==
  LET k == SelectInSeq(clones, LAMBDA c : c = "has") IN
  IF clones = <<>> THEN "no clone" ELSE IF k > 0 THEN k
  ELSE IF "refuses" \in ToSet(clones) THEN "escapes" ELSE "missing"

(* A result is cut to its limit and says so. *)
CapResult(len, limit) == IF len <= limit THEN [kept |-> len, told |-> FALSE]
                         ELSE [kept |-> limit, told |-> TRUE]

(* The variables of an HTTP integration: what the model supplies, or the   *)
(* declared default when that is nothing.                                  *)
HttpValues(variables, supplied) ==
  [v \in DOMAIN variables |->
     IF v \in DOMAIN supplied /\ supplied[v] # "" THEN supplied[v] ELSE variables[v]]

(* A PUT of secrets: masked entries are echoes and are dropped; nothing    *)
(* but echoes keeps what is stored, anything else replaces all of it.      *)
Mask == "***"
SecretsAfter(stored, put) ==
  LET real == {k \in DOMAIN put : put[k] # Mask} IN
  IF DOMAIN put # {} /\ real = {} THEN stored ELSE [k \in real |-> put[k]]

(* Echoing the masked view changes nothing, a mask is never stored, and an *)
(* empty dictionary clears.                                                *)
ASSUME SecretsKept ==
  \A have \in SUBSET {1, 2}, ask \in SUBSET {1, 2} :
    \A stored \in [have -> {"s", "t"}], put \in [ask -> {"u", Mask}] :
      LET after == SecretsAfter(stored, put) IN
      /\ \A k \in DOMAIN after : after[k] # Mask
      /\ have # {} => SecretsAfter(stored, [k \in have |-> Mask]) = stored
      /\ ask = {} => after = put

(* An uploaded file: converted, else taken as text, else refused (-1). *)
Attachment(converted, text, cap) ==
  IF converted > 0 THEN Smaller(converted, cap) ELSE IF text >= 0 THEN Smaller(text, cap) ELSE -1
=============================================================================
