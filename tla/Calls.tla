-------------------------------- MODULE Calls --------------------------------
(***************************************************************************)
(* Concurrent calls on one client that are answered once and whole: chats  *)
(* of Gemini with the thinking levels that its model is found to refuse    *)
(* (gemini/gemini.go, gemini/adapt.go), embeddings of OpenAI, Gemini,      *)
(* Voyage and Ollama, the last with its retries on a text cut short,       *)
(* reranking of Voyage, and decisions of OpenAI and TypeSafe, whose        *)
(* requests and replies are in Decisions.  All calls of a client share its *)
(* usage, and those of Gemini the levels its model rejected.               *)
(*                                                                         *)
(* A reply is "failed" when it does not reach the client, cannot be        *)
(* decoded or has a status that the client only reports.  An embedding is  *)
(* the number of the text it belongs to.                                   *)
(***************************************************************************)
EXTENDS Decisions, FiniteSetsExt

CONSTANTS
  Loads,   \* what callers ask of which client: records of "requests", by caller, ...
           \* ... "accepts", Gemini's levels that the model takes, and "fits", the ...
           \* ... length of text that Ollama's model takes
  Tokens   \* what a reply may say it cost

ASSUME CallsAssumption == Tokens \subseteq Nat

\* A text of Ollama's: its length, and where its spaces are.
OllamaTexts == [size : Nat, spaces : SUBSET Nat]

\* Finitely many calls, of one text or a sequence of them, or of questions.
ASSUME LoadsAssumption ==
  \A l \in Loads :
    /\ IsFiniteSet(DOMAIN l.requests)
    /\ \A c \in DOMAIN l.requests :
         LET r == l.requests[c]
         IN  /\ r.op = "decide" => r.questions \in Seq(Questions)
             /\ r.op \in {"embed", "embed_batch", "multimodal"} =>
                  IF r.provider = "ollama" THEN r.texts \in Seq(OllamaTexts) ELSE r.n \in Nat
             /\ r.op = "embed" => IF r.provider = "ollama" THEN Len(r.texts) = 1 ELSE r.n = 1

VARIABLES
  load,      \* the load being run
  rejected,  \* levels the client leaves out: client.rejectedThinking of Gemini
  usage,     \* the client's tokens
  pc,        \* where each call is: "build", "sent" or "ended"
  level,     \* the level a Gemini chat was sent with
  text,      \* Ollama: the text embedded, how it is cut, and the error to report
  sends,     \* what was sent, and the reply to it, of Gemini chats and Ollama texts
  spent,     \* the cost of the decoded replies that each call had
  back       \* what each call returned

vars == <<load, rejected, usage, pc, level, text, sends, spent, back>>

Callers    == DOMAIN load.requests
Request(c) == load.requests[c]
IsChat(c)  == Request(c).op \in {"chat", "chat_stream"}
OfOllama(c) == Request(c).provider = "ollama"

NoLevel  == "none"
NoVector == 0

Init ==
  /\ load \in Loads
  /\ rejected = {} /\ usage = 0
  /\ pc = [c \in Callers |-> "build"]
  /\ level = [c \in Callers |-> NoLevel]
  /\ text = [c \in Callers |-> [item |-> 1, cut |-> 0, error |-> "none"]]
  /\ sends = [c \in Callers |-> <<>>]
  /\ spent = [c \in Callers |-> 0]
  /\ back = [c \in Callers |-> [outcome |-> "none", result |-> <<>>]]

Return(c, outcome, result) ==
  /\ pc' = [pc EXCEPT ![c] = "ended"]
  /\ back' = [back EXCEPT ![c] = [outcome |-> outcome, result |-> result]]

Fail(c) == Return(c, "error", <<>>)

-----------------------------------------------------------------------------
(* Calls that are never sent *)

Offered ==
  ({"openai", "gemini", "ollama", "voyage"} \X {"embed", "embed_batch"})
  \cup ({"gemini"} \X {"chat", "chat_stream"})
  \cup ({"voyage"} \X {"multimodal", "rerank"})
  \cup ({"openai", "typesafe"} \X {"decide"})

\* Voyage wants a model, and contents of a type it knows.
Refused(r) ==
  \/ <<r.provider, r.op>> \notin Offered
  \/ r.provider = "voyage" /\ ~(r.named /\ r.known)
  \/ r.op = "decide" /\ ~Answerable(r)

Refuse(c) ==
  /\ pc[c] = "build" /\ Refused(Request(c))
  /\ Return(c, "refused", <<>>)
  /\ UNCHANGED <<load, rejected, usage, level, text, sends, spent>>

\* An empty batch is its own answer, for Gemini and, as no text is sent, for Ollama.
Texts(r) == IF r.provider = "ollama" THEN Len(r.texts) ELSE r.n

EmptyBatch(c) ==
  /\ pc[c] = "build" /\ ~Refused(Request(c))
  /\ Request(c).provider \in {"gemini", "ollama"} /\ Request(c).op = "embed_batch"
  /\ Texts(Request(c)) = 0
  /\ Return(c, "ok", <<>>)
  /\ UNCHANGED <<load, rejected, usage, level, text, sends, spent>>

-----------------------------------------------------------------------------
(* Gemini: Chat and ChatStream *)

ThinkingLevels ==
  [None |-> "minimal", Minimal |-> "minimal", Low |-> "low", Medium |-> "medium",
   High |-> "high", XHigh |-> "high", Max |-> "high"]

ThinkingLevel(effort) ==
  IF effort = "unset" \/ ThinkingLevels[effort] \in rejected THEN NoLevel
  ELSE ThinkingLevels[effort]

KnownEffort(effort) == effort \in {"unset"} \cup DOMAIN ThinkingLevels

\* The request is built, anew for the second send, with the levels rejected by now.
BuildChat(c) ==
  /\ pc[c] = "build" /\ IsChat(c) /\ ~Refused(Request(c))
  /\ IF KnownEffort(Request(c).effort)
     THEN /\ level' = [level EXCEPT ![c] = ThinkingLevel(Request(c).effort)]
          /\ pc' = [pc EXCEPT ![c] = "sent"] /\ UNCHANGED back
     ELSE Return(c, "refused", <<>>) /\ UNCHANGED level
  /\ UNCHANGED <<load, rejected, usage, text, sends, spent>>

\* A level that the model does not take is refused by name, unless the request
\* fails before that is looked at.  The client takes any 400 that mentions thinking
\* for this refusal (gemini/adapt.go:82-84); that there is no other such 400 is
\* assumed of the API.
ChatReplies(l) ==
  IF l = NoLevel \/ l \in load.accepts THEN {"ok", "failed"} ELSE {"thinking", "failed"}

Unlearned(l) == rejected   \* mutant: the rejection is not recorded

\* adaptToRejection: the level is left out from now on.
Learned(l) == rejected \cup {l}

Adapts(c, reply) == reply = "thinking" /\ level[c] # NoLevel /\ sends[c] = <<>>

ChatAnswered(c, reply, tokens) ==
  /\ pc[c] = "sent" /\ IsChat(c) /\ reply \in ChatReplies(level[c])
  /\ sends' = [sends EXCEPT ![c] = Append(@, [level |-> level[c], reply |-> reply])]
  /\ IF Adapts(c, reply)
     THEN rejected' = Learned(level[c]) /\ pc' = [pc EXCEPT ![c] = "build"] /\ UNCHANGED back
     ELSE /\ IF reply = "ok" THEN Return(c, "ok", <<>>) ELSE Fail(c)
          /\ UNCHANGED rejected
  /\ LET cost == IF reply = "ok" /\ Request(c).op = "chat" THEN tokens ELSE 0
     IN  \* a stream's usage is its producer's to add
         usage' = usage + cost /\ spent' = [spent EXCEPT ![c] = @ + cost]
  /\ UNCHANGED <<load, level, text>>

-----------------------------------------------------------------------------
(* Calls that are sent once *)

SendOnce(c) ==
  /\ pc[c] = "build" /\ ~Refused(Request(c)) /\ ~IsChat(c) /\ ~OfOllama(c)
  /\ ~(Request(c).provider = "gemini" /\ Request(c).op = "embed_batch" /\ Request(c).n = 0)
  /\ pc' = [pc EXCEPT ![c] = "sent"]
  /\ UNCHANGED <<load, rejected, usage, level, text, sends, spent, back>>

\* The call returns with the reply decoded; "counted" of its tokens are usage.
Received(c, tokens, counted) ==
  /\ spent' = [spent EXCEPT ![c] = @ + tokens]
  /\ usage' = usage + counted
  /\ UNCHANGED <<load, rejected, level, text, sends>>

SentOnce(c) == pc[c] = "sent" /\ ~IsChat(c) /\ ~OfOllama(c)

SendFailed(c) ==
  /\ SentOnce(c) /\ Fail(c)
  /\ UNCHANGED <<load, rejected, usage, level, text, sends, spent>>

\* The entries of an answer that names the text of each embedding by its index: in
\* any order, a text twice or not at all, an index that is no text's, an embedding
\* that is empty.
Entries(n) ==
  LET entry == [index : -1 .. n, empty : BOOLEAN]
  IN  UNION {[1 .. k -> entry] : k \in 0 .. n}

EntryVector(e) == IF e.empty THEN NoVector ELSE e.index + 1

\* mutant: the index of an entry is not looked at
PlacedInOrder(entries, n) ==
  [i \in 1 .. n |-> IF i \in DOMAIN entries THEN EntryVector(entries[i]) ELSE NoVector]

Placed(entries, n) ==
  [i \in 1 .. n |-> LET here == {k \in DOMAIN entries : entries[k].index = i - 1}
                    IN  IF here = {} THEN NoVector ELSE EntryVector(entries[Max(here)])]

\* OpenAI's Embed takes the first entry, and its EmbedBatch any index below the
\* number of texts: one below 0 ends the program.
EmbeddedByOpenAI(c, entries, tokens) ==
  /\ SentOnce(c) /\ Request(c).provider = "openai"
  /\ \/ /\ Request(c).op = "embed" /\ \A i \in DOMAIN entries : entries[i].index = 0
        /\ IF entries = <<>> THEN Fail(c) /\ Received(c, tokens, 0)
           ELSE Return(c, "ok", <<EntryVector(entries[1])>>) /\ Received(c, tokens, tokens)
     \/ /\ Request(c).op = "embed_batch"
        /\ IF \E i \in DOMAIN entries : entries[i].index < 0
           THEN Return(c, "panic", <<>>) /\ Received(c, tokens, 0)
           ELSE Return(c, "ok", Placed(entries, Request(c).n)) /\ Received(c, tokens, tokens)

\* Voyage's take nothing but an embedding for every text.
EmbeddedByVoyage(c, entries, tokens) ==
  LET n == Request(c).n  placed == Placed(entries, n)
  IN  /\ SentOnce(c) /\ Request(c).provider = "voyage"
      /\ Request(c).op \in {"embed", "embed_batch", "multimodal"}
      /\ IF /\ \A i \in DOMAIN entries : entries[i].index \in 0 .. n - 1
            /\ \A i \in 1 .. n : placed[i] # NoVector
         THEN Return(c, "ok", placed) /\ Received(c, tokens, tokens)
         ELSE Fail(c) /\ Received(c, tokens, 0)

\* Gemini's answer is in the order of the texts, and may end early or late.
Vectors(n) == UNION {{v \in [1 .. k -> 0 .. n + 1] : \A i \in 1 .. k : v[i] \in {NoVector, i}} : k \in 0 .. n + 1}

EmbeddedByGemini(c, vectors, tokens) ==
  /\ SentOnce(c) /\ Request(c).provider = "gemini" /\ Request(c).op \in {"embed", "embed_batch"}
  /\ Request(c).op = "embed" => Len(vectors) <= 1
  /\ IF Len(vectors) = Request(c).n /\ NoVector \notin ToSet(vectors)
     THEN Return(c, "ok", vectors) /\ Received(c, tokens, tokens)
     ELSE Fail(c) /\ Received(c, tokens, 0)

\* The ranks are passed on as they are.
Rerank(c, entries, tokens) ==
  /\ SentOnce(c) /\ Request(c).op = "rerank"
  /\ Return(c, "ok", [i \in DOMAIN entries |-> entries[i].index])
  /\ Received(c, tokens, tokens)

\* mutant: an unusable reply is not counted
UsableCounts(r, answers, tokens) == IF UsableReply(r, answers) THEN tokens ELSE 0

\* "Count billed tokens before converting, so they are recorded even when an answer
\* turns out to be unusable."
DecideCounts(r, answers, tokens) == tokens

Decide(c, answers, tokens) ==
  /\ SentOnce(c)
  /\ IF UsableReply(Request(c), answers)
     THEN Return(c, "ok", Convert(Request(c), answers))
     ELSE Fail(c)
  /\ Received(c, tokens, DecideCounts(Request(c), answers, tokens))

-----------------------------------------------------------------------------
(* Ollama: Embed and EmbedBatch, one text at a time *)

\* truncateAtWordBoundary: three, two and one quarter of the text, as far back as
\* the space before, if there is one.
Fractions == 3

CutSize(t, k) ==
  LET target == (t.size * (4 - k)) \div 4
      spaces == {i \in t.spaces : 0 < i /\ i <= target}
  IN  IF k = 0 THEN t.size ELSE IF spaces = {} THEN target ELSE Max(spaces)

\* The next cut that leaves anything of the text; 0 if there is none.
NextCut(t, k) ==
  LET left == {j \in k + 1 .. Fractions : CutSize(t, j) > 0}
  IN  IF left = {} THEN 0 ELSE Min(left)

CurrentText(c) == Request(c).texts[text[c].item]
SentSize(c)    == CutSize(CurrentText(c), text[c].cut)

SendText(c) ==
  /\ pc[c] = "build" /\ ~Refused(Request(c)) /\ OfOllama(c) /\ Request(c).texts # <<>>
  /\ pc' = [pc EXCEPT ![c] = "sent"]
  /\ UNCHANGED <<load, rejected, usage, level, text, sends, spent, back>>

TextReply(c, reply) ==
  /\ pc[c] = "sent" /\ OfOllama(c)
  /\ sends' = [sends EXCEPT ![c] =
       Append(@, [item |-> text[c].item, size |-> SentSize(c), reply |-> reply])]
  /\ UNCHANGED <<load, rejected, level>>

\* embedOnce succeeds, which counts whatever becomes of the other texts; the vector
\* may be empty.
TextEmbedded(c, empty, tokens) ==
  LET result == Append(back[c].result, IF empty THEN NoVector ELSE text[c].item)
      last   == text[c].item = Len(Request(c).texts)
  IN  /\ TextReply(c, "ok") /\ SentSize(c) <= load.fits
      /\ pc' = [pc EXCEPT ![c] = IF last THEN "ended" ELSE "build"]
      /\ back' = [back EXCEPT ![c] = [outcome |-> IF last THEN "ok" ELSE "none", result |-> result]]
      /\ text' = [text EXCEPT ![c] =
           IF last THEN @ ELSE [item |-> @.item + 1, cut |-> 0, error |-> "none"]]
      /\ usage' = usage + tokens /\ spent' = [spent EXCEPT ![c] = @ + tokens]

LastError(c, reply) == reply   \* mutant: the last error is reported

\* The errors of the truncated texts "are intentionally discarded".
KeptError(c, reply) == IF text[c].cut = 0 THEN reply ELSE text[c].error

\* A crash of the runner ("down", a 500) or a text too long; a retry that fails is
\* followed by the next whatever the failure.
Retries(c, reply) ==
  /\ NextCut(CurrentText(c), text[c].cut) # 0
  /\ text[c].cut = 0 => Request(c).truncates /\ reply \in {"down", "overflow"}

TextFailed(c, reply) ==
  /\ TextReply(c, reply) /\ (reply = "overflow" => SentSize(c) > load.fits)
  /\ IF Retries(c, reply)
     THEN /\ text' = [text EXCEPT ![c] =
               [@ EXCEPT !.cut = NextCut(CurrentText(c), text[c].cut), !.error = KeptError(c, reply)]]
          /\ pc' = [pc EXCEPT ![c] = "build"] /\ UNCHANGED back
     ELSE /\ text' = [text EXCEPT ![c].error = KeptError(c, reply)]
          /\ Fail(c)
  /\ UNCHANGED <<usage, spent>>

-----------------------------------------------------------------------------
Ended == (\A c \in Callers : pc[c] = "ended") /\ UNCHANGED vars

ChatStep(c) ==
  \/ BuildChat(c)
  \/ \E reply \in {"ok", "thinking", "failed"}, tokens \in Tokens : ChatAnswered(c, reply, tokens)

EmbedStep(c) ==
  /\ SentOnce(c) /\ Request(c).op \in {"embed", "embed_batch", "multimodal", "rerank"}
  /\ \E tokens \in Tokens :
       \/ \E entries \in Entries(Request(c).n) :
            \/ EmbeddedByOpenAI(c, entries, tokens)
            \/ EmbeddedByVoyage(c, entries, tokens)
            \/ Rerank(c, entries, tokens)
       \/ \E vectors \in Vectors(Request(c).n) : EmbeddedByGemini(c, vectors, tokens)

DecideStep(c) ==
  /\ SentOnce(c) /\ Request(c).op = "decide"
  /\ \E answers \in DecisionReplies(Request(c)), tokens \in Tokens : Decide(c, answers, tokens)

TextStep(c) ==
  \/ SendText(c)
  \/ \E empty \in BOOLEAN, tokens \in Tokens : TextEmbedded(c, empty, tokens)
  \/ \E reply \in {"down", "overflow", "failed"} : TextFailed(c, reply)

Next ==
  \/ \E c \in Callers :
       \/ Refuse(c) \/ EmptyBatch(c) \/ SendOnce(c) \/ SendFailed(c)
       \/ ChatStep(c) \/ EmbedStep(c) \/ DecideStep(c) \/ TextStep(c)
  \/ Ended

Spec == Init /\ [][Next]_vars

-----------------------------------------------------------------------------
(* Properties *)

Embeds(c)  == Request(c).op \in {"embed", "embed_batch", "multimodal"}
Answered(c) == back[c].outcome = "ok"

\* A call that returns embeddings returns one for every text and never that of
\* another, though a service may name them out of order, twice or not at all; of
\* OpenAI and Ollama alone may one be nil without an error.
VectorsMatch ==
  \A c \in Callers : Embeds(c) /\ Answered(c) =>
    /\ Len(back[c].result) = Texts(Request(c))
    /\ \A i \in DOMAIN back[c].result :
         \/ back[c].result[i] = i
         \/ back[c].result[i] = NoVector /\ Request(c).provider \in {"openai", "ollama"}

\* A decision that is returned answers each question in its own place; what it
\* chose is an option of that question, every option has the probability the
\* service gave for it, and no number is missing.  "A label the service re-cases or
\* rewords cannot misplace a probability" (openai/decide.go:232-234); a null for
\* its index can, as the first level's, and that level alone.
AnswersMatch ==
  \A c \in Callers : Request(c).op = "decide" /\ Answered(c) =>
    LET qs == Request(c).questions  answers == back[c].result
    IN  /\ DOMAIN answers = DOMAIN qs
        /\ \A i \in DOMAIN qs :
             /\ answers[i].name = qs[i].name /\ answers[i].kind = qs[i].kind
             /\ answers[i].refused => Request(c).provider = "openai"
             /\ ~answers[i].refused =>
                  /\ qs[i].kind = "choice" => answers[i].choice \in ToSet(qs[i].options)
                  /\ qs[i].kind # "choice" => answers[i].value = Truth(qs[i], 0)
                  /\ Len(answers[i].probabilities) = Len(qs[i].options)
                  /\ \A j \in DOMAIN qs[i].options :
                       LET p == answers[i].probabilities[j]
                       IN  /\ p.value = qs[i].options[j]
                           /\ \/ p.probability = Truth(qs[i], qs[i].options[j])
                              \/ /\ Request(c).provider = "openai" /\ qs[i].kind = "score" /\ j = 1
                                 /\ p.probability = Keyless

\* The client's usage is what its calls cost that returned a result, and, of
\* decisions and of Ollama's batches, also what those cost that then failed.
UsageCounted ==
  LET owed == [c \in Callers |->
                 IF Answered(c) \/ Request(c).op = "decide" \/ OfOllama(c) THEN spent[c] ELSE 0]
  IN  usage = SumFunctionOnSet(owed, Callers)

\* The levels found rejected are ones the model does not take, whoever found them
\* and whatever else was under way; a chat is sent twice at most, never fails for
\* its level, and goes without one only when it has none or that one is rejected.
LevelsAdapt ==
  /\ rejected \cap load.accepts = {}
  /\ \A c \in Callers : IsChat(c) =>
       /\ Len(sends[c]) <= 2
       /\ pc[c] = "ended" /\ sends[c] # <<>> => Last(sends[c]).reply # "thinking"
       /\ \A i \in DOMAIN sends[c] :
            sends[c][i].level = NoLevel /\ Request(c).effort # "unset"
              => ThinkingLevels[Request(c).effort] \in rejected

\* Of the sends of one text, the first is the whole text, and every later one a
\* shorter piece of it, none longer than the one before, sent only as the client
\* allows it and as the whole text crashed the runner or was too long.  The call
\* fails with the error of the whole text, and only when no piece was left to try.
TruncationHonest ==
  \A c \in Callers : OfOllama(c) /\ ~Refused(Request(c)) =>
    LET h == sends[c]
        first(k) == \A j \in 1 .. k - 1 : h[j].item # h[k].item
        whole(k) == CHOOSE j \in 1 .. k : h[j].item = h[k].item /\ first(j)
    IN  /\ \A k \in DOMAIN h :
             LET size == Request(c).texts[h[k].item].size
             IN  IF first(k) THEN h[k].size = size
                 ELSE /\ h[k-1].item = h[k].item /\ h[k-1].reply # "ok"
                      /\ h[k].size \in 1 .. size - 1 /\ h[k].size <= h[k-1].size
                      /\ Request(c).truncates /\ h[whole(k)].reply \in {"down", "overflow"}
                      /\ k - whole(k) <= Fractions
        /\ back[c].outcome = "error" =>
             LET last == Len(h)  start == whole(last)
             IN  /\ text[c].error = h[start].reply
                 /\ \A k \in 1 .. start - 1 : (h[k+1].item # h[k].item) => (h[k].reply = "ok")
                 /\ Request(c).truncates /\ h[start].reply # "failed" =>
                      \A k \in 0 .. Fractions :
                        LET size == CutSize(Request(c).texts[h[last].item], k)
                        IN  size > 0 => h[last].size <= size
=============================================================================
