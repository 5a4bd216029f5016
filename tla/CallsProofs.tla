----------------------------- MODULE CallsProofs -----------------------------
(***************************************************************************)
(* Theorems about Calls, for every finite set of callers, every request    *)
(* they may make and every reply of the service.  LevelsAdapt rests on     *)
(* LInv, which is about the chats.  The properties of the other calls rest *)
(* on CInv: a call's result, cost and place are its own (CallInv), only    *)
(* its own steps change them (StepOf), and each step adds to the usage     *)
(* what it adds to what the call owes (Counts).  For Ollama's retries,     *)
(* TInv says what was sent of the texts before and of the one on its way.  *)
(***************************************************************************)
EXTENDS Calls, SequenceTheorems, FiniteSetTheorems, TLAPS

\* Sums over the callers.
Plus(a, b)  == a + b
AnyOf(S)    == CHOOSE x \in S : TRUE
Sums == INSTANCE FoldLemmas WITH Op <- Plus, Base <- 0, Choice <- AnyOf

Wanted(c) == ThinkingLevels[Request(c).effort]

WantsLevel(c) == KnownEffort(Request(c).effort) /\ Request(c).effort # "unset"

\* A chat that is not over was not sent before, or was, and its level is rejected.
SentBefore(c) ==
  \/ sends[c] = <<>>
  \/ /\ sends[c] = <<[level |-> Wanted(c), reply |-> "thinking"]>>
     /\ WantsLevel(c) /\ Wanted(c) \in rejected

\* What a chat on its way carries.
Carries(c) ==
  \/ level[c] = NoLevel /\ (WantsLevel(c) => Wanted(c) \in rejected)
  \/ level[c] = Wanted(c) /\ WantsLevel(c) /\ sends[c] = <<>>

\* LevelsAdapt, of one chat.
Adapted(c) ==
  /\ Len(sends[c]) <= 2
  /\ pc[c] = "ended" /\ sends[c] # <<>> => Last(sends[c]).reply # "thinking"
  /\ \A i \in DOMAIN sends[c] :
       sends[c][i].level = NoLevel /\ Request(c).effort # "unset"
         => ThinkingLevels[Request(c).effort] \in rejected

ChatInv(c) ==
  /\ pc[c] \in {"build", "sent"} => SentBefore(c)
  /\ pc[c] = "build" /\ sends[c] # <<>> => ~Refused(Request(c))
  /\ pc[c] = "sent" => ~Refused(Request(c)) /\ KnownEffort(Request(c).effort) /\ Carries(c)
  /\ pc[c] = "ended" => Adapted(c)

FunctionsOfCallers ==
  /\ pc \in [Callers -> {"build", "sent", "ended"}]
  /\ DOMAIN level = Callers /\ DOMAIN sends = Callers

LInv ==
  /\ FunctionsOfCallers
  /\ rejected \cap load.accepts = {}
  /\ \A c \in Callers : IsChat(c) => ChatInv(c)

\* A level is a level.
LEMMA WantedIsLevel ==
  ASSUME NEW c, WantsLevel(c)
  PROVE  Wanted(c) # NoLevel
BY DEF WantsLevel, Wanted, KnownEffort, ThinkingLevels, NoLevel

\* A chat that was sent once or not at all is adapted until it ends.
LEMMA SentBeforeAdapted ==
  ASSUME NEW c, SentBefore(c), pc[c] # "ended"
  PROVE  Adapted(c)
<1>1. CASE sends[c] = <<>>
  BY <1>1 DEF Adapted
<1>2. CASE sends[c] # <<>>
  <2>1. sends[c] = <<[level |-> Wanted(c), reply |-> "thinking"]>> /\ Wanted(c) \in rejected
    BY <1>2 DEF SentBefore
  <2>2. Len(sends[c]) = 1 /\ DOMAIN sends[c] = {1} /\ sends[c][1].level = Wanted(c)
    BY <2>1
  <2>3. QED
    BY <2>1, <2>2 DEF Adapted, Wanted
<1>3. QED
  BY <1>1, <1>2

\* The invariant implies the property.
LEMMA LInvAdapts == LInv => LevelsAdapt
<1>1. SUFFICES ASSUME LInv, NEW c \in Callers, IsChat(c) PROVE Adapted(c)
  BY DEF LInv, LevelsAdapt, Adapted
<1>2. pc[c] \in {"build", "sent", "ended"} /\ ChatInv(c)
  BY <1>1 DEF LInv, FunctionsOfCallers
<1>3. QED
  BY <1>2, SentBeforeAdapted DEF ChatInv

LEMMA InitLInv == Init => LInv
<1>1. SUFFICES ASSUME Init PROVE LInv
  OBVIOUS
<1>2. FunctionsOfCallers /\ rejected = {} /\ \A c \in Callers : pc[c] = "build" /\ sends[c] = <<>>
  BY <1>1 DEF Init, FunctionsOfCallers
<1>3. QED
  BY <1>2 DEF LInv, ChatInv, SentBefore

-----------------------------------------------------------------------------
(* Steps of calls other than chats *)

\* Nothing of the chats changes, unless one is refused.
ChatsKept ==
  /\ UNCHANGED <<load, rejected, level>>
  /\ FunctionsOfCallers'
  /\ \A c \in Callers : IsChat(c) =>
       /\ sends'[c] = sends[c]
       /\ \/ pc'[c] = pc[c]
          \/ pc[c] = "build" /\ pc'[c] = "ended" /\ sends[c] = <<>>

\* The steps that are not a chat's.
OtherStep(d) ==
  \/ Refuse(d) \/ EmptyBatch(d) \/ SendOnce(d) \/ SendFailed(d)
  \/ EmbedStep(d) \/ DecideStep(d) \/ TextStep(d)

LEMMA NoChatOfOllama ==
  ASSUME NEW c, OfOllama(c), ~Refused(Request(c))
  PROVE  ~IsChat(c)
BY DEF OfOllama, IsChat, Refused, Offered

\* A step that moves d alone and sends nothing.
LEMMA MovesKept ==
  ASSUME LInv, NEW d \in Callers, NEW p \in {"build", "sent", "ended"},
         pc' = [pc EXCEPT ![d] = p], UNCHANGED <<load, rejected, level, sends>>,
         IsChat(d) => pc[d] = "build" /\ p = "ended" /\ sends[d] = <<>>
  PROVE  ChatsKept
<1>1. FunctionsOfCallers'
  BY DEF LInv, FunctionsOfCallers, Callers
<1>2. \A c \in Callers : c # d => pc'[c] = pc[c]
  BY DEF LInv, FunctionsOfCallers
<1>3. pc'[d] = p
  BY DEF LInv, FunctionsOfCallers
<1>4. QED
  BY <1>1, <1>2, <1>3 DEF ChatsKept

LEMMA RefuseKept ==
  ASSUME LInv, NEW d \in Callers, Refuse(d) PROVE ChatsKept
<1>1. pc[d] = "build" /\ pc' = [pc EXCEPT ![d] = "ended"]
  BY DEF Refuse, Return
<1>2. IsChat(d) => sends[d] = <<>>
  BY <1>1 DEF LInv, ChatInv, Refuse
<1>3. UNCHANGED <<load, rejected, level, sends>>
  BY DEF Refuse
<1>4. QED
  BY <1>1, <1>2, <1>3, MovesKept

\* A reply to one of Ollama's texts is sent down in the sends of that call alone.
LEMMA TextsKept ==
  ASSUME LInv, NEW d \in Callers, NEW reply, TextReply(d, reply),
         NEW p \in {"build", "sent", "ended"}, pc' = [pc EXCEPT ![d] = p],
         level' = level
  PROVE  ChatsKept
<1>1. pc[d] = "sent" /\ OfOllama(d) /\ UNCHANGED <<load, rejected>>
  BY DEF TextReply
<1>2. ~IsChat(d)
  BY <1>1, NoChatOfOllama DEF LInv, ChatInv
<1>3. DOMAIN sends' = Callers /\ \A c \in Callers : c # d => sends'[c] = sends[c]
  BY DEF TextReply, LInv, FunctionsOfCallers
<1>4. FunctionsOfCallers' /\ \A c \in Callers : c # d => pc'[c] = pc[c]
  BY <1>1, <1>3 DEF LInv, FunctionsOfCallers, Callers
<1>5. QED
  BY <1>1, <1>2, <1>3, <1>4 DEF ChatsKept

LEMMA OtherStepKept ==
  ASSUME LInv, NEW d \in Callers, OtherStep(d)
  PROVE  ChatsKept
<1>1. CASE Refuse(d)
  BY <1>1, RefuseKept
<1>2. CASE EmptyBatch(d)
  BY <1>2, MovesKept DEF EmptyBatch, Return, IsChat
<1>3. CASE SendOnce(d)
  BY <1>3, MovesKept DEF SendOnce
<1>4. CASE SendText(d)
  BY <1>4, MovesKept, NoChatOfOllama DEF SendText
<1>5. CASE SendFailed(d)
  BY <1>5, MovesKept DEF SendFailed, SentOnce, Fail, Return
<1>6. ASSUME NEW reply, TextFailed(d, reply) PROVE ChatsKept
  <2>1. TextReply(d, reply) /\ level' = level
    BY <1>6 DEF TextFailed, TextReply
  <2>2. pc' = [pc EXCEPT ![d] = "build"] \/ pc' = [pc EXCEPT ![d] = "ended"]
    BY <1>6 DEF TextFailed, Fail, Return
  <2>3. QED
    BY <2>1, <2>2, TextsKept
<1>7. ASSUME NEW empty, NEW tokens, TextEmbedded(d, empty, tokens) PROVE ChatsKept
  <2>1. TextReply(d, "ok") /\ level' = level
    BY <1>7 DEF TextEmbedded, TextReply
  <2>2. pc' = [pc EXCEPT ![d] = "build"] \/ pc' = [pc EXCEPT ![d] = "ended"]
    BY <1>7 DEF TextEmbedded
  <2>3. QED
    BY <2>1, <2>2, TextsKept
<1>8. ASSUME NEW entries, NEW tokens,
             EmbeddedByOpenAI(d, entries, tokens) \/ EmbeddedByVoyage(d, entries, tokens)
               \/ EmbeddedByGemini(d, entries, tokens) \/ Rerank(d, entries, tokens)
               \/ Decide(d, entries, tokens)
      PROVE ChatsKept
  <2>1. ~IsChat(d) /\ pc' = [pc EXCEPT ![d] = "ended"] /\ UNCHANGED <<load, rejected, level, sends>>
    BY <1>8 DEF EmbeddedByOpenAI, EmbeddedByVoyage, EmbeddedByGemini, Rerank, Decide,
                SentOnce, Fail, Return, Received
  <2>2. QED
    BY <2>1, MovesKept
<1>9. QED
  BY <1>1, <1>2, <1>3, <1>4, <1>5, <1>6, <1>7, <1>8 DEF OtherStep, EmbedStep, DecideStep, TextStep

\* What keeps the chats keeps the invariant.
LEMMA KeptKeepsLInv ==
  ASSUME LInv, ChatsKept
  PROVE  LInv'
<1>1. Callers' = Callers /\ \A c : Request(c)' = Request(c)
  BY DEF ChatsKept, Callers, Request
<1>2. ASSUME NEW c \in Callers, IsChat(c) PROVE ChatInv(c)'
  <2>1. ChatInv(c) /\ UNCHANGED <<rejected, level>> /\ sends'[c] = sends[c] /\ Request(c)' = Request(c)
    BY <1>1, <1>2 DEF LInv, ChatsKept
  <2>2. CASE pc'[c] = pc[c]
    BY <2>1, <2>2 DEF ChatInv, SentBefore, Carries, Wanted, WantsLevel, Adapted
  <2>3. CASE pc[c] = "build" /\ pc'[c] = "ended" /\ sends[c] = <<>>
    BY <2>1, <2>3 DEF ChatInv, Adapted
  <2>4. QED
    BY <1>2, <2>2, <2>3 DEF ChatsKept
<1>3. (rejected \cap load.accepts = {})'
  BY DEF LInv, ChatsKept
<1>4. \A c \in Callers : IsChat(c)' = IsChat(c)
  BY <1>1 DEF IsChat
<1>5. QED
  BY <1>1, <1>2, <1>3, <1>4 DEF LInv, ChatsKept

-----------------------------------------------------------------------------
(* Steps of chats *)

\* The chats that do not move stay as they were when more is rejected.
LEMMA RestKept ==
  ASSUME LInv, NEW c \in Callers, IsChat(c),
         pc'[c] = pc[c], level'[c] = level[c], sends'[c] = sends[c],
         load' = load, rejected \subseteq rejected'
  PROVE  ChatInv(c)'
<1>1. ChatInv(c) /\ Request(c)' = Request(c)
  BY DEF LInv, Request
<1>2. SentBefore(c) => SentBefore(c)'
  BY <1>1 DEF SentBefore, Wanted, WantsLevel
<1>3. Carries(c) => Carries(c)'
  BY <1>1 DEF Carries, Wanted, WantsLevel
<1>4. Adapted(c) => Adapted(c)'
  BY <1>1 DEF Adapted
<1>5. QED
  BY <1>1, <1>2, <1>3, <1>4 DEF ChatInv

LEMMA BuildKeepsLInv ==
  ASSUME LInv, NEW d \in Callers, BuildChat(d)
  PROVE  LInv'
<1>1. UNCHANGED <<load, rejected, sends>> /\ pc[d] = "build" /\ IsChat(d) /\ ~Refused(Request(d))
  BY DEF BuildChat
<1>2. Callers' = Callers /\ (\A c : Request(c)' = Request(c)) /\ \A c : IsChat(c)' = IsChat(c)
  BY <1>1 DEF Callers, Request, IsChat
<1>3. /\ FunctionsOfCallers'
      /\ \A c \in Callers \ {d} : pc'[c] = pc[c] /\ level'[c] = level[c]
  BY <1>1, <1>2 DEF BuildChat, Return, LInv, FunctionsOfCallers
<1>4. ChatInv(d) /\ SentBefore(d) /\ SentBefore(d)'
  BY <1>1, <1>2 DEF LInv, ChatInv, SentBefore, Wanted, WantsLevel
<1>5. ChatInv(d)'
  <2>1. CASE KnownEffort(Request(d).effort)
    <3>1. pc'[d] = "sent" /\ level'[d] = ThinkingLevel(Request(d).effort)
      BY <2>1 DEF BuildChat, LInv, FunctionsOfCallers
    <3>2. Carries(d)'
      BY <1>1, <1>2, <1>4, <2>1, <3>1
      DEF Carries, ThinkingLevel, Wanted, WantsLevel, SentBefore
    <3>3. QED
      BY <1>1, <1>2, <1>4, <2>1, <3>1, <3>2 DEF ChatInv
  <2>2. CASE ~KnownEffort(Request(d).effort)
    <3>1. pc'[d] = "ended"
      BY <2>2 DEF BuildChat, Return, LInv, FunctionsOfCallers
    <3>2. sends'[d] = <<>>
      BY <1>1, <1>4, <2>2 DEF SentBefore, WantsLevel
    <3>3. QED
      BY <3>1, <3>2 DEF ChatInv, Adapted
  <2>3. QED
    BY <2>1, <2>2
<1>6. \A c \in Callers : IsChat(c) => ChatInv(c)'
  BY <1>1, <1>3, <1>5, RestKept
<1>7. QED
  BY <1>1, <1>2, <1>3, <1>6 DEF LInv

LEMMA AppendToOne ==
  ASSUME NEW x, NEW y
  PROVE  Append(<<x>>, y) = <<x, y>>
<1>1. <<x>> \in Seq({x, y}) /\ Len(<<x>>) = 1 /\ <<x>>[1] = x
  OBVIOUS
<1>2. <<x, y>> \in Seq({x, y}) /\ Len(<<x, y>>) = 2 /\ <<x, y>>[1] = x /\ <<x, y>>[2] = y
  OBVIOUS
<1> DEFINE t == Append(<<x>>, y)
<1>3. t \in Seq({x, y}) /\ Len(t) = 2 /\ t[1] = x /\ t[2] = y
  BY <1>1, AppendProperties
<1>4. Len(t) = Len(<<x, y>>) /\ \A i \in 1 .. Len(t) : t[i] = <<x, y>>[i]
  <2>1. \A i \in 1 .. Len(t) : i = 1 \/ i = 2
    BY <1>3
  <2>2. QED
    BY <1>2, <1>3, <2>1
<1> HIDE DEF t
<1>5. t = <<x, y>>
  BY <1>2, <1>3, <1>4, SeqEqual
<1>6. QED
  BY <1>5 DEF t

\* A level is rejected only when the model does not take it.
LEMMA AnswerKeepsLInv ==
  ASSUME LInv, NEW d \in Callers, NEW reply, NEW tokens, ChatAnswered(d, reply, tokens)
  PROVE  LInv'
<1> DEFINE said == [level |-> level[d], reply |-> reply]
<1>1. /\ UNCHANGED <<load, level>> /\ pc[d] = "sent" /\ IsChat(d)
      /\ reply \in ChatReplies(level[d])
      /\ sends' = [sends EXCEPT ![d] = Append(@, said)]
  BY DEF ChatAnswered
<1>2. Callers' = Callers /\ (\A c : Request(c)' = Request(c)) /\ \A c : IsChat(c)' = IsChat(c)
  BY <1>1 DEF Callers, Request, IsChat
<1>3. /\ ChatInv(d) /\ SentBefore(d) /\ Carries(d)
      /\ ~Refused(Request(d)) /\ KnownEffort(Request(d).effort)
  BY <1>1 DEF LInv, ChatInv
<1>4. sends'[d] = Append(sends[d], said) /\ \A c \in Callers \ {d} : sends'[c] = sends[c]
  BY <1>1 DEF LInv, FunctionsOfCallers
<1>5. \/ Adapts(d, reply) /\ rejected' = rejected \cup {level[d]} /\ pc' = [pc EXCEPT ![d] = "build"]
      \/ ~Adapts(d, reply) /\ rejected' = rejected /\ pc' = [pc EXCEPT ![d] = "ended"]
  BY DEF ChatAnswered, Learned, Fail, Return
<1>6. FunctionsOfCallers' /\ (\A c \in Callers \ {d} : pc'[c] = pc[c]) /\ rejected \subseteq rejected'
  BY <1>1, <1>2, <1>5 DEF LInv, FunctionsOfCallers
<1>7. CASE Adapts(d, reply)
  <2>1. /\ level[d] = Wanted(d) /\ WantsLevel(d) /\ sends[d] = <<>> /\ reply = "thinking"
        /\ rejected' = rejected \cup {level[d]} /\ pc'[d] = "build"
    BY <1>3, <1>5, <1>7 DEF Adapts, Carries, LInv, FunctionsOfCallers
  <2>2. level[d] \notin load.accepts
    BY <1>1, <2>1 DEF ChatReplies
  <2>3. sends'[d] = <<said>>
    BY <1>4, <2>1
  <2>4. SentBefore(d)'
    BY <1>2, <2>1, <2>3 DEF SentBefore, Wanted, WantsLevel
  <2>5. ChatInv(d)'
    BY <1>2, <1>3, <2>1, <2>4 DEF ChatInv
  <2>6. (rejected \cap load.accepts = {})'
    BY <1>1, <2>1, <2>2 DEF LInv
  <2>7. QED
    BY <1>1, <1>2, <1>4, <1>6, <2>5, <2>6, RestKept DEF LInv
<1>8. CASE ~Adapts(d, reply)
  <2>1. rejected' = rejected /\ pc'[d] = "ended"
    BY <1>5, <1>8 DEF LInv, FunctionsOfCallers
  <2>2. reply # "thinking"
    <3>1. CASE level[d] = NoLevel
      BY <1>1, <3>1 DEF ChatReplies
    <3>2. CASE level[d] # NoLevel
      BY <1>3, <1>8, <3>2 DEF Adapts, Carries
    <3>3. QED
      BY <3>1, <3>2
  <2>3. level[d] = NoLevel /\ Request(d).effort # "unset" => Wanted(d) \in rejected
    BY <1>3, WantedIsLevel DEF Carries, WantsLevel
  <2>4. Adapted(d)'
    <3>1. CASE sends[d] = <<>>
      <4>1. sends'[d] = <<said>>
        BY <1>4, <3>1
      <4>2. Len(sends'[d]) = 1 /\ DOMAIN (sends'[d]) = {1} /\ sends'[d][1] = said
        BY <4>1
      <4>3. QED
        BY <1>2, <2>1, <2>2, <2>3, <4>2 DEF Adapted, Last, Wanted
    <3>2. CASE sends[d] # <<>>
      <4>1. sends[d] = <<[level |-> Wanted(d), reply |-> "thinking"]>> /\ Wanted(d) \in rejected
        BY <1>3, <3>2 DEF SentBefore
      <4>2. sends'[d] = <<[level |-> Wanted(d), reply |-> "thinking"], said>>
        BY <1>4, <4>1, AppendToOne, Zenon
      <4>3. Len(sends'[d]) = 2 /\ DOMAIN (sends'[d]) = {1, 2} /\ sends'[d][2] = said
        BY <4>2
      <4>4. QED
        BY <1>2, <2>1, <2>2, <4>1, <4>3 DEF Adapted, Last, Wanted
    <3>3. QED
      BY <3>1, <3>2
  <2>5. ChatInv(d)'
    BY <2>1, <2>4 DEF ChatInv
  <2>6. QED
    BY <1>1, <1>2, <1>4, <1>6, <2>1, <2>5, RestKept DEF LInv
<1>9. QED
  BY <1>7, <1>8

-----------------------------------------------------------------------------
\* Every step is a chat's, another call's or none.
LEMMA NextLInv == LInv /\ [Next]_vars => LInv'
<1>1. SUFFICES ASSUME LInv, [Next]_vars PROVE LInv'
  OBVIOUS
<1>2. CASE UNCHANGED vars
  BY <1>1, <1>2, KeptKeepsLInv
  DEF vars, LInv, FunctionsOfCallers, Callers, ChatsKept
<1>3. ASSUME NEW d \in Callers, BuildChat(d) PROVE LInv'
  BY <1>1, <1>3, BuildKeepsLInv
<1>4. ASSUME NEW d \in Callers, NEW reply, NEW tokens, ChatAnswered(d, reply, tokens) PROVE LInv'
  BY <1>1, <1>4, AnswerKeepsLInv
<1>5. ASSUME NEW d \in Callers, OtherStep(d) PROVE LInv'
  BY <1>1, <1>5, OtherStepKept, KeptKeepsLInv
<1>6. CASE Next
  <2>1. CASE Ended
    BY <1>2, <2>1 DEF Ended
  <2>2. ASSUME NEW d \in Callers, ChatStep(d) PROVE LInv'
    BY <1>3, <1>4, <2>2 DEF ChatStep
  <2>3. QED
    BY <1>5, <1>6, <2>1, <2>2 DEF Next, OtherStep
<1>7. QED
  BY <1>1, <1>2, <1>6

\* The levels a client leaves out are ones its model does not take, a chat is sent
\* twice at most and never fails for its level, for any number of chats at once.
THEOREM LevelsAlwaysAdapt == Spec => []LevelsAdapt
BY InitLInv, NextLInv, LInvAdapts, PTL DEF Spec

-----------------------------------------------------------------------------
(* Calls, and what they return *)

\* The embeddings are those of the texts, in their order.
MatchesTexts(r, result) ==
  /\ Len(result) = Texts(r)
  /\ \A i \in DOMAIN result :
       result[i] = i \/ (result[i] = NoVector /\ r.provider \in {"openai", "ollama"})

\* The probability is that of the option, or, of the first level of a score to OpenAI,
\* what stood under no key.
Right(r, q, j, p) ==
  p = Truth(q, q.options[j]) \/ (r.provider = "openai" /\ q.kind = "score" /\ j = 1 /\ p = Keyless)

\* The answer is to the question, and whole.
MatchesQuestion(r, q, answer) ==
  /\ answer.name = q.name /\ answer.kind = q.kind
  /\ answer.refused => r.provider = "openai"
  /\ ~answer.refused =>
       /\ q.kind = "choice" => answer.choice \in ToSet(q.options)
       /\ q.kind # "choice" => answer.value = Truth(q, 0)
       /\ Len(answer.probabilities) = Len(q.options)
       /\ \A j \in DOMAIN q.options :
            /\ answer.probabilities[j].value = q.options[j]
            /\ Right(r, q, j, answer.probabilities[j].probability)

\* The answers are those to the questions, in their order.
MatchesQuestions(r, answers) ==
  /\ DOMAIN answers = DOMAIN r.questions
  /\ \A i \in DOMAIN r.questions : MatchesQuestion(r, r.questions[i], answers[i])

\* A call to Ollama has, while it is on its way, the embeddings of the texts before.
Embedded(c) ==
  /\ text[c].item \in 1 .. Len(Request(c).texts)
  /\ back[c].result \in Seq(Nat) /\ Len(back[c].result) = text[c].item - 1
  /\ \A i \in 1 .. text[c].item - 1 : back[c].result[i] \in {NoVector, i}

CallInv(c) ==
  /\ spent[c] \in Nat
  /\ pc[c] # "ended" => back[c].outcome = "none"
  /\ pc[c] = "sent" => ~Refused(Request(c))
  /\ pc[c] # "ended" /\ ~OfOllama(c) => spent[c] = 0
  /\ pc[c] # "ended" /\ OfOllama(c) /\ Embeds(c) /\ Request(c).texts # <<>> => Embedded(c)
  /\ pc[c] = "sent" /\ OfOllama(c) => Embeds(c) /\ Request(c).texts # <<>>
  /\ Answered(c) /\ Embeds(c) => MatchesTexts(Request(c), back[c].result)
  /\ Answered(c) /\ Request(c).op = "decide" => MatchesQuestions(Request(c), back[c].result)

Owed(c) == IF Answered(c) \/ Request(c).op = "decide" \/ OfOllama(c) THEN spent[c] ELSE 0

Errors == {"none", "down", "overflow", "failed"}

OfCallers ==
  /\ load \in Loads
  /\ pc \in [Callers -> {"build", "sent", "ended"}]
  /\ text \in [Callers -> [item : Nat, cut : 0 .. Fractions, error : Errors]]
  /\ DOMAIN back = Callers /\ DOMAIN sends = Callers
  /\ DOMAIN spent = Callers

CInv ==
  /\ OfCallers
  /\ \A c \in Callers : CallInv(c)
  /\ UsageCounted

\* A step is one call's.
StepOf(d) ==
  /\ load' = load /\ OfCallers'
  /\ \A c \in Callers \ {d} :
       /\ pc'[c] = pc[c] /\ text'[c] = text[c] /\ sends'[c] = sends[c]
       /\ spent'[c] = spent[c] /\ back'[c] = back[c]

\* The usage grows by what the call owes more than before.
Counts(d) == usage' = usage + (Owed(d)' - Owed(d))

LEMMA SumOverCallers ==
  ASSUME NEW f, NEW S
  PROVE  SumFunctionOnSet(f, S) = Sums!Fold(f, S)
BY DEF SumFunctionOnSet, FoldFunctionOnSet, Sums!Fold, Sums!FoldFrom, Plus, AnyOf, MapThenFoldSet,
       Sums!MapThenFoldSet

\* Nothing is asked of the sets but that they be finite.
LEMMA SumsChoose ==
  ASSUME NEW S, IsFiniteSet(S) PROVE Sums!Chooses(S) /\ Sums!Counted(S)
<1> DEFINE size == [T \in SUBSET S |-> Cardinality(T)]
<1>1. ASSUME NEW T \in SUBSET S
      PROVE  size[T] \in Nat /\ \A U \in SUBSET T : U # T => size[U] < size[T]
  <2>1. IsFiniteSet(T) /\ size[T] = Cardinality(T) /\ Cardinality(T) \in Nat
    BY FS_Subset, FS_CardinalityType
  <2>2. ASSUME NEW U \in SUBSET T, U # T PROVE size[U] < size[T]
    <3>1. size[U] = Cardinality(U) /\ Cardinality(U) \in Nat
      BY <2>1, FS_Subset, FS_CardinalityType
    <3>2. Cardinality(U) <= Cardinality(T) /\ Cardinality(U) # Cardinality(T)
      BY <2>1, <2>2, FS_Subset
    <3>3. QED
      BY <2>1, <3>1, <3>2
  <2>3. QED
    BY <2>1, <2>2
<1> HIDE DEF size
<1>2. Sums!Counted(S)
  BY <1>1 DEF Sums!Counted, Sums!Counts
<1>3. QED
  BY <1>2 DEF Sums!Chooses, AnyOf

LEMMA SumIsInt ==
  ASSUME NEW S, IsFiniteSet(S), NEW f, \A c \in S : f[c] \in Int
  PROVE  Sums!Fold(f, S) \in Int
<1> DEFINE T == Int
<1>1. \A a, b \in T : Plus(a, b) \in T
  BY DEF Plus
<1>2. 0 \in T
  OBVIOUS
<1>3. Sums!Chooses(S) /\ Sums!Counted(S)
  BY SumsChoose
<1>4. \A c \in S : f[c] \in T
  OBVIOUS
<1> HIDE DEF T
<1>5. Sums!Fold(f, S) \in T
  BY <1>1, <1>2, <1>3, <1>4, Sums!FoldType, Z3
<1>6. QED
  BY <1>5 DEF T

\* A term may be the last that is added.
LEMMA SumsStep ==
  ASSUME NEW S, IsFiniteSet(S), NEW f, \A c \in S : f[c] \in Int, NEW d \in S
  PROVE  /\ Sums!Fold(f, S) = f[d] + Sums!Fold(f, S \ {d})
         /\ Sums!Fold(f, S \ {d}) \in Int
<1> DEFINE T == Int
           U == S \ {d}
<1>1. \A a, b \in T : Plus(a, b) \in T
  BY DEF Plus
<1>2. \A a, b \in T : Plus(a, b) = Plus(b, a)
  BY DEF Plus
<1>3. \A a, b, c \in T : Plus(a, Plus(b, c)) = Plus(Plus(a, b), c)
  BY DEF Plus
<1>4. 0 \in T
  OBVIOUS
<1>5. \A x \in S : f[x] \in T
  OBVIOUS
<1>6. Sums!Chooses(S) /\ Sums!Counted(S)
  BY SumsChoose
<1>7. IsFiniteSet(U) /\ \A x \in U : f[x] \in Int
  BY FS_Subset
<1> HIDE DEF T
<1>8. Sums!Fold(f, S) = Plus(f[d], Sums!Fold(f, S \ {d}))
  BY <1>1, <1>2, <1>3, <1>4, <1>5, <1>6, Sums!FoldAnyOrder, Z3
<1> HIDE DEF U
<1>9. Sums!Fold(f, U) \in Int
  BY <1>7, SumIsInt
<1>10. QED
  BY <1>8, <1>9 DEF Plus, U

\* A sum grows by what one of its terms does.
LEMMA SumGrows ==
  ASSUME NEW S, IsFiniteSet(S), NEW d \in S,
         NEW f \in [S -> Int], NEW g \in [S -> Int], \A c \in S \ {d} : g[c] = f[c]
  PROVE  SumFunctionOnSet(g, S) = SumFunctionOnSet(f, S) + (g[d] - f[d])
<1> DEFINE U == S \ {d}
<1>1. Sums!Chooses(U) /\ Sums!Counted(U)
  BY FS_Subset, SumsChoose
<1>2. \A c \in U : g[c] = f[c]
  OBVIOUS
<1>3. Sums!Fold(g, U) = Sums!Fold(f, U)
  <2> HIDE DEF U
  <2>1. QED
    BY <1>1, <1>2, Sums!FoldSame, Z3
<1>4. /\ Sums!Fold(f, S) = f[d] + Sums!Fold(f, U)
      /\ Sums!Fold(g, S) = g[d] + Sums!Fold(g, U)
      /\ Sums!Fold(f, U) \in Int
  BY SumsStep
<1> HIDE DEF U
<1>5. QED
  BY <1>3, <1>4, SumOverCallers

LEMMA SumOfNothing ==
  ASSUME NEW S, IsFiniteSet(S), NEW f, \A c \in S : f[c] = 0
  PROVE  SumFunctionOnSet(f, S) = 0
<1> DEFINE T == {0}
<1>1. \A a, b \in T : Plus(a, b) \in T
  BY DEF Plus
<1>2. (\A c \in S : f[c] \in T) /\ 0 \in T
  OBVIOUS
<1>3. Sums!Chooses(S) /\ Sums!Counted(S)
  BY SumsChoose
<1>4. Sums!Fold(f, S) \in T
  <2> HIDE DEF T
  <2>1. QED
    BY <1>1, <1>2, <1>3, Sums!FoldType
<1>5. QED
  BY <1>4, SumOverCallers

-----------------------------------------------------------------------------
(* The invariant, of the call that moves *)

LEMMA CallersFinite == ASSUME load \in Loads PROVE IsFiniteSet(Callers)
BY LoadsAssumption DEF Callers

LEMMA UsageIsSum == UsageCounted <=> usage = SumFunctionOnSet([c \in Callers |-> Owed(c)], Callers)
BY DEF UsageCounted, Owed

LEMMA OwedIsCost == ASSUME CInv, NEW c \in Callers PROVE Owed(c) \in Nat
BY DEF CInv, CallInv, Owed

LEMMA UsageIsInt == ASSUME CInv PROVE usage \in Int
<1> DEFINE f == [c \in Callers |-> Owed(c)]
<1>1. \A c \in Callers : f[c] \in Int
  BY OwedIsCost
<1>2. IsFiniteSet(Callers) /\ usage = SumFunctionOnSet(f, Callers)
  BY CallersFinite, UsageIsSum DEF CInv, OfCallers
<1> HIDE DEF f
<1>3. QED
  BY <1>1, <1>2, SumIsInt, SumOverCallers

LEMMA InitCInv == Init => CInv
<1>1. SUFFICES ASSUME Init PROVE CInv
  OBVIOUS
<1>2. /\ load \in Loads /\ usage = 0
      /\ \A c \in Callers : /\ pc[c] = "build" /\ spent[c] = 0 /\ sends[c] = <<>>
                            /\ back[c] = [outcome |-> "none", result |-> <<>>]
                            /\ text[c].item = 1
  BY <1>1 DEF Init
<1>3. OfCallers
  <2> DEFINE t == [item |-> 1, cut |-> 0, error |-> "none"]
  <2>1. t \in [item : Nat, cut : 0 .. Fractions, error : Errors]
    BY DEF Fractions, Errors
  <2>2. text = [c \in Callers |-> t]
    BY <1>1 DEF Init
  <2> HIDE DEF t
  <2>3. text \in [Callers -> [item : Nat, cut : 0 .. Fractions, error : Errors]]
    BY <2>1, <2>2
  <2>4. QED
    BY <1>1, <2>3 DEF Init, OfCallers
<1>4. ASSUME NEW c \in Callers PROVE CallInv(c)
  <2>1. OfOllama(c) /\ Embeds(c) /\ Request(c).texts # <<>> => Embedded(c)
    <3>1. SUFFICES ASSUME OfOllama(c), Embeds(c), Request(c).texts # <<>> PROVE Embedded(c)
      OBVIOUS
    <3>2. Request(c).texts \in Seq(OllamaTexts)
      BY <1>2, <3>1, LoadsAssumption DEF Callers, Request, OfOllama, Embeds
    <3>3. Len(Request(c).texts) \in Nat /\ Len(Request(c).texts) # 0
      BY <3>1, <3>2, EmptySeq
    <3>4. back[c].result = <<>> /\ <<>> \in Seq(Nat) /\ Len(<<>>) = 0
      BY <1>2
    <3>5. QED
      BY <1>2, <3>3, <3>4 DEF Embedded
  <2>2. QED
    BY <1>2, <2>1 DEF CallInv, Answered
<1>5. UsageCounted
  <2> DEFINE f == [c \in Callers |-> Owed(c)]
  <2>1. \A c \in Callers : f[c] = 0
    BY <1>2 DEF Owed
  <2>2. SumFunctionOnSet(f, Callers) = 0
    <3> HIDE DEF f
    <3>1. QED
      BY <1>2, <2>1, CallersFinite, SumOfNothing
  <2>3. QED
    BY <1>2, <2>2, UsageIsSum
<1>6. QED
  BY <1>3, <1>4, <1>5 DEF CInv

LEMMA StepKeeps ==
  ASSUME CInv, NEW d \in Callers, StepOf(d), CallInv(d)', Counts(d)
  PROVE  CInv'
<1>1. /\ Callers' = Callers /\ (\A c : Request(c)' = Request(c)) /\ (\A c : OfOllama(c)' = OfOllama(c))
      /\ \A c : Embeds(c)' = Embeds(c)
  BY DEF StepOf, Callers, Request, OfOllama, Embeds
<1>2. ASSUME NEW c \in Callers \ {d} PROVE CallInv(c)' /\ Owed(c)' = Owed(c)
  <2>1. /\ pc'[c] = pc[c] /\ text'[c] = text[c]
        /\ spent'[c] = spent[c] /\ back'[c] = back[c]
    BY DEF StepOf
  <2>2. CallInv(c)
    BY DEF CInv
  <2>3. Embedded(c) => Embedded(c)'
    BY <1>1, <2>1 DEF Embedded
  <2>4. Owed(c)' = Owed(c)
    BY <1>1, <2>1 DEF Owed, Answered
  <2>5. Answered(c)' = Answered(c)
    BY <2>1 DEF Answered
  <2>6. QED
    BY <1>1, <2>1, <2>2, <2>3, <2>4, <2>5 DEF CallInv
<1>3. UsageCounted'
  <2> DEFINE f == [c \in Callers |-> Owed(c)]
             g == [c \in Callers |-> Owed(c)']
  <2>1. Owed(d)' \in Nat
    BY DEF CallInv, Owed
  <2>2. f \in [Callers -> Int] /\ g \in [Callers -> Int]
    BY <1>2, <2>1, OwedIsCost
  <2>3. \A c \in Callers \ {d} : g[c] = f[c]
    BY <1>2
  <2>4. f[d] = Owed(d) /\ g[d] = Owed(d)'
    OBVIOUS
  <2>5. usage = SumFunctionOnSet(f, Callers)
    BY UsageIsSum DEF CInv
  <2>6. IsFiniteSet(Callers)
    BY CallersFinite DEF CInv, OfCallers
  <2>7. SumFunctionOnSet(g, Callers) = SumFunctionOnSet(f, Callers) + (g[d] - f[d])
    <3> HIDE DEF f, g
    <3>1. QED
      BY <2>2, <2>3, <2>6, SumGrows
  <2>8. usage' = SumFunctionOnSet(g, Callers)
    <3> HIDE DEF f, g
    <3>1. QED
      BY <2>4, <2>5, <2>7 DEF Counts
  <2>9. g = [c \in Callers' |->
               IF Answered(c)' \/ Request(c)'.op = "decide" \/ OfOllama(c)' THEN spent'[c] ELSE 0]
    BY <1>1 DEF Owed
  <2>10. QED
    BY <1>1, <2>8, <2>9 DEF UsageCounted
<1>4. QED
  BY <1>1, <1>2, <1>3 DEF CInv, StepOf

\* A call goes on, and has nothing new.
LEMMA GoesOn ==
  ASSUME CInv, NEW d \in Callers, StepOf(d), pc[d] # "ended", pc'[d] # "ended",
         ~Refused(Request(d)), OfOllama(d) => Embeds(d) /\ Request(d).texts # <<>>,
         usage' = usage, spent'[d] = spent[d], back'[d] = back[d], text'[d].item = text[d].item
  PROVE  CInv'
<1>1. /\ Callers' = Callers /\ Request(d)' = Request(d) /\ OfOllama(d)' = OfOllama(d)
      /\ Embeds(d)' = Embeds(d)
  BY DEF StepOf, Callers, Request, OfOllama, Embeds
<1>2. CallInv(d) /\ Owed(d) \in Nat
  BY OwedIsCost DEF CInv
<1>3. Answered(d)' = Answered(d) /\ ~Answered(d)
  BY <1>2 DEF CallInv, Answered
<1>4. Owed(d)' = Owed(d)
  BY <1>1, <1>3 DEF Owed
<1>5. Embedded(d) => Embedded(d)'
  BY <1>1 DEF Embedded
<1>6. CallInv(d)'
  BY <1>1, <1>2, <1>3, <1>5 DEF CallInv
<1>7. usage \in Int
  BY UsageIsInt
<1>8. Counts(d)
  BY <1>2, <1>4, <1>7 DEF Counts
<1>9. QED
  BY <1>6, <1>8, StepKeeps

\* A call to another than Ollama returns, and so does one to Ollama that has
\* nothing new: what it cost in the end is counted if it is owed.
LEMMA Ends ==
  ASSUME CInv, NEW d \in Callers, StepOf(d), pc[d] # "ended", pc'[d] = "ended",
         NEW outcome, NEW result, back'[d] = [outcome |-> outcome, result |-> result],
         NEW cost \in Nat, NEW counted, spent'[d] = spent[d] + cost, usage' = usage + counted,
         OfOllama(d) => cost = 0,
         counted = IF outcome = "ok" \/ Request(d).op = "decide" THEN cost ELSE 0,
         outcome = "ok" /\ Embeds(d) => MatchesTexts(Request(d), result),
         outcome = "ok" /\ Request(d).op = "decide" => MatchesQuestions(Request(d), result)
  PROVE  CInv'
<1>1. /\ Callers' = Callers /\ Request(d)' = Request(d) /\ OfOllama(d)' = OfOllama(d)
      /\ Embeds(d)' = Embeds(d)
  BY DEF StepOf, Callers, Request, OfOllama, Embeds
<1>2. CallInv(d) /\ Owed(d) \in Nat /\ usage \in Int
  BY OwedIsCost, UsageIsInt DEF CInv
<1>3. ~Answered(d) /\ (Answered(d)' <=> outcome = "ok") /\ back'[d].result = result
  BY <1>2 DEF CallInv, Answered
<1>4. ~OfOllama(d) => spent[d] = 0
  BY <1>2 DEF CallInv
<1>5. spent[d] \in Nat
  BY <1>2 DEF CallInv
<1>6. Owed(d) = spent[d]
  BY <1>4, <1>5 DEF Owed
<1>7. Owed(d)' = spent[d] + counted
  BY <1>1, <1>3, <1>4, <1>5 DEF Owed
<1>8. Counts(d)
  BY <1>2, <1>5, <1>6, <1>7 DEF Counts
<1>9. CallInv(d)'
  BY <1>1, <1>3, <1>5 DEF CallInv
<1>10. QED
  BY <1>8, <1>9, StepKeeps

-----------------------------------------------------------------------------
(* Steps that go on or fail *)

LEMMA RefuseKeeps ==
  ASSUME CInv, NEW d \in Callers, Refuse(d) PROVE CInv'
<1>1. StepOf(d) /\ pc[d] = "build" /\ pc'[d] = "ended"
  BY DEF Refuse, Return, CInv, OfCallers, StepOf, Callers
<1>2. /\ back'[d] = [outcome |-> "refused", result |-> <<>>]
      /\ spent'[d] = spent[d] + 0 /\ usage' = usage + 0
  BY UsageIsInt DEF Refuse, Return, CInv, OfCallers, CallInv
<1>3. QED
  BY <1>1, <1>2, Ends

LEMMA EmptyBatchKeeps ==
  ASSUME CInv, NEW d \in Callers, EmptyBatch(d) PROVE CInv'
<1>1. StepOf(d) /\ pc[d] = "build" /\ pc'[d] = "ended"
  BY DEF EmptyBatch, Return, CInv, OfCallers, StepOf, Callers
<1>2. /\ back'[d] = [outcome |-> "ok", result |-> <<>>]
      /\ spent'[d] = spent[d] + 0 /\ usage' = usage + 0
  BY UsageIsInt DEF EmptyBatch, Return, CInv, OfCallers, CallInv
<1>3. Request(d).op = "embed_batch" /\ MatchesTexts(Request(d), <<>>)
  BY DEF EmptyBatch, MatchesTexts
<1>4. QED
  BY <1>1, <1>2, <1>3, Ends

LEMMA SendFailedKeeps ==
  ASSUME CInv, NEW d \in Callers, SendFailed(d) PROVE CInv'
<1>1. StepOf(d) /\ pc[d] = "sent" /\ pc'[d] = "ended" /\ ~OfOllama(d)
  BY DEF SendFailed, SentOnce, Fail, Return, CInv, OfCallers, StepOf, Callers
<1>2. /\ back'[d] = [outcome |-> "error", result |-> <<>>]
      /\ spent'[d] = spent[d] + 0 /\ usage' = usage + 0
  BY UsageIsInt DEF SendFailed, Fail, Return, CInv, OfCallers, CallInv
<1>3. QED
  BY <1>1, <1>2, Ends

LEMMA SendOnceKeeps ==
  ASSUME CInv, NEW d \in Callers, SendOnce(d) PROVE CInv'
<1>1. StepOf(d) /\ pc[d] = "build" /\ pc'[d] = "sent" /\ ~OfOllama(d) /\ ~Refused(Request(d))
  BY DEF SendOnce, CInv, OfCallers, StepOf, Callers
<1>2. UNCHANGED <<usage, back, spent, text>>
  BY DEF SendOnce
<1>3. QED
  BY <1>1, <1>2, GoesOn

\* What Ollama is sent that is not refused is embedded.
LEMMA OllamaEmbeds ==
  ASSUME load \in Loads, NEW d \in Callers, OfOllama(d), ~Refused(Request(d))
  PROVE  Embeds(d) /\ Request(d).texts \in Seq(OllamaTexts)
<1>1. Request(d).op \in {"embed", "embed_batch"}
  BY DEF OfOllama, Refused, Offered
<1>2. QED
  BY <1>1, LoadsAssumption DEF OfOllama, Embeds, Callers, Request

LEMMA SendTextKeeps ==
  ASSUME CInv, NEW d \in Callers, SendText(d) PROVE CInv'
<1>1. StepOf(d) /\ pc[d] = "build" /\ pc'[d] = "sent" /\ ~Refused(Request(d))
  BY DEF SendText, CInv, OfCallers, StepOf, Callers
<1>2. Embeds(d) /\ Request(d).texts # <<>>
  BY OllamaEmbeds DEF SendText, CInv, OfCallers
<1>3. UNCHANGED <<usage, back, spent, text>>
  BY DEF SendText
<1>4. QED
  BY <1>1, <1>2, <1>3, GoesOn

LEMMA BuildChatKeeps ==
  ASSUME CInv, NEW d \in Callers, BuildChat(d) PROVE CInv'
<1>1. StepOf(d) /\ pc[d] = "build" /\ IsChat(d) /\ ~Refused(Request(d)) /\ ~OfOllama(d)
  BY NoChatOfOllama DEF BuildChat, Return, CInv, OfCallers, StepOf, Callers
<1>2. UNCHANGED <<usage, spent, text>>
  BY DEF BuildChat
<1>3. CASE KnownEffort(Request(d).effort)
  <2>1. pc'[d] = "sent" /\ back' = back
    BY <1>3 DEF BuildChat, CInv, OfCallers
  <2>2. QED
    BY <1>1, <1>2, <2>1, GoesOn
<1>4. CASE ~KnownEffort(Request(d).effort)
  <2>1. pc'[d] = "ended" /\ back'[d] = [outcome |-> "refused", result |-> <<>>]
    BY <1>4 DEF BuildChat, Return, CInv, OfCallers
  <2>2. spent'[d] = spent[d] + 0 /\ usage' = usage + 0
    BY <1>2, UsageIsInt DEF CInv, CallInv
  <2>3. QED
    BY <1>1, <2>1, <2>2, Ends
<1>5. QED
  BY <1>3, <1>4

\* A reply costs what its client says, and a stream's what its producer adds.
LEMMA ChatAnsweredKeeps ==
  ASSUME CInv, NEW d \in Callers, NEW reply, NEW tokens \in Tokens, ChatAnswered(d, reply, tokens)
  PROVE  CInv'
<1> DEFINE cost == IF reply = "ok" /\ Request(d).op = "chat" THEN tokens ELSE 0
<1>1. /\ StepOf(d) /\ pc[d] = "sent" /\ IsChat(d) /\ text' = text
      /\ usage' = usage + cost /\ spent'[d] = spent[d] + cost
  BY DEF ChatAnswered, Fail, Return, CInv, OfCallers, StepOf, Callers
<1>2. ~Refused(Request(d)) /\ ~OfOllama(d) /\ tokens \in Nat /\ spent[d] \in Nat /\ usage \in Int
  BY <1>1, NoChatOfOllama, CallsAssumption, UsageIsInt DEF CInv, CallInv
<1>3. CASE Adapts(d, reply)
  <2>1. pc'[d] = "build" /\ back' = back /\ cost = 0
    BY <1>3 DEF ChatAnswered, Adapts, CInv, OfCallers
  <2>2. usage' = usage /\ spent'[d] = spent[d]
    BY <1>1, <1>2, <2>1
  <2>3. QED
    BY <1>1, <1>2, <2>1, <2>2, GoesOn
<1>4. CASE ~Adapts(d, reply)
  <2> DEFINE outcome == IF reply = "ok" THEN "ok" ELSE "error"
  <2>1. pc'[d] = "ended" /\ back'[d] = [outcome |-> outcome, result |-> <<>>]
    BY <1>4 DEF ChatAnswered, Fail, Return, CInv, OfCallers
  <2>2. cost \in Nat /\ cost = (IF outcome = "ok" \/ Request(d).op = "decide" THEN cost ELSE 0)
    BY <1>1, <1>2 DEF IsChat
  <2>3. ~Embeds(d) /\ Request(d).op # "decide"
    BY <1>1 DEF IsChat, Embeds
  <2> HIDE DEF outcome, cost
  <2>4. QED
    BY <1>1, <1>2, <2>1, <2>2, <2>3, Ends
<1>5. QED
  BY <1>3, <1>4

-----------------------------------------------------------------------------
(* Embeddings that are sent at once *)

\* The greatest of some indices is one of them.
LEMMA LastIndex ==
  ASSUME NEW n \in Nat, NEW S \in SUBSET (1 .. n), S # {}
  PROVE  Max(S) \in S /\ \A k \in S : k <= Max(S)
<1>1. S \in SUBSET Nat /\ \A k \in S : k <= n
  OBVIOUS
<1>2. \E m \in S : \A k \in S : k <= m
  BY <1>1, Sums!GreatestMember
<1>3. QED
  BY <1>2 DEF Max

LEMMA TypeOfEntries ==
  ASSUME NEW n \in Nat, NEW entries \in Entries(n)
  PROVE  \E k \in 0 .. n : /\ DOMAIN entries = 1 .. k /\ Len(entries) = k
                           /\ \A i \in 1 .. k : /\ entries[i].index \in -1 .. n
                                                /\ entries[i].empty \in BOOLEAN
BY DEF Entries

\* An embedding is placed where its text is.
LEMMA PlacedMatches ==
  ASSUME NEW n \in Nat, NEW entries \in Entries(n)
  PROVE  /\ Len(Placed(entries, n)) = n /\ DOMAIN Placed(entries, n) = 1 .. n
         /\ \A i \in 1 .. n : Placed(entries, n)[i] \in {NoVector, i}
<1>1. PICK m \in 0 .. n : /\ DOMAIN entries = 1 .. m
                          /\ \A i \in 1 .. m : entries[i].index \in -1 .. n
  BY TypeOfEntries
<1>2. ASSUME NEW i \in 1 .. n PROVE Placed(entries, n)[i] \in {NoVector, i}
  <2> DEFINE here == {k \in DOMAIN entries : entries[k].index = i - 1}
  <2>1. Placed(entries, n)[i] = IF here = {} THEN NoVector ELSE EntryVector(entries[Max(here)])
    BY DEF Placed
  <2>2. CASE here # {}
    <3>1. Max(here) \in here
      <4>1. here \in SUBSET (1 .. n)
        BY <1>1
      <4> HIDE DEF here
      <4>2. QED
        BY <2>2, <4>1, LastIndex
    <3>2. entries[Max(here)].index = i - 1
      BY <3>1
    <3>3. EntryVector(entries[Max(here)]) \in {NoVector, i}
      <4> HIDE DEF here
      <4>1. QED
        BY <3>2 DEF EntryVector
    <3>4. QED
      BY <2>1, <2>2, <3>3
  <2>3. QED
    BY <2>1, <2>2
<1>3. QED
  BY <1>2 DEF Placed

LEMMA NumberOfTexts ==
  ASSUME load \in Loads, NEW d \in Callers, Embeds(d), ~OfOllama(d)
  PROVE  /\ Request(d).n \in Nat /\ Texts(Request(d)) = Request(d).n
         /\ Request(d).op = "embed" => Request(d).n = 1
BY LoadsAssumption DEF Embeds, OfOllama, Callers, Request, Texts

\* A reply to a call that is sent once ends it.
LEMMA ReplyEnds ==
  ASSUME CInv, NEW d \in Callers, SentOnce(d), NEW outcome, NEW result,
         Return(d, outcome, result), NEW tokens \in Tokens, NEW counted,
         Received(d, tokens, counted),
         counted = IF outcome = "ok" \/ Request(d).op = "decide" THEN tokens ELSE 0,
         outcome = "ok" /\ Embeds(d) => MatchesTexts(Request(d), result),
         outcome = "ok" /\ Request(d).op = "decide" => MatchesQuestions(Request(d), result)
  PROVE  CInv'
<1>1. StepOf(d) /\ pc[d] = "sent" /\ pc'[d] = "ended" /\ ~OfOllama(d)
  BY DEF SentOnce, Return, Received, CInv, OfCallers, StepOf, Callers
<1>2. back'[d] = [outcome |-> outcome, result |-> result] /\ tokens \in Nat
  BY CallsAssumption DEF Return, CInv, OfCallers
<1>3. spent'[d] = spent[d] + tokens /\ usage' = usage + counted
  BY DEF Received, CInv, OfCallers
<1>4. QED
  BY <1>1, <1>2, <1>3, Ends

LEMMA OpenAIKeeps ==
  ASSUME CInv, NEW d \in Callers, NEW entries \in Entries(Request(d).n), NEW tokens \in Tokens,
         EmbeddedByOpenAI(d, entries, tokens)
  PROVE  CInv'
<1>1. /\ SentOnce(d) /\ Request(d).provider = "openai" /\ ~OfOllama(d) /\ tokens \in Nat
      /\ Embeds(d) /\ Request(d).op # "decide" /\ load \in Loads
  BY CallsAssumption DEF EmbeddedByOpenAI, Embeds, SentOnce, CInv, OfCallers
<1>2. /\ Request(d).n \in Nat /\ Texts(Request(d)) = Request(d).n
      /\ Request(d).op = "embed" => Request(d).n = 1
  BY <1>1, NumberOfTexts
<1>3. CASE Fail(d) /\ Received(d, tokens, 0)
  BY <1>1, <1>3, ReplyEnds DEF Fail
<1>4. CASE Return(d, "panic", <<>>) /\ Received(d, tokens, 0)
  BY <1>1, <1>4, ReplyEnds
<1>5. ASSUME Request(d).op = "embed", entries # <<>>, \A i \in DOMAIN entries : entries[i].index = 0,
             Return(d, "ok", <<EntryVector(entries[1])>>), Received(d, tokens, tokens)
      PROVE  CInv'
  <2>1. PICK k \in 0 .. Request(d).n : DOMAIN entries = 1 .. k /\ Len(entries) = k
    BY <1>2, TypeOfEntries
  <2>2. k = 1
    BY <1>2, <1>5, <2>1 DEF Entries
  <2>3. EntryVector(entries[1]) \in {NoVector, 1}
    BY <1>5, <2>1, <2>2 DEF EntryVector
  <2>4. MatchesTexts(Request(d), <<EntryVector(entries[1])>>)
    <3> DEFINE v == EntryVector(entries[1])
    <3>1. Len(<<v>>) = 1 /\ DOMAIN <<v>> = {1} /\ <<v>>[1] = v
      OBVIOUS
    <3>2. v \in {NoVector, 1}
      BY <2>3
    <3> HIDE DEF v
    <3>3. MatchesTexts(Request(d), <<v>>)
      BY <1>1, <1>2, <1>5, <3>1, <3>2 DEF MatchesTexts
    <3>4. QED
      BY <3>3 DEF v
  <2>5. QED
    BY <1>1, <1>5, <2>4, ReplyEnds
<1>6. ASSUME Return(d, "ok", Placed(entries, Request(d).n)), Received(d, tokens, tokens) PROVE CInv'
  <2>1. MatchesTexts(Request(d), Placed(entries, Request(d).n))
    BY <1>1, <1>2, PlacedMatches DEF MatchesTexts
  <2>2. QED
    BY <1>1, <1>6, <2>1, ReplyEnds
<1>7. QED
  BY <1>3, <1>4, <1>5, <1>6 DEF EmbeddedByOpenAI

LEMMA VoyageKeeps ==
  ASSUME CInv, NEW d \in Callers, NEW entries \in Entries(Request(d).n), NEW tokens \in Tokens,
         EmbeddedByVoyage(d, entries, tokens)
  PROVE  CInv'
<1> DEFINE n == Request(d).n
           placed == Placed(entries, n)
<1>1. /\ SentOnce(d) /\ ~OfOllama(d) /\ tokens \in Nat
      /\ Embeds(d) /\ Request(d).op # "decide" /\ load \in Loads
  BY CallsAssumption DEF EmbeddedByVoyage, Embeds, SentOnce, CInv, OfCallers
<1>2. n \in Nat /\ Texts(Request(d)) = n
  BY <1>1, NumberOfTexts
<1>3. CASE Fail(d) /\ Received(d, tokens, 0)
  BY <1>1, <1>3, ReplyEnds DEF Fail
<1>4. ASSUME \A i \in 1 .. n : placed[i] # NoVector,
             Return(d, "ok", placed), Received(d, tokens, tokens)
      PROVE  CInv'
  <2>1. Len(placed) = n /\ DOMAIN placed = 1 .. n /\ \A i \in 1 .. n : placed[i] \in {NoVector, i}
    BY <1>2, PlacedMatches
  <2> HIDE DEF placed
  <2>2. MatchesTexts(Request(d), placed)
    BY <1>2, <1>4, <2>1 DEF MatchesTexts
  <2>3. QED
    BY <1>1, <1>4, <2>2, ReplyEnds
<1>5. QED
  BY <1>3, <1>4 DEF EmbeddedByVoyage

LEMMA GeminiKeeps ==
  ASSUME CInv, NEW d \in Callers, NEW vectors \in Vectors(Request(d).n), NEW tokens \in Tokens,
         EmbeddedByGemini(d, vectors, tokens)
  PROVE  CInv'
<1>1. /\ SentOnce(d) /\ ~OfOllama(d) /\ tokens \in Nat
      /\ Embeds(d) /\ Request(d).op # "decide" /\ load \in Loads
  BY CallsAssumption DEF EmbeddedByGemini, Embeds, SentOnce, CInv, OfCallers
<1>2. Request(d).n \in Nat /\ Texts(Request(d)) = Request(d).n
  BY <1>1, NumberOfTexts
<1>3. CASE Fail(d) /\ Received(d, tokens, 0)
  BY <1>1, <1>3, ReplyEnds DEF Fail
<1>4. ASSUME Len(vectors) = Request(d).n, NoVector \notin ToSet(vectors),
             Return(d, "ok", vectors), Received(d, tokens, tokens)
      PROVE  CInv'
  <2>1. PICK k \in 0 .. Request(d).n + 1 :
          /\ vectors \in [1 .. k -> 0 .. Request(d).n + 1]
          /\ \A i \in 1 .. k : vectors[i] \in {NoVector, i}
    BY DEF Vectors
  <2>2. \A i \in 1 .. k : vectors[i] = i
    BY <1>4, <2>1 DEF ToSet
  <2>3. MatchesTexts(Request(d), vectors)
    BY <1>2, <1>4, <2>1, <2>2 DEF MatchesTexts
  <2>4. QED
    BY <1>1, <1>4, <2>3, ReplyEnds
<1>5. QED
  BY <1>3, <1>4 DEF EmbeddedByGemini

LEMMA RerankKeeps ==
  ASSUME CInv, NEW d \in Callers, NEW entries, NEW tokens \in Tokens, Rerank(d, entries, tokens)
  PROVE  CInv'
<1> DEFINE ranks == [i \in DOMAIN entries |-> entries[i].index]
<1>1. /\ SentOnce(d) /\ ~Embeds(d) /\ Request(d).op # "decide"
      /\ Return(d, "ok", ranks) /\ Received(d, tokens, tokens)
  BY DEF Rerank, Embeds
<1> HIDE DEF ranks
<1>2. QED
  BY <1>1, ReplyEnds

-----------------------------------------------------------------------------
(* Texts of Ollama, one after the other *)

LEMMA TextOnItsWay ==
  ASSUME CInv, NEW d \in Callers, pc[d] = "sent", OfOllama(d)
  PROVE  /\ ~Refused(Request(d)) /\ Embeds(d) /\ Request(d).op # "decide"
         /\ Request(d).texts # <<>> /\ Request(d).texts \in Seq(OllamaTexts)
         /\ Embedded(d) /\ ~Answered(d)
<1>1. CallInv(d) /\ load \in Loads
  BY DEF CInv, OfCallers
<1>2. ~Refused(Request(d)) /\ Request(d).texts # <<>> /\ Embeds(d) /\ Embedded(d) /\ ~Answered(d)
  BY <1>1 DEF CallInv, Answered
<1>3. QED
  BY <1>1, <1>2, OllamaEmbeds DEF Embeds

\* The cut that is next is the first that leaves anything.
LEMMA NextCutIsFirst ==
  ASSUME NEW t, NEW k \in 0 .. Fractions
  PROVE  /\ NextCut(t, k) \in 0 .. Fractions
         /\ NextCut(t, k) # 0 => /\ NextCut(t, k) > k /\ CutSize(t, NextCut(t, k)) > 0
                                 /\ \A j \in k + 1 .. NextCut(t, k) - 1 : ~(CutSize(t, j) > 0)
         /\ NextCut(t, k) = 0 => \A j \in k + 1 .. Fractions : ~(CutSize(t, j) > 0)
<1> DEFINE left == {j \in k + 1 .. Fractions : CutSize(t, j) > 0}
<1>1. left \in SUBSET Nat /\ left \subseteq k + 1 .. Fractions /\ Fractions = 3
  BY DEF Fractions, Errors
<1>2. CASE left = {}
  <2>1. NextCut(t, k) = 0
    BY <1>2 DEF NextCut
  <2>2. QED
    BY <1>1, <1>2, <2>1
<1>3. CASE left # {}
  <2>1. NextCut(t, k) = Min(left)
    BY <1>3 DEF NextCut
  <2>2. Min(left) \in left /\ \A j \in left : Min(left) <= j
    <3> HIDE DEF left
    <3>1. PICK m \in left : \A j \in left : m <= j
      BY <1>1, <1>3, Sums!LeastMember
    <3>2. QED
      BY <3>1 DEF Min
  <2>3. QED
    BY <1>1, <2>1, <2>2
<1>4. QED
  BY <1>2, <1>3

LEMMA TextFailedKeeps ==
  ASSUME CInv, NEW d \in Callers, NEW reply \in {"down", "overflow", "failed"}, TextFailed(d, reply) PROVE CInv'
<1>1. /\ pc[d] = "sent" /\ OfOllama(d) /\ UNCHANGED <<load, usage, spent>>
      /\ sends' = [sends EXCEPT ![d] =
           Append(@, [item |-> text[d].item, size |-> SentSize(d), reply |-> reply])]
  BY DEF TextFailed, TextReply
<1>2. ~Refused(Request(d)) /\ Embeds(d) /\ Request(d).texts # <<>> /\ Request(d).op # "decide"
  BY <1>1, TextOnItsWay
<1>3. usage \in Int /\ spent[d] \in Nat
  BY UsageIsInt DEF CInv, CallInv
<1>4. CASE Retries(d, reply)
  <2> DEFINE k == NextCut(CurrentText(d), text[d].cut)
             e == KeptError(d, reply)
  <2>1. k \in 0 .. Fractions /\ e \in Errors
    BY NextCutIsFirst DEF CInv, OfCallers, KeptError, Errors
  <2>2. text' = [text EXCEPT ![d] = [text[d] EXCEPT !.cut = k, !.error = e]]
    BY <1>4, Zenon DEF TextFailed
  <2> HIDE DEF k, e
  <2>3. /\ text' \in [Callers -> [item : Nat, cut : 0 .. Fractions, error : Errors]]
        /\ text'[d].item = text[d].item /\ \A c \in Callers \ {d} : text'[c] = text[c]
    BY <2>1, <2>2 DEF CInv, OfCallers
  <2>4. StepOf(d) /\ pc'[d] = "build" /\ back' = back
    BY <1>1, <1>4, <2>3 DEF TextFailed, CInv, OfCallers, StepOf, Callers
  <2>5. QED
    BY <1>1, <1>2, <2>3, <2>4, GoesOn
<1>5. CASE ~Retries(d, reply)
  <2>1. text' = [text EXCEPT ![d].error = KeptError(d, reply)] /\ KeptError(d, reply) \in Errors
    BY <1>5 DEF TextFailed, KeptError, CInv, OfCallers, Errors
  <2>2. /\ text' \in [Callers -> [item : Nat, cut : 0 .. Fractions, error : Errors]]
        /\ \A c \in Callers \ {d} : text'[c] = text[c]
    BY <2>1 DEF CInv, OfCallers
  <2>3. StepOf(d) /\ pc'[d] = "ended" /\ back'[d] = [outcome |-> "error", result |-> <<>>]
    BY <1>1, <1>5, <2>2 DEF TextFailed, Fail, Return, CInv, OfCallers, StepOf, Callers
  <2>4. spent'[d] = spent[d] + 0 /\ usage' = usage + 0 /\ pc[d] # "ended"
    BY <1>1, <1>3
  <2>5. QED
    BY <1>2, <2>3, <2>4, Ends
<1>6. QED
  BY <1>4, <1>5

\* What has been embedded, and the next.
LEMMA EmbeddedMore ==
  ASSUME NEW n \in Nat \ {0}, NEW result \in Seq(Nat), Len(result) = n - 1,
         \A i \in 1 .. n - 1 : result[i] \in {NoVector, i}, NEW v \in {NoVector, n}
  PROVE  /\ Append(result, v) \in Seq(Nat) /\ Len(Append(result, v)) = n
         /\ \A i \in 1 .. n : Append(result, v)[i] \in {NoVector, i}
<1>1. v \in Nat
  BY DEF NoVector
<1>2. /\ Append(result, v) \in Seq(Nat) /\ Len(Append(result, v)) = n
      /\ \A i \in 1 .. n - 1 : Append(result, v)[i] = result[i]
      /\ Append(result, v)[n] = v
  BY <1>1, AppendProperties
<1>3. QED
  BY <1>2

LEMMA TextEmbeddedKeeps ==
  ASSUME CInv, NEW d \in Callers, NEW empty, NEW tokens \in Tokens, TextEmbedded(d, empty, tokens)
  PROVE  CInv'
<1> DEFINE n == text[d].item
           result == Append(back[d].result, IF empty THEN NoVector ELSE n)
           last == n = Len(Request(d).texts)
<1>1. /\ pc[d] = "sent" /\ OfOllama(d) /\ load' = load
      /\ pc' = [pc EXCEPT ![d] = IF last THEN "ended" ELSE "build"]
      /\ back' = [back EXCEPT ![d] = [outcome |-> IF last THEN "ok" ELSE "none", result |-> result]]
      /\ text' = [text EXCEPT ![d] = IF last THEN @ ELSE [item |-> n + 1, cut |-> 0, error |-> "none"]]
      /\ usage' = usage + tokens /\ spent' = [spent EXCEPT ![d] = @ + tokens]
      /\ sends' = [sends EXCEPT ![d] = Append(@, [item |-> n, size |-> SentSize(d), reply |-> "ok"])]
  BY DEF TextEmbedded, TextReply
<1>2. /\ ~Refused(Request(d)) /\ Embeds(d) /\ Request(d).texts # <<>> /\ Request(d).op # "decide"
      /\ Request(d).texts \in Seq(OllamaTexts) /\ Embedded(d) /\ ~Answered(d)
  BY <1>1, TextOnItsWay
<1>3. usage \in Int /\ spent[d] \in Nat /\ tokens \in Nat
  BY UsageIsInt, CallsAssumption DEF CInv, CallInv
<1>4. StepOf(d)
  <2> DEFINE t == IF last THEN text[d] ELSE [item |-> n + 1, cut |-> 0, error |-> "none"]
  <2>1. t \in [item : Nat, cut : 0 .. Fractions, error : Errors]
    BY DEF CInv, OfCallers, Fractions, Errors
  <2>2. text' = [text EXCEPT ![d] = t]
    BY <1>1
  <2> HIDE DEF t
  <2>3. /\ text' \in [Callers -> [item : Nat, cut : 0 .. Fractions, error : Errors]]
        /\ \A c \in Callers \ {d} : text'[c] = text[c]
    BY <2>1, <2>2 DEF CInv, OfCallers
  <2>4. QED
    BY <1>1, <2>3 DEF CInv, OfCallers, StepOf, Callers
<1>5. /\ Callers' = Callers /\ Request(d)' = Request(d) /\ OfOllama(d)' = OfOllama(d)
      /\ Embeds(d)' = Embeds(d)
  BY <1>1 DEF Callers, Request, OfOllama, Embeds
<1>6. /\ result \in Seq(Nat) /\ Len(result) = n
      /\ \A i \in 1 .. n : result[i] \in {NoVector, i}
  <2>1. /\ n \in Nat \ {0} /\ back[d].result \in Seq(Nat) /\ Len(back[d].result) = n - 1
        /\ \A i \in 1 .. n - 1 : back[d].result[i] \in {NoVector, i}
    BY <1>2 DEF Embedded
  <2>2. QED
    BY <2>1, EmbeddedMore
<1>7. /\ pc'[d] = (IF last THEN "ended" ELSE "build") /\ spent'[d] = spent[d] + tokens
      /\ back'[d] = [outcome |-> IF last THEN "ok" ELSE "none", result |-> result]
      /\ ~last => text'[d].item = n + 1
  BY <1>1 DEF CInv, OfCallers
<1>8. Owed(d) = spent[d] /\ Owed(d)' = spent[d] + tokens
  BY <1>1, <1>5, <1>7 DEF Owed
<1>9. Counts(d)
  BY <1>1, <1>3, <1>8 DEF Counts
<1>10. CallInv(d)'
  <2> HIDE DEF result
  <2>1. CASE last
    <3>1. MatchesTexts(Request(d), result)
      BY <1>1, <1>2, <1>6, <2>1 DEF MatchesTexts, Texts, OfOllama
    <3>2. QED
      BY <1>3, <1>5, <1>7, <1>2, <2>1, <3>1 DEF CallInv, Answered
  <2>2. CASE ~last
    <3>1. n + 1 \in 1 .. Len(Request(d).texts)
      BY <1>2, <2>2 DEF Embedded
    <3>2. /\ pc'[d] = "build" /\ text'[d].item = n + 1
          /\ back'[d].outcome = "none" /\ back'[d].result = result
      BY <1>7, <2>2
    <3> HIDE DEF last, n
    <3>3. n \in Int
      BY <1>2 DEF Embedded, n
    <3>4. Embedded(d)'
      BY <1>5, <1>6, <3>1, <3>2, <3>3 DEF Embedded
    <3>5. QED
      BY <1>1, <1>3, <1>5, <1>7, <3>2, <3>4 DEF CallInv, Answered
  <2>3. QED
    BY <2>1, <2>2
<1>11. QED
  BY <1>4, <1>9, <1>10, StepKeeps

-----------------------------------------------------------------------------
(* Decisions *)

\* The probabilities that a whole answer gives.
Given(q) == WireAnswer(q).probabilities

LEMMA GivenIs ==
  ASSUME NEW q \in Questions
  PROVE  /\ q.options \in Seq(Nat) /\ Given(q) \in Seq({Given(q)[j] : j \in DOMAIN q.options})
         /\ Len(Given(q)) = Len(q.options) /\ DOMAIN Given(q) = DOMAIN q.options
         /\ DOMAIN q.options = 1 .. Len(q.options)
         /\ \A j \in DOMAIN q.options :
              Given(q)[j] = [key |-> Key(q, j), probability |-> Truth(q, q.options[j])]
<1>1. q.options \in Seq(Nat)
  BY DEF Questions
<1>2. Given(q) = [j \in DOMAIN q.options |->
                    [key |-> Key(q, j), probability |-> Truth(q, q.options[j])]]
  BY DEF Given, WireAnswer, Key
<1>3. DOMAIN q.options = 1 .. Len(q.options) /\ Len(q.options) \in Nat
  BY <1>1
<1>4. Given(q) \in [1 .. Len(q.options) -> {Given(q)[j] : j \in DOMAIN q.options}]
  BY <1>2, <1>3
<1>5. QED
  BY <1>1, <1>2, <1>3, <1>4

\* An entry is that of an option, or lacks its number, or is nobody's.
Entry(q, e) ==
  \/ e.key = Unknown
  \/ \E j \in DOMAIN q.options : e.key = Key(q, j) /\ e.probability \in {Truth(q, q.options[j]), Missing}

\* An entry under no key has a number of its own or that of the first option.
KeylessEntry(q, e) == e.key = Null /\ e.probability \in {Keyless, Truth(q, q.options[1])}

\* What an answer to a question is, whatever is wrong in it.
LEMMA WireFields ==
  ASSUME NEW q \in Questions, NEW wa \in WireAnswers(q), NEW ps, ps = Given(q)
  PROVE  /\ wa.name = q.name /\ wa.value \in {Truth(q, 0), Missing}
         /\ wa.probabilities \in {ps, Reverse(ps), Append(ps, [key |-> Unknown, probability |-> <<0>>]),
                                  IF ps = <<>> THEN ps ELSE Front(ps),
                                  IF ps = <<>> THEN ps ELSE [ps EXCEPT ![1].probability = Missing]}
<1> DEFINE good == WireAnswer(q)
           more == Append(ps, [key |-> Unknown, probability |-> <<0>>])
           reversed == Reverse(ps)
           fewer == IF ps = <<>> THEN ps ELSE Front(ps)
           lacking == IF ps = <<>> THEN ps ELSE [ps EXCEPT ![1].probability = Missing]
<1>1. /\ good = [name |-> good.name, type |-> good.type, choice |-> good.choice,
                 value |-> good.value, confidence |-> good.confidence,
                 probabilities |-> ps]
      /\ good.probabilities = ps /\ good.name = q.name /\ good.value = Truth(q, 0)
  BY DEF WireAnswer, Given
<1>2. wa \in {good,
       [good EXCEPT !.probabilities = Reverse(good.probabilities)],
       [good EXCEPT !.probabilities =
          Append(good.probabilities, [key |-> Unknown, probability |-> <<0>>])],
       [good EXCEPT !.type = "refusal"],
       [good EXCEPT !.type = IF good.type = "score" THEN "choice" ELSE "score"],
       [good EXCEPT !.value = Missing],
       [good EXCEPT !.confidence = Missing],
       [good EXCEPT !.choice = Unknown],
       [good EXCEPT !.probabilities =
          IF good.probabilities = <<>> THEN good.probabilities ELSE Front(good.probabilities)],
       [good EXCEPT !.probabilities =
          IF good.probabilities = <<>> THEN good.probabilities
          ELSE [good.probabilities EXCEPT ![1].probability = Missing]]}
  BY Zenon DEF WireAnswers
<1> HIDE DEF good
<1>3. wa \in {good,
       [good EXCEPT !.probabilities = reversed],
       [good EXCEPT !.probabilities = more],
       [good EXCEPT !.type = "refusal"],
       [good EXCEPT !.type = IF good.type = "score" THEN "choice" ELSE "score"],
       [good EXCEPT !.value = Missing],
       [good EXCEPT !.confidence = Missing],
       [good EXCEPT !.choice = Unknown],
       [good EXCEPT !.probabilities = fewer],
       [good EXCEPT !.probabilities = lacking]}
  <2>1. good.probabilities = ps
    BY <1>1
  <2>2. QED
    BY <1>2, <2>1, Zenon
<1>4. /\ wa.name = q.name /\ wa.value \in {Truth(q, 0), Missing}
      /\ wa.probabilities \in {ps, reversed, more, fewer, lacking}
  <2> HIDE DEF more, reversed, fewer, lacking
  <2>1. QED
    BY <1>1, <1>3
<1>5. QED
  BY <1>4

LEMMA NullFields ==
  ASSUME NEW q \in Questions, NEW wa \in NullKeyed(q), NEW ps, ps = Given(q)
  PROVE  /\ wa.name = q.name /\ wa.value \in {Truth(q, 0), Missing}
         /\ wa.probabilities \in {Append(ps, [key |-> Null, probability |-> Keyless]),
                                  IF ps = <<>> THEN ps ELSE [ps EXCEPT ![1].key = Null]}
<1> DEFINE good == WireAnswer(q)
           more == Append(ps, [key |-> Null, probability |-> Keyless])
           lacking == IF ps = <<>> THEN ps ELSE [ps EXCEPT ![1].key = Null]
<1>1. /\ good = [name |-> good.name, type |-> good.type, choice |-> good.choice,
                 value |-> good.value, confidence |-> good.confidence,
                 probabilities |-> ps]
      /\ good.probabilities = ps /\ good.name = q.name /\ good.value = Truth(q, 0)
  BY DEF WireAnswer, Given
<1>2. wa \in {[good EXCEPT !.probabilities =
                 Append(good.probabilities, [key |-> Null, probability |-> Keyless])],
              [good EXCEPT !.probabilities =
                 IF good.probabilities = <<>> THEN good.probabilities
                 ELSE [good.probabilities EXCEPT ![1].key = Null]]}
  BY Zenon DEF NullKeyed
<1> HIDE DEF good
<1>3. wa \in {[good EXCEPT !.probabilities = more], [good EXCEPT !.probabilities = lacking]}
  <2>1. good.probabilities = ps
    BY <1>1
  <2>2. QED
    BY <1>2, <2>1, Zenon
<1>4. /\ wa.name = q.name /\ wa.value \in {Truth(q, 0), Missing}
      /\ wa.probabilities \in {more, lacking}
  <2> HIDE DEF more, lacking
  <2>1. QED
    BY <1>1, <1>3
<1>5. QED
  BY <1>4

LEMMA WireEntries ==
  ASSUME NEW q \in Questions, NEW wa \in WireAnswers(q)
  PROVE  \E n \in Nat : /\ DOMAIN wa.probabilities = 1 .. n
                        /\ \A k \in 1 .. n : Entry(q, wa.probabilities[k])
<1> DEFINE ps   == Given(q)
           m    == Len(q.options)
           S    == {ps[j] : j \in DOMAIN q.options}
           more == [key |-> Unknown, probability |-> <<0>>]
<1>1. /\ m \in Nat /\ Len(ps) = m /\ DOMAIN ps = 1 .. m /\ DOMAIN q.options = 1 .. m
      /\ \A j \in 1 .. m : ps[j] = [key |-> Key(q, j), probability |-> Truth(q, q.options[j])]
  <2>1. q.options \in Seq(Nat)
    BY GivenIs
  <2>2. Len(q.options) \in Nat
    BY <2>1
  <2>3. QED
    BY <2>2, GivenIs
<1>2. ps \in Seq(S)
  BY GivenIs
<1>3. \A j \in 1 .. m : Entry(q, ps[j])
  <2> HIDE DEF ps
  <2>1. ASSUME NEW j \in 1 .. m PROVE Entry(q, ps[j])
    <3>1. ps[j] = [key |-> Key(q, j), probability |-> Truth(q, q.options[j])]
      BY <1>1
    <3>2. j \in DOMAIN q.options
      BY <1>1
    <3>3. ps[j].key = Key(q, j) /\ ps[j].probability = Truth(q, q.options[j])
      BY <3>1
    <3>4. QED
      BY <3>2, <3>3, Zenon DEF Entry
  <2>2. QED
    BY <2>1
<1>4. wa.probabilities \in {ps, Reverse(ps), Append(ps, more), IF ps = <<>> THEN ps ELSE Front(ps),
                            IF ps = <<>> THEN ps ELSE [ps EXCEPT ![1].probability = Missing]}
  BY WireFields
<1>5. CASE wa.probabilities = ps
  BY <1>1, <1>3, <1>5
<1>6. CASE wa.probabilities = Reverse(ps)
  <2>1. DOMAIN Reverse(ps) = 1 .. m /\ \A k \in 1 .. m : m - k + 1 \in 1 .. m /\ Reverse(ps)[k] = ps[m - k + 1]
    BY <1>1 DEF Reverse
  <2> HIDE DEF ps
  <2>2. QED
    BY <1>1, <1>3, <1>6, <2>1
<1>7. CASE wa.probabilities = Append(ps, more)
  <2>1. Entry(q, more)
    BY DEF Entry
  <2> HIDE DEF ps, more, m
  <2>2. /\ Len(Append(ps, more)) = m + 1 /\ DOMAIN Append(ps, more) = 1 .. m + 1
        /\ Append(ps, more)[m + 1] = more /\ \A k \in 1 .. m : Append(ps, more)[k] = ps[k]
    <3>1. ps \in Seq(S \cup {more}) /\ more \in S \cup {more}
      BY <1>2
    <3> HIDE DEF S
    <3>2. QED
      BY <1>1, <3>1, AppendProperties
  <2>3. QED
    BY <1>1, <1>3, <1>7, <2>1, <2>2
<1>8. CASE ps # <<>> /\ wa.probabilities = Front(ps)
  <2> HIDE DEF ps, m
  <2>1. m - 1 \in Nat /\ 1 \in 1 .. m + 1 /\ m - 1 \in 1 - 1 .. m
    BY <1>1, <1>2, <1>8, EmptySeq
  <2>2. DOMAIN Front(ps) = 1 .. m - 1 /\ \A k \in 1 .. m - 1 : Front(ps)[k] = ps[k]
    BY <1>1, <1>2, <2>1 DEF Front
  <2>3. \A k \in 1 .. m - 1 : Entry(q, Front(ps)[k])
    BY <1>1, <1>3, <2>2
  <2>4. QED
    BY <1>8, <2>1, <2>2, <2>3
<1>9. CASE ps # <<>> /\ wa.probabilities = [ps EXCEPT ![1].probability = Missing]
  <2>1. m >= 1
    <3> HIDE DEF ps, m
    <3>1. QED
      BY <1>1, <1>2, <1>9, EmptySeq
  <2>2. ps[1] = [key |-> Key(q, 1), probability |-> Truth(q, q.options[1])]
    BY <1>1, <2>1
  <2> HIDE DEF ps, m
  <2>3. /\ DOMAIN wa.probabilities = 1 .. m
        /\ \A k \in 2 .. m : wa.probabilities[k] = ps[k]
        /\ wa.probabilities[1] = [key |-> Key(q, 1), probability |-> Missing]
    BY <1>1, <1>9, <2>1, <2>2
  <2>4. Entry(q, wa.probabilities[1])
    BY <1>1, <2>1, <2>3 DEF Entry
  <2>5. QED
    BY <1>1, <1>3, <2>3, <2>4
<1>10. QED
  BY <1>4, <1>5, <1>6, <1>7, <1>8, <1>9

LEMMA NullEntries ==
  ASSUME NEW q \in Questions, NEW wa \in NullKeyed(q)
  PROVE  \E n \in Nat : /\ DOMAIN wa.probabilities = 1 .. n
                        /\ \A k \in 1 .. n : \/ Entry(q, wa.probabilities[k])
                                             \/ KeylessEntry(q, wa.probabilities[k])
<1> DEFINE ps   == Given(q)
           m    == Len(q.options)
           S    == {ps[j] : j \in DOMAIN q.options}
           more == [key |-> Null, probability |-> Keyless]
<1>1. /\ m \in Nat /\ Len(ps) = m /\ DOMAIN ps = 1 .. m /\ DOMAIN q.options = 1 .. m
      /\ \A j \in 1 .. m : ps[j] = [key |-> Key(q, j), probability |-> Truth(q, q.options[j])]
  <2>1. q.options \in Seq(Nat)
    BY GivenIs
  <2>2. Len(q.options) \in Nat
    BY <2>1
  <2>3. QED
    BY <2>2, GivenIs
<1>2. ps \in Seq(S)
  BY GivenIs
<1>3. \A j \in 1 .. m : Entry(q, ps[j])
  <2> HIDE DEF ps
  <2>1. ASSUME NEW j \in 1 .. m PROVE Entry(q, ps[j])
    <3>1. ps[j] = [key |-> Key(q, j), probability |-> Truth(q, q.options[j])]
      BY <1>1
    <3>2. j \in DOMAIN q.options
      BY <1>1
    <3>3. ps[j].key = Key(q, j) /\ ps[j].probability = Truth(q, q.options[j])
      BY <3>1
    <3>4. QED
      BY <3>2, <3>3, Zenon DEF Entry
  <2>2. QED
    BY <2>1
<1>4. wa.probabilities \in {Append(ps, more), IF ps = <<>> THEN ps ELSE [ps EXCEPT ![1].key = Null]}
  BY NullFields
<1>5. CASE wa.probabilities = ps
  BY <1>1, <1>3, <1>5
<1>6. CASE wa.probabilities = Append(ps, more)
  <2>1. KeylessEntry(q, more)
    BY DEF KeylessEntry
  <2> HIDE DEF ps, more, m
  <2>2. /\ DOMAIN Append(ps, more) = 1 .. m + 1
        /\ Append(ps, more)[m + 1] = more /\ \A k \in 1 .. m : Append(ps, more)[k] = ps[k]
    <3>1. ps \in Seq(S \cup {more}) /\ more \in S \cup {more}
      BY <1>2
    <3> HIDE DEF S
    <3>2. QED
      BY <1>1, <3>1, AppendProperties
  <2>3. QED
    BY <1>1, <1>3, <1>6, <2>1, <2>2
<1>7. CASE ps # <<>> /\ wa.probabilities = [ps EXCEPT ![1].key = Null]
  <2>1. m >= 1
    <3> HIDE DEF ps, m
    <3>1. QED
      BY <1>1, <1>2, <1>7, EmptySeq
  <2>2. ps[1] = [key |-> Key(q, 1), probability |-> Truth(q, q.options[1])]
    BY <1>1, <2>1
  <2> HIDE DEF ps, m
  <2>3. /\ DOMAIN wa.probabilities = 1 .. m
        /\ \A k \in 2 .. m : wa.probabilities[k] = ps[k]
        /\ wa.probabilities[1] = [key |-> Null, probability |-> Truth(q, q.options[1])]
    BY <1>1, <1>7, <2>1, <2>2
  <2>4. KeylessEntry(q, wa.probabilities[1])
    BY <2>3 DEF KeylessEntry
  <2>5. QED
    BY <1>1, <1>3, <2>3, <2>4
<1>8. QED
  BY <1>4, <1>5, <1>6, <1>7

\* What an answer that is told is, of which only OpenAI's has entries under no key.
LEMMA ToldFields ==
  ASSUME NEW r, NEW q \in Questions, NEW wa \in AnswersTold(r, q)
  PROVE  /\ wa.name = q.name /\ wa.value \in {Truth(q, 0), Missing}
         /\ \E n \in Nat :
              /\ DOMAIN wa.probabilities = 1 .. n
              /\ \A k \in 1 .. n :
                   \/ Entry(q, wa.probabilities[k])
                   \/ r.provider = "openai" /\ KeylessEntry(q, wa.probabilities[k])
<1>1. CASE wa \in WireAnswers(q)
  BY <1>1, WireFields, WireEntries
<1>2. CASE wa \in NullKeyed(q) /\ r.provider = "openai"
  BY <1>2, NullFields, NullEntries
<1>3. QED
  BY <1>1, <1>2 DEF AnswersTold

\* No two options of a question have one key, and none has that of nobody.
LEMMA KeysDiffer ==
  ASSUME NEW q \in Questions, ValidOptions(q), NEW i \in DOMAIN q.options, NEW j \in DOMAIN q.options
  PROVE  /\ Key(q, i) \notin {Unknown, Null} /\ (Key(q, i) = Key(q, j) => i = j)
         /\ Key(q, i) = Read(q, Null) => q.kind # "choice" /\ i = 1
<1>1. q.options \in Seq(Nat) /\ DOMAIN q.options = 1 .. Len(q.options)
  BY GivenIs
<1>2. q.options # <<>>
  BY <1>1
<1>3. IsInjective(q.options)
  BY <1>2 DEF ValidOptions
<1>4. q.options[i] \in Nat /\ i \in Nat /\ -1 \notin Nat /\ -2 \notin Nat
  BY <1>1
<1>5. q.kind = "choice" => q.options[i] # EmptyString
  BY <1>1 DEF ValidOptions, ToSet
<1>6. Key(q, i) = Read(q, Null) => q.kind # "choice" /\ i = 1
  BY <1>5 DEF Key, Read
<1>7. QED
  BY <1>3, <1>4, <1>6 DEF Key, Unknown, Null, IsInjective

\* The probability of an option is the one the service gave for it, or is missing,
\* or is what was given under no key.
LEMMA ProbabilityIs ==
  ASSUME NEW r, NEW q \in Questions, ValidOptions(q), NEW wa \in AnswersTold(r, q),
         NEW j \in DOMAIN q.options
  PROVE  Right(r, q, j, Probability(q, wa, j)) \/ Probability(q, wa, j) = Missing
<1> DEFINE given == {k \in DOMAIN wa.probabilities : Read(q, wa.probabilities[k].key) = Key(q, j)}
<1>1. PICK n \in Nat :
        /\ DOMAIN wa.probabilities = 1 .. n
        /\ \A k \in 1 .. n : \/ Entry(q, wa.probabilities[k])
                             \/ r.provider = "openai" /\ KeylessEntry(q, wa.probabilities[k])
  BY ToldFields
<1>2. Probability(q, wa, j) = IF given = {} THEN Missing ELSE wa.probabilities[Max(given)].probability
  BY DEF Probability
<1>3. CASE given # {}
  <2>1. given \in SUBSET (1 .. n)
    BY <1>1
  <2>2. Max(given) \in given
    <3> HIDE DEF given
    <3>1. QED
      BY <1>3, <2>1, LastIndex
  <2>3. PICK k \in given : k = Max(given)
    BY <2>2
  <2> DEFINE e == wa.probabilities[k]
  <2>4. /\ Entry(q, e) \/ (r.provider = "openai" /\ KeylessEntry(q, e))
        /\ Read(q, e.key) = Key(q, j)
    BY <1>1, <2>1
  <2>5. Probability(q, wa, j) = e.probability
    <3> HIDE DEF given
    <3>1. QED
      BY <1>2, <1>3, <2>3
  <2> HIDE DEF e
  <2>6. CASE Entry(q, e)
    <3>1. e.key # Unknown
      BY <2>4, KeysDiffer DEF Read, Unknown, Null
    <3>2. PICK i \in DOMAIN q.options :
            e.key = Key(q, i) /\ e.probability \in {Truth(q, q.options[i]), Missing}
      BY <2>6, <3>1 DEF Entry
    <3>3. e.key # Null
      BY <3>2, KeysDiffer
    <3>4. i = j
      BY <2>4, <3>2, <3>3, KeysDiffer DEF Read
    <3>5. QED
      BY <2>5, <3>2, <3>4 DEF Right
  <2>7. CASE r.provider = "openai" /\ KeylessEntry(q, e)
    <3>1. q.kind # "choice" /\ j = 1
      BY <2>4, <2>7, KeysDiffer DEF KeylessEntry
    <3>2. q.kind = "score"
      <4>1. q.options # <<>>
        BY GivenIs
      <4>2. QED
        BY <3>1, <4>1 DEF ValidOptions
    <3>3. QED
      BY <2>5, <2>7, <3>1, <3>2 DEF KeylessEntry, Right
  <2>8. QED
    BY <2>4, <2>6, <2>7
<1>4. QED
  BY <1>2, <1>3

\* A usable answer says what it should of its question.
LEMMA AnswerMatches ==
  ASSUME NEW r, NEW q \in Questions, ValidOptions(q), NEW wa \in AnswersTold(r, q),
         IsRefusal(r, wa) \/ Usable(q, wa), NEW answer, answer = ConvertAnswer(r, q, wa)
  PROVE  MatchesQuestion(r, q, answer)
<1>1. CASE IsRefusal(r, wa)
  BY <1>1 DEF MatchesQuestion, ConvertAnswer, DecisionAnswer, IsRefusal
<1>2. CASE ~IsRefusal(r, wa)
  <2> DEFINE ps == [j \in DOMAIN q.options |->
                      [value |-> q.options[j], probability |-> Probability(q, wa, j)]]
  <2>1. answer = DecisionAnswer(q, FALSE, IF q.kind = "choice" THEN Missing ELSE wa.value,
                                IF q.kind = "choice" THEN wa.choice ELSE EmptyString, ps)
    BY <1>2 DEF ConvertAnswer
  <2>2. Usable(q, wa)
    BY <1>2
  <2>3. q.kind \in {"yes_no", "choice", "score"} /\ (q.kind = "yes_no" => q.options = <<>>)
    BY DEF ValidOptions
  <2>4. q.kind # "choice" => wa.value = Truth(q, 0)
    BY <2>2, <2>3, ToldFields DEF Usable
  <2>5. q.kind = "choice" => wa.choice \in ToSet(q.options)
    BY <2>2 DEF Usable
  <2>6. \A j \in DOMAIN q.options : Right(r, q, j, Probability(q, wa, j))
    BY <2>2, <2>3, ProbabilityIs DEF Usable
  <2>7. q.options \in Seq(Nat) /\ DOMAIN q.options = 1 .. Len(q.options) /\ Len(q.options) \in Nat
    BY GivenIs, LenProperties
  <2>8. Len(ps) = Len(q.options)
    BY <2>7
  <2>9. \A j \in DOMAIN q.options :
          ps[j].value = q.options[j] /\ Right(r, q, j, ps[j].probability)
    BY <2>6
  <2> HIDE DEF ps
  <2>10. QED
    BY <2>1, <2>4, <2>5, <2>8, <2>9 DEF MatchesQuestion, DecisionAnswer
<1>3. QED
  BY <1>1, <1>2

\* Every answer in a reply is to a question, or nobody's.
LEMMA ReplyAnswers ==
  ASSUME NEW r, r.questions \in Seq(Questions), r.questions # <<>>,
         NEW answers \in DecisionReplies(r), NEW k \in DOMAIN answers
  PROVE  \/ \E i \in DOMAIN r.questions : answers[k] \in AnswersTold(r, r.questions[i])
         \/ answers[k].name = Unknown
<1> DEFINE qs == r.questions
           n  == Len(qs)
           unasked == [WireAnswer(qs[1]) EXCEPT !.name = Unknown]
           Asked == UNION {AnswersTold(r, qs[i]) : i \in DOMAIN qs}
           All == Asked \cup {unasked}
<1>1. unasked.name = Unknown
  BY DEF WireAnswer
<1>2. n \in Nat /\ DOMAIN qs = 1 .. n /\ n # 0
  BY EmptySeq
<1>3. PICK s \in [DOMAIN qs -> Asked] :
        answers \in {s, Reverse(s), Tail(s), Append(s, unasked)}
                      \cup (IF r.provider = "openai" THEN {Append(s, s[1])} ELSE {})
  BY DEF DecisionReplies
<1> HIDE DEF qs, unasked, n, Asked
<1>4. s \in Seq(All) /\ Len(s) = n /\ s # <<>> /\ s[1] \in All /\ unasked \in All
  <2>1. s \in [1 .. n -> All]
    BY <1>2, <1>3
  <2>2. s \in Seq(All) /\ Len(s) = n
    BY <1>2, <2>1
  <2>3. QED
    BY <1>2, <2>1, <2>2, EmptySeq
<1>5. Reverse(s) \in Seq(All)
  <2>1. \A i \in 1 .. n : n - i + 1 \in 1 .. n
    BY <1>2
  <2>2. Reverse(s) \in [1 .. n -> All]
    BY <1>2, <1>4, <2>1 DEF Reverse
  <2>3. QED
    BY <1>2, <2>2
<1>6. Tail(s) \in Seq(All) /\ Append(s, unasked) \in Seq(All) /\ Append(s, s[1]) \in Seq(All)
  BY <1>4
<1>7. answers \in Seq(All)
  BY <1>3, <1>4, <1>5, <1>6
<1>8. answers[k] \in All
  BY <1>7
<1>9. QED
  BY <1>1, <1>8 DEF Asked, qs

\* What is returned of a usable reply matches the questions.
LEMMA ConvertMatches ==
  ASSUME NEW r, r.questions \in Seq(Questions), Answerable(r),
         NEW answers \in DecisionReplies(r), UsableReply(r, answers)
  PROVE  MatchesQuestions(r, Convert(r, answers))
<1> DEFINE qs == r.questions
<1>1. /\ qs # <<>> /\ \A i \in DOMAIN qs : qs[i] \in Questions /\ qs[i].name \in Nat
      /\ \A i \in DOMAIN qs : ValidOptions(qs[i])
      /\ \A i, j \in DOMAIN qs : qs[i].name = qs[j].name => i = j
  <2> DEFINE names == [i \in DOMAIN qs |-> qs[i].name]
  <2>1. qs # <<>> /\ IsInjective(names) /\ \A i \in DOMAIN qs : ValidOptions(qs[i])
    BY DEF Answerable, Validate
  <2>2. \A i \in DOMAIN qs : qs[i] \in Questions
    OBVIOUS
  <2>3. \A i \in DOMAIN qs : qs[i].name \in Nat
    BY <2>2 DEF Questions
  <2>4. \A i, j \in DOMAIN names : names[i] = names[j] => i = j
    BY <2>1, Zenon DEF IsInjective
  <2>5. QED
    BY <2>1, <2>2, <2>3, <2>4
<1>2. ASSUME NEW i \in DOMAIN qs
      PROVE  \E wa \in AnswersTold(r, qs[i]) :
               /\ IsRefusal(r, wa) \/ Usable(qs[i], wa)
               /\ Convert(r, answers)[i] = ConvertAnswer(r, qs[i], wa)
  <2> DEFINE k == CHOOSE k \in DOMAIN answers : answers[k].name = qs[i].name
  <2>1. PICK m \in DOMAIN answers : /\ AnswersTo(answers, qs[i]) = {m}
                                    /\ IsRefusal(r, answers[m]) \/ Usable(qs[i], answers[m])
    BY <1>2 DEF UsableReply
  <2>2. answers[m].name = qs[i].name /\ \A l \in DOMAIN answers : answers[l].name = qs[i].name => l = m
    BY <2>1 DEF AnswersTo
  <2>3. k = m
    BY <2>2
  <2>4. Convert(r, answers)[i] = ConvertAnswer(r, qs[i], answers[m])
    BY <1>2, <2>3 DEF Convert
  <2>5. answers[m].name # Unknown
    BY <1>1, <1>2, <2>2 DEF Unknown
  <2>6. PICK j \in DOMAIN qs : answers[m] \in AnswersTold(r, qs[j])
    BY <1>1, <2>5, ReplyAnswers
  <2>7. answers[m].name = qs[j].name
    BY <1>1, <2>6, ToldFields
  <2>8. i = j
    BY <1>1, <2>2, <2>7
  <2>9. QED
    BY <2>1, <2>4, <2>6, <2>8
<1>3. DOMAIN Convert(r, answers) = DOMAIN qs
  BY DEF Convert
<1>4. ASSUME NEW i \in DOMAIN qs PROVE MatchesQuestion(r, qs[i], Convert(r, answers)[i])
  <2>1. PICK wa \in AnswersTold(r, qs[i]) : /\ IsRefusal(r, wa) \/ Usable(qs[i], wa)
                                            /\ Convert(r, answers)[i] = ConvertAnswer(r, qs[i], wa)
    BY <1>2
  <2>2. qs[i] \in Questions /\ ValidOptions(qs[i])
    BY <1>1
  <2>3. QED
    BY <2>1, <2>2, AnswerMatches
<1>5. QED
  BY <1>3, <1>4 DEF MatchesQuestions

LEMMA DecideKeeps ==
  ASSUME CInv, NEW d \in Callers, Request(d).op = "decide",
         NEW answers \in DecisionReplies(Request(d)), NEW tokens \in Tokens,
         Decide(d, answers, tokens)
  PROVE  CInv'
<1>1. SentOnce(d) /\ ~Embeds(d) /\ Received(d, tokens, tokens) /\ tokens \in Nat
  BY CallsAssumption DEF Decide, DecideCounts, Embeds
<1>2. CASE Fail(d)
  BY <1>1, <1>2, ReplyEnds DEF Fail
<1>3. CASE UsableReply(Request(d), answers) /\ Return(d, "ok", Convert(Request(d), answers))
  <2>1. Request(d).questions \in Seq(Questions)
    BY LoadsAssumption DEF CInv, OfCallers, Callers, Request
  <2>2. Answerable(Request(d))
    BY <1>1 DEF CInv, CallInv, SentOnce, Refused
  <2>3. MatchesQuestions(Request(d), Convert(Request(d), answers))
    BY <1>3, <2>1, <2>2, ConvertMatches
  <2>4. QED
    BY <1>1, <1>3, <2>3, ReplyEnds
<1>4. QED
  BY <1>2, <1>3 DEF Decide

-----------------------------------------------------------------------------
\* Every step is one call's, or none.
LEMMA NextCInv == CInv /\ [Next]_vars => CInv'
<1>1. SUFFICES ASSUME CInv, [Next]_vars PROVE CInv'
  OBVIOUS
<1>2. CASE UNCHANGED vars
  <2>1. Callers' = Callers /\ \A c : Request(c)' = Request(c)
    BY <1>2 DEF vars, Callers, Request
  <2>2. OfCallers'
    BY <1>1, <1>2, <2>1 DEF vars, CInv, OfCallers
  <2>3. \A c \in Callers : CallInv(c)'
    BY <1>1, <1>2, <2>1 DEF vars, CInv, CallInv, OfOllama, Embeds, Embedded, Answered
  <2>4. UsageCounted'
    BY <1>1, <1>2, <2>1 DEF vars, CInv, UsageCounted, OfOllama, Answered
  <2>5. QED
    BY <2>1, <2>2, <2>3, <2>4 DEF CInv
<1>3. ASSUME NEW d \in Callers, ChatStep(d) PROVE CInv'
  BY <1>1, <1>3, BuildChatKeeps, ChatAnsweredKeeps DEF ChatStep
<1>4. ASSUME NEW d \in Callers, EmbedStep(d) PROVE CInv'
  BY <1>1, <1>4, OpenAIKeeps, VoyageKeeps, GeminiKeeps, RerankKeeps DEF EmbedStep
<1>5. ASSUME NEW d \in Callers, DecideStep(d) PROVE CInv'
  BY <1>1, <1>5, DecideKeeps DEF DecideStep
<1>6. ASSUME NEW d \in Callers, TextStep(d) PROVE CInv'
  BY <1>1, <1>6, SendTextKeeps, TextEmbeddedKeeps, TextFailedKeeps DEF TextStep
<1>7. CASE Next
  <2>1. CASE Ended
    BY <1>2, <2>1 DEF Ended
  <2>2. ASSUME NEW d \in Callers, Refuse(d) \/ EmptyBatch(d) \/ SendOnce(d) \/ SendFailed(d)
        PROVE  CInv'
    BY <1>1, <2>2, RefuseKeeps, EmptyBatchKeeps, SendOnceKeeps, SendFailedKeeps
  <2>3. QED
    BY <1>3, <1>4, <1>5, <1>6, <1>7, <2>1, <2>2 DEF Next
<1>8. QED
  BY <1>1, <1>2, <1>7

LEMMA CInvMatches == CInv => VectorsMatch /\ AnswersMatch /\ UsageCounted
BY DEF CInv, CallInv, VectorsMatch, MatchesTexts, AnswersMatch, MatchesQuestions, MatchesQuestion, Right

\* Embeddings are returned one for each text and in the order of the texts, however
\* many there are and however the service orders or repeats them.
THEOREM EmbeddingsMatch == Spec => []VectorsMatch
BY InitCInv, NextCInv, CInvMatches, PTL DEF Spec

\* Answers are returned one for each question and in the order of the questions,
\* with the probability of each option and of no other, whatever a reply has wrong,
\* but for the first level of a score to OpenAI where a level's index is null.
THEOREM DecisionsMatch == Spec => []AnswersMatch
BY InitCInv, NextCInv, CInvMatches, PTL DEF Spec

\* The client's usage is what its calls owe, for any number of calls at once.
THEOREM UsageAlwaysCounted == Spec => []UsageCounted
BY InitCInv, NextCInv, CInvMatches, PTL DEF Spec

-----------------------------------------------------------------------------
(* The pieces of a text that are tried *)

\* Of the sends h, those from s to k are all that there are of one text up to k.
Tries(h, s, k) ==
  /\ s \in 1 .. k
  /\ \A j \in s .. k : h[j].item = h[k].item
  /\ \A j \in 1 .. s - 1 : h[j].item # h[k].item

\* TruncationHonest, of one send, the text of which is first sent by s.
HonestSend(r, h, s, k) ==
  LET size == r.texts[h[k].item].size
  IN  /\ s = k => h[k].size = size
      /\ s # k => /\ h[k-1].reply # "ok"
                  /\ h[k].size \in 1 .. size - 1 /\ h[k].size <= h[k-1].size
                  /\ r.truncates /\ h[s].reply \in {"down", "overflow"}
                  /\ k - s <= Fractions

Sent == [item : Nat, size : Nat, reply : {"ok", "down", "overflow", "failed"}]

\* The text on its way has not been sent before, and those before were embedded.
FreshText(c) ==
  LET h == sends[c]
  IN  /\ \A k \in DOMAIN h : h[k].item < text[c].item
      /\ h # <<>> => h[Len(h)].reply = "ok"

\* Or it was sent, and what is left of it is the next piece that is not empty.
CutText(c) ==
  LET h == sends[c]  n == Len(h)  t == CurrentText(c)
  IN  /\ h # <<>> /\ h[n].item = text[c].item /\ h[n].reply # "ok" /\ Request(c).truncates
      /\ CutSize(t, text[c].cut) > 0
      /\ \E s \in 1 .. n : /\ Tries(h, s, n) /\ n - s < text[c].cut
                           /\ h[s].reply \in {"down", "overflow"} /\ text[c].error = h[s].reply
      /\ \E j \in 0 .. text[c].cut - 1 : h[n].size = CutSize(t, j)

\* A call that fails does so with the first error of the text, the last piece tried.
HonestError(c) ==
  LET h == sends[c]  n == Len(h)
  IN  \E s \in 1 .. n :
        /\ Tries(h, s, n) /\ text[c].error = h[s].reply
        /\ Request(c).truncates /\ h[s].reply # "failed" =>
             \A k \in 0 .. Fractions :
               LET size == CutSize(Request(c).texts[h[n].item], k)
               IN  size > 0 => h[n].size <= size

TextInv(c) ==
  LET h == sends[c]
  IN  /\ h \in Seq(Sent)
      /\ \A k \in DOMAIN h : \E s \in 1 .. k : Tries(h, s, k) /\ HonestSend(Request(c), h, s, k)
      /\ \A k \in 1 .. Len(h) - 1 : h[k+1].item # h[k].item => h[k].reply = "ok"
      /\ \A k \in DOMAIN h : h[k].item <= text[c].item
      /\ pc[c] # "ended" => IF text[c].cut = 0 THEN FreshText(c) ELSE CutText(c)
      /\ back[c].outcome = "error" => h # <<>> /\ HonestError(c)

TInv == \A c \in Callers : OfOllama(c) /\ ~Refused(Request(c)) => TextInv(c)

LEMMA InitTInv == Init => TInv
<1>1. SUFFICES ASSUME Init, NEW c \in Callers PROVE TextInv(c)
  BY DEF TInv
<1>2. /\ pc[c] = "build" /\ sends[c] = <<>> /\ back[c].outcome = "none" /\ text[c].cut = 0
  BY <1>1 DEF Init
<1>3. <<>> \in Seq(Sent) /\ DOMAIN <<>> = {} /\ Len(<<>>) = 0
  OBVIOUS
<1>4. FreshText(c)
  BY <1>2, <1>3 DEF FreshText
<1>5. QED
  BY <1>2, <1>3, <1>4 DEF TextInv

\* Each cut leaves no more of the text than the one before.
LEMMA CutsShrink ==
  ASSUME NEW t \in OllamaTexts
  PROVE  /\ \A k \in 0 .. Fractions : CutSize(t, k) \in Nat
         /\ \A j, k \in 0 .. Fractions : j <= k => CutSize(t, k) <= CutSize(t, j)
         /\ CutSize(t, 0) = t.size
         /\ \A k \in 1 .. Fractions : CutSize(t, k) > 0 => CutSize(t, k) < t.size
<1> DEFINE target(k) == (t.size * (4 - k)) \div 4
           spaces(k) == {i \in t.spaces : 0 < i /\ i <= target(k)}
<1>1. t.size \in Nat /\ t.spaces \in SUBSET Nat
  BY DEF OllamaTexts
<1>2. /\ \A k \in 0 .. 3 : target(k) \in Nat /\ target(k) <= t.size
      /\ \A j, k \in 0 .. 3 : j <= k => target(k) <= target(j)
      /\ \A k \in 1 .. 3 : target(k) > 0 => target(k) < t.size
  <2> DEFINE z == t.size
  <2>1. /\ target(0) = (z * 4) \div 4 /\ target(1) = (z * 3) \div 4
        /\ target(2) = (z * 2) \div 4 /\ target(3) = (z * 1) \div 4
    OBVIOUS
  <2>2. z \in Nat
    BY <1>1
  <2> HIDE DEF z
  <2>3. /\ (z * 4) \div 4 = z /\ (z * 3) \div 4 \in Nat /\ (z * 2) \div 4 \in Nat /\ (z * 1) \div 4 \in Nat
        /\ (z * 3) \div 4 <= z /\ (z * 2) \div 4 <= (z * 3) \div 4 /\ (z * 1) \div 4 <= (z * 2) \div 4
        /\ (z * 3) \div 4 > 0 => (z * 3) \div 4 < z
    BY <2>2
  <2> HIDE DEF target
  <2>4. \A k \in 0 .. 3 : k = 0 \/ k = 1 \/ k = 2 \/ k = 3
    OBVIOUS
  <2>5. target(0) = z /\ target(1) \in Nat /\ target(2) \in Nat /\ target(3) \in Nat
    BY <2>1, <2>3
  <2>6. target(1) <= z /\ target(2) <= target(1) /\ target(3) <= target(2) /\ (target(1) > 0 => target(1) < z)
    BY <2>1, <2>3
  <2>7. \A k \in 0 .. 3 : target(k) \in Nat /\ target(k) <= z
    BY <2>2, <2>4, <2>5, <2>6
  <2>8. \A j, k \in 0 .. 3 : j <= k => target(k) <= target(j)
    BY <2>2, <2>4, <2>5, <2>6
  <2>9. \A k \in 1 .. 3 : target(k) > 0 => target(k) < z
    BY <2>2, <2>4, <2>5, <2>6
  <2>10. QED
    BY <2>7, <2>8, <2>9 DEF z
<1>3. ASSUME NEW k \in 0 .. 3
      PROVE  /\ k = 0 => CutSize(t, k) = t.size
             /\ k # 0 /\ spaces(k) = {} => CutSize(t, k) = target(k)
             /\ k # 0 /\ spaces(k) # {} =>
                  /\ CutSize(t, k) \in spaces(k) /\ \A i \in spaces(k) : i <= CutSize(t, k)
  <2>1. CutSize(t, k) = IF k = 0 THEN t.size ELSE IF spaces(k) = {} THEN target(k) ELSE Max(spaces(k))
    BY DEF CutSize
  <2>2. CASE spaces(k) # {}
    <3>1. spaces(k) \in SUBSET (1 .. target(k)) /\ target(k) \in Nat
      BY <1>1, <1>2
    <3>2. Max(spaces(k)) \in spaces(k) /\ \A i \in spaces(k) : i <= Max(spaces(k))
      <4> HIDE DEF spaces, target
      <4>1. QED
        BY <2>2, <3>1, LastIndex
    <3> HIDE DEF spaces, target
    <3>3. QED
      BY <2>1, <2>2, <3>2
  <2>3. CASE spaces(k) = {}
    BY <2>1, <2>3
  <2>4. QED
    BY <2>2, <2>3
<1>4. \A k \in 0 .. 3 : \A i \in spaces(k) : i \in t.spaces /\ i \in Nat /\ 0 < i /\ i <= target(k)
  BY <1>1
<1>5. \A k \in 0 .. 3 : \A i \in t.spaces : 0 < i /\ i <= target(k) => i \in spaces(k)
  OBVIOUS
<1>6. Fractions = 3
  BY DEF Fractions
<1> HIDE DEF spaces, target
<1>7. \A k \in 0 .. 3 : CutSize(t, k) \in Nat /\ (k # 0 => CutSize(t, k) <= target(k))
  BY <1>1, <1>2, <1>3, <1>4
<1>8. ASSUME NEW j \in 0 .. 3, NEW k \in 0 .. 3, j <= k PROVE CutSize(t, k) <= CutSize(t, j)
  <2>1. target(k) \in Nat /\ target(j) \in Nat /\ target(k) <= target(j) /\ target(k) <= t.size
    BY <1>2, <1>8
  <2>2. CASE j = 0
    BY <1>1, <1>3, <1>7, <2>1, <2>2
  <2>3. CASE j # 0 /\ spaces(j) = {}
    BY <1>3, <1>7, <1>8, <2>1, <2>3
  <2>4. CASE j # 0 /\ spaces(j) # {} /\ spaces(k) = {}
    <3>1. CutSize(t, j) \in spaces(j) /\ CutSize(t, k) = target(k)
      BY <1>3, <1>8, <2>4
    <3>2. ~(CutSize(t, j) <= target(k))
      BY <1>4, <1>5, <2>4, <3>1
    <3>3. QED
      BY <1>7, <2>1, <3>1, <3>2
  <2>5. CASE j # 0 /\ spaces(j) # {} /\ spaces(k) # {}
    <3>1. CutSize(t, k) \in spaces(k)
      BY <1>3, <1>8, <2>5
    <3>2. CutSize(t, k) \in spaces(j)
      BY <1>4, <1>5, <2>1, <3>1
    <3>3. QED
      BY <1>3, <2>5, <3>2
  <2>6. QED
    BY <2>2, <2>3, <2>4, <2>5
<1>9. \A k \in 1 .. 3 : CutSize(t, k) > 0 => CutSize(t, k) < t.size
  <2>1. ASSUME NEW k \in 1 .. 3, CutSize(t, k) > 0 PROVE CutSize(t, k) < t.size
    <3>1. CutSize(t, k) <= target(k) /\ CutSize(t, k) \in Nat /\ target(k) \in Nat
      BY <1>2, <1>7
    <3>2. target(k) > 0
      BY <2>1, <3>1
    <3>3. target(k) < t.size
      BY <1>2, <3>2
    <3>4. QED
      BY <1>1, <3>1, <3>3
  <2>2. QED
    BY <2>1
<1>10. QED
  BY <1>3, <1>6, <1>7, <1>8, <1>9

LEMMA SentAppended ==
  ASSUME NEW h \in Seq(Sent), NEW e \in Sent, NEW g, g = Append(h, e)
  PROVE  /\ g \in Seq(Sent) /\ Len(h) \in Nat /\ Len(g) = Len(h) + 1 /\ g # <<>>
         /\ DOMAIN h = 1 .. Len(h) /\ DOMAIN g = 1 .. Len(h) + 1
         /\ g[Len(h) + 1] = e /\ \A k \in 1 .. Len(h) : g[k] = h[k]
BY AppendProperties, LenProperties

\* What is said of sends stays true when more follow.
LEMMA SendsKept ==
  ASSUME NEW h, NEW g, NEW k \in Nat, \A j \in 1 .. k : g[j] = h[j], NEW s \in 1 .. k, NEW r
  PROVE  /\ Tries(h, s, k) => Tries(g, s, k)
         /\ HonestSend(r, h, s, k) => HonestSend(r, g, s, k)
<1>1. Tries(h, s, k) => Tries(g, s, k)
  <2>1. g[k] = h[k] /\ \A j \in 1 .. s - 1 : g[j] = h[j]
    OBVIOUS
  <2>2. \A j \in s .. k : g[j] = h[j]
    OBVIOUS
  <2>3. QED
    BY <2>1, <2>2 DEF Tries
<1>2. HonestSend(r, h, s, k) => HonestSend(r, g, s, k)
  <2>1. g[k] = h[k] /\ g[s] = h[s]
    OBVIOUS
  <2>2. s # k => k - 1 \in 1 .. k
    OBVIOUS
  <2>3. s # k => g[k-1] = h[k-1]
    BY <2>2
  <2>4. QED
    BY <2>1, <2>3 DEF HonestSend
<1>3. QED
  BY <1>1, <1>2

\* One more send of the text that is on its way.
LEMMA TriesMore ==
  ASSUME NEW h \in Seq(Sent), NEW e \in Sent, NEW s \in 1 .. Len(h), Tries(h, s, Len(h)),
         e.item = h[Len(h)].item
  PROVE  Tries(Append(h, e), s, Len(h) + 1)
<1> DEFINE g == Append(h, e)
           n == Len(h)
<1>1. n \in Nat /\ g[n+1] = e /\ \A k \in 1 .. n : g[k] = h[k]
  BY SentAppended
<1> HIDE DEF g
<1>2. \A j \in s .. n : g[j].item = g[n+1].item
  <2> HIDE DEF n
  <2>1. ASSUME NEW j \in s .. n PROVE g[j].item = g[n+1].item
    <3>1. j \in 1 .. n /\ h[j].item = h[n].item
      BY <1>1 DEF Tries, n
    <3>2. QED
      BY <1>1, <3>1 DEF n
  <2>2. QED
    BY <2>1
<1>3. \A j \in 1 .. s - 1 : g[j].item # g[n+1].item
  <2>1. ASSUME NEW j \in 1 .. s - 1 PROVE g[j].item # g[n+1].item
    <3>1. j \in 1 .. n /\ h[j].item # h[n].item
      BY <1>1 DEF Tries
    <3>2. QED
      BY <1>1, <3>1
  <2>2. QED
    BY <2>1
<1>4. s \in 1 .. n + 1 /\ \A j \in s .. n + 1 : j \in s .. n \/ j = n + 1
  BY <1>1
<1>5. Tries(g, s, n + 1)
  <2> HIDE DEF n
  <2>1. QED
    BY <1>2, <1>3, <1>4 DEF Tries
<1>6. QED
  BY <1>5 DEF g

\* What is so of the sends g, the last of which is e of the text on its way.
Added(d, g, e) ==
  LET h == sends[d]  n == Len(h)
  IN  /\ e \in Sent /\ h \in Seq(Sent) /\ TextInv(d) /\ CurrentText(d) \in OllamaTexts
      /\ text[d].cut = 0 => Tries(g, n + 1, n + 1)
      /\ text[d].cut # 0 => \E s \in 1 .. n :
           /\ Tries(g, s, n + 1) /\ n - s < text[d].cut
           /\ h[s].reply \in {"down", "overflow"} /\ text[d].error = h[s].reply
      /\ \A k \in DOMAIN g : \E s \in 1 .. k : Tries(g, s, k) /\ HonestSend(Request(d), g, s, k)
      /\ \A k \in 1 .. Len(g) - 1 : g[k+1].item # g[k].item => g[k].reply = "ok"
      /\ \A k \in DOMAIN g : g[k].item <= text[d].item

\* What a reply to a text adds to what was sent is honest.
LEMMA SendIsHonest ==
  ASSUME CInv, TInv, NEW d \in Callers, pc[d] = "sent", OfOllama(d),
         NEW reply \in {"ok", "down", "overflow", "failed"}, NEW e, NEW g,
         e = [item |-> text[d].item, size |-> SentSize(d), reply |-> reply],
         g = Append(sends[d], e)
  PROVE  Added(d, g, e)
<1> DEFINE h == sends[d]
           n == Len(h)
           t == CurrentText(d)
           cut == text[d].cut
           r == Request(d)
<1>1. ~Refused(r) /\ r.texts \in Seq(OllamaTexts) /\ Embedded(d)
  BY TextOnItsWay
<1>2. TextInv(d) /\ h \in Seq(Sent)
  BY <1>1 DEF TInv, TextInv
<1>3. cut \in 0 .. Fractions /\ text[d].item \in Nat
  BY DEF CInv, OfCallers
<1>4. t \in OllamaTexts /\ t = r.texts[text[d].item]
  BY <1>1 DEF CurrentText, Embedded
<1>5. SentSize(d) = CutSize(t, cut) /\ CutSize(t, cut) \in Nat
  BY <1>3, <1>4, CutsShrink DEF SentSize
<1>6. e \in Sent /\ e.item = text[d].item /\ e.size = CutSize(t, cut)
  BY <1>3, <1>5 DEF Sent
<1>7. /\ g \in Seq(Sent) /\ n \in Nat /\ Len(g) = n + 1 /\ DOMAIN h = 1 .. n /\ DOMAIN g = 1 .. n + 1
      /\ g[n+1] = e /\ \A k \in 1 .. n : g[k] = h[k]
  BY <1>2, <1>6, SentAppended
<1>8. cut = 0 => FreshText(d)
  BY <1>2 DEF TextInv
<1>9. cut # 0 => CutText(d)
  BY <1>2 DEF TextInv
<1>10. \A k \in 1 .. n : h[k].item \in Nat /\ h[k].item <= text[d].item
  <2>1. \A k \in 1 .. n : h[k] \in Sent
    BY <1>2, <1>7
  <2>2. \A k \in 1 .. n : h[k].item \in Nat
    BY <2>1 DEF Sent
  <2>3. \A k \in DOMAIN h : h[k].item <= text[d].item
    BY <1>2 DEF TextInv
  <2>4. QED
    BY <1>7, <2>2, <2>3
<1>11. cut = 0 => Tries(g, n + 1, n + 1)
  <2>1. SUFFICES ASSUME cut = 0 PROVE Tries(g, n + 1, n + 1)
    OBVIOUS
  <2>2. \A k \in 1 .. n : h[k].item < text[d].item
    BY <1>7, <1>8, <2>1 DEF FreshText
  <2>3. \A k \in 1 .. n : g[k].item # g[n+1].item
    BY <1>3, <1>6, <1>7, <1>10, <2>2
  <2> HIDE DEF n
  <2>4. QED
    BY <1>7, <2>3 DEF Tries
<1>12. cut # 0 => \E s \in 1 .. n :
          /\ Tries(g, s, n + 1) /\ n - s < cut
          /\ h[s].reply \in {"down", "overflow"} /\ text[d].error = h[s].reply
  <2>1. SUFFICES ASSUME cut # 0
                 PROVE \E s \in 1 .. n :
                        /\ Tries(g, s, n + 1) /\ n - s < cut
                        /\ h[s].reply \in {"down", "overflow"} /\ text[d].error = h[s].reply
    OBVIOUS
  <2>2. PICK s \in 1 .. n : /\ Tries(h, s, n) /\ n - s < cut
                            /\ h[s].reply \in {"down", "overflow"} /\ text[d].error = h[s].reply
    BY <1>9, <2>1 DEF CutText
  <2>3. e.item = h[n].item
    BY <1>6, <1>9, <2>1 DEF CutText
  <2>4. Tries(g, s, n + 1)
    BY <1>2, <1>6, <2>2, <2>3, TriesMore
  <2>5. QED
    BY <2>2, <2>4
<1>13. \E s \in 1 .. n + 1 : Tries(g, s, n + 1) /\ HonestSend(r, g, s, n + 1)
  <2>1. CASE cut = 0
    <3>1. HonestSend(r, g, n + 1, n + 1)
      <4>1. g[n+1].item = text[d].item /\ g[n+1].size = t.size
        BY <1>4, <1>6, <1>7, <2>1, CutsShrink
      <4> HIDE DEF n, t
      <4>2. QED
        BY <1>4, <4>1 DEF HonestSend
    <3>2. QED
      BY <1>7, <1>11, <2>1, <3>1
  <2>2. CASE cut # 0
    <3>1. PICK s \in 1 .. n : /\ Tries(g, s, n + 1) /\ n - s < cut
                              /\ h[s].reply \in {"down", "overflow"} /\ text[d].error = h[s].reply
      BY <1>12, <2>2
    <3>2. /\ h[n].reply # "ok" /\ r.truncates /\ CutSize(t, cut) > 0
          /\ \E j \in 0 .. cut - 1 : h[n].size = CutSize(t, j)
      BY <1>9, <2>2 DEF CutText
    <3>3. cut \in 1 .. Fractions /\ Fractions = 3
      BY <1>3, <2>2 DEF Fractions
    <3>4. CutSize(t, cut) < t.size /\ CutSize(t, cut) <= h[n].size /\ t.size \in Nat
      <4>1. CutSize(t, cut) < t.size
        BY <1>4, <3>2, <3>3, CutsShrink
      <4>2. PICK j \in 0 .. cut - 1 : h[n].size = CutSize(t, j)
        BY <3>2
      <4>3. j \in 0 .. Fractions /\ cut \in 0 .. Fractions /\ j <= cut
        BY <3>3
      <4>4. CutSize(t, cut) <= CutSize(t, j)
        BY <1>4, <4>3, CutsShrink
      <4>5. t.size \in Nat
        BY <1>4 DEF OllamaTexts
      <4>6. QED
        BY <4>1, <4>2, <4>4, <4>5
    <3>5. g[n+1].size \in 1 .. t.size - 1 /\ g[n+1].size <= g[n].size
      BY <1>5, <1>6, <1>7, <3>1, <3>2, <3>4
    <3>6. g[s].reply \in {"down", "overflow"} /\ g[n].reply # "ok" /\ n + 1 - s <= Fractions /\ s # n + 1
      BY <1>7, <3>1, <3>2, <3>3
    <3>7. r.texts[g[n+1].item].size = t.size
      BY <1>4, <1>6, <1>7
    <3>8. HonestSend(r, g, s, n + 1)
      <4> DEFINE m == n + 1
      <4>1. n = m - 1
        BY <1>7
      <4> HIDE DEF m, t
      <4>2. HonestSend(r, g, s, m)
        BY <3>2, <3>5, <3>6, <3>7, <4>1 DEF HonestSend, m
      <4>3. QED
        BY <4>2 DEF m
    <3>9. QED
      BY <1>7, <3>1, <3>8
  <2>3. QED
    BY <2>1, <2>2
<1>14. ASSUME NEW k \in DOMAIN g
       PROVE  \E s \in 1 .. k : Tries(g, s, k) /\ HonestSend(r, g, s, k)
  <2>1. CASE k = n + 1
    BY <1>13, <2>1
  <2>2. CASE k \in 1 .. n
    <3>1. PICK s \in 1 .. k : Tries(h, s, k) /\ HonestSend(r, h, s, k)
      BY <1>2, <1>7, <2>2 DEF TextInv
    <3>2. k \in Nat /\ \A j \in 1 .. k : g[j] = h[j]
      BY <1>7, <2>2
    <3>3. QED
      BY <3>1, <3>2, SendsKept
  <2>3. QED
    BY <1>7, <2>1, <2>2
<1>15. ASSUME NEW k \in 1 .. Len(g) - 1, g[k+1].item # g[k].item PROVE g[k].reply = "ok"
  <2>1. CASE k = n
    <3>1. cut = 0
      BY <1>6, <1>7, <1>9, <1>15, <2>1 DEF CutText
    <3>2. h # <<>>
      BY <1>7, <1>15, <2>1
    <3>3. h[n].reply = "ok"
      BY <1>8, <3>1, <3>2 DEF FreshText
    <3>4. QED
      BY <1>7, <1>15, <2>1, <3>3
  <2>2. CASE k # n
    <3>1. k \in 1 .. n - 1 /\ k \in 1 .. n /\ k + 1 \in 1 .. n
      BY <1>7, <2>2
    <3>2. h[k+1].item # h[k].item
      BY <1>7, <1>15, <3>1
    <3>3. QED
      BY <1>2, <1>7, <3>1, <3>2 DEF TextInv
  <2>3. QED
    BY <2>1, <2>2
<1>16. \A k \in DOMAIN g : g[k].item <= text[d].item
  BY <1>3, <1>6, <1>7, <1>10
<1>17. QED
  BY <1>2, <1>4, <1>6, <1>11, <1>12, <1>14, <1>15, <1>16 DEF Added

\* The next text, or none, after one that is embedded.
LEMMA EmbeddedHonest ==
  ASSUME CInv, TInv, NEW d \in Callers, NEW empty, NEW tokens, TextEmbedded(d, empty, tokens),
         ~Refused(Request(d))
  PROVE  TextInv(d)'
<1> DEFINE e == [item |-> text[d].item, size |-> SentSize(d), reply |-> "ok"]
           h == sends[d]
           g == Append(h, e)
           n == Len(h)
           last == text[d].item = Len(Request(d).texts)
<1>1. /\ pc[d] = "sent" /\ OfOllama(d) /\ load' = load
      /\ pc' = [pc EXCEPT ![d] = IF last THEN "ended" ELSE "build"]
      /\ back' = [back EXCEPT ![d] =
           [outcome |-> IF last THEN "ok" ELSE "none",
            result |-> Append(back[d].result, IF empty THEN NoVector ELSE text[d].item)]]
      /\ text' = [text EXCEPT ![d] =
           IF last THEN @ ELSE [item |-> text[d].item + 1, cut |-> 0, error |-> "none"]]
      /\ sends' = [sends EXCEPT ![d] = Append(@, e)]
  BY DEF TextEmbedded, TextReply
<1>2. /\ pc'[d] = (IF last THEN "ended" ELSE "build") /\ sends'[d] = g
      /\ back'[d].outcome # "error"
      /\ text'[d] = IF last THEN text[d] ELSE [item |-> text[d].item + 1, cut |-> 0, error |-> "none"]
  BY <1>1 DEF CInv, OfCallers
<1>3. Callers' = Callers /\ Request(d)' = Request(d)
  BY <1>1 DEF Callers, Request
<1>4. /\ e \in Sent /\ h \in Seq(Sent) /\ TextInv(d)
      /\ \A k \in DOMAIN g : \E s \in 1 .. k : Tries(g, s, k) /\ HonestSend(Request(d), g, s, k)
      /\ \A k \in 1 .. Len(g) - 1 : g[k+1].item # g[k].item => g[k].reply = "ok"
      /\ \A k \in DOMAIN g : g[k].item <= text[d].item
  <2>1. e = [item |-> text[d].item, size |-> SentSize(d), reply |-> "ok"]
    OBVIOUS
  <2>2. g = Append(sends[d], e)
    OBVIOUS
  <2> HIDE DEF e, g
  <2>3. "ok" \in {"ok", "down", "overflow", "failed"}
    OBVIOUS
  <2>4. Added(d, g, e)
    BY <1>1, <2>1, <2>2, <2>3, SendIsHonest, Zenon
  <2>5. QED
    BY <2>4 DEF Added, h
<1>5. /\ g \in Seq(Sent) /\ n \in Nat /\ Len(g) = n + 1 /\ g # <<>>
      /\ DOMAIN g = 1 .. n + 1 /\ g[n+1] = e /\ e.reply = "ok"
  <2>1. e.reply = "ok"
    OBVIOUS
  <2> HIDE DEF e
  <2>2. QED
    BY <1>4, <2>1, SentAppended
<1>6. text[d].item \in Nat /\ \A k \in DOMAIN g : g[k].item \in Nat
  <2>1. \A k \in DOMAIN g : g[k] \in Sent
    <3> HIDE DEF g
    <3>1. QED
      BY <1>5
  <2>2. \A k \in DOMAIN g : g[k].item \in Nat
    <3> HIDE DEF g
    <3>1. QED
      BY <2>1 DEF Sent
  <2>3. text[d].item \in Nat
    BY DEF CInv, OfCallers
  <2>4. QED
    BY <2>2, <2>3
<1> HIDE DEF g, h, e
<1>7. \A k \in DOMAIN g : g[k].item <= text'[d].item
  BY <1>2, <1>4, <1>6
<1>8. CASE last
  BY <1>2, <1>3, <1>4, <1>5, <1>7, <1>8 DEF TextInv
<1>9. CASE ~last
  <2>1. text'[d].cut = 0 /\ text'[d].item = text[d].item + 1
    BY <1>2, <1>9
  <2>2. \A k \in DOMAIN g : g[k].item < text'[d].item
    BY <1>4, <1>6, <2>1
  <2>3. FreshText(d)'
    BY <1>2, <1>5, <2>2 DEF FreshText
  <2> HIDE DEF last
  <2>4. QED
    BY <1>2, <1>3, <1>4, <1>5, <1>7, <2>1, <2>3 DEF TextInv
<1>10. QED
  BY <1>8, <1>9

\* The next piece of the text, or the error, after a text that failed.
LEMMA FailedHonest ==
  ASSUME CInv, TInv, NEW d \in Callers, NEW reply \in {"down", "overflow", "failed"},
         TextFailed(d, reply), ~Refused(Request(d))
  PROVE  TextInv(d)'
<1> DEFINE e == [item |-> text[d].item, size |-> SentSize(d), reply |-> reply]
           h == sends[d]
           g == Append(h, e)
           n == Len(h)
           t == CurrentText(d)
           cut == text[d].cut
           r == Request(d)
           next == NextCut(t, cut)
<1>1. /\ pc[d] = "sent" /\ OfOllama(d) /\ load' = load
      /\ sends' = [sends EXCEPT ![d] = Append(@, e)]
  BY DEF TextFailed, TextReply
<1>2. sends'[d] = g
  BY <1>1 DEF CInv, OfCallers
<1>3. Callers' = Callers /\ Request(d)' = r
  BY <1>1 DEF Callers, Request
<1>4. /\ e \in Sent /\ h \in Seq(Sent) /\ TextInv(d) /\ t \in OllamaTexts
      /\ cut = 0 => Tries(g, n + 1, n + 1)
      /\ cut # 0 => \E s \in 1 .. n :
           /\ Tries(g, s, n + 1) /\ n - s < cut
           /\ h[s].reply \in {"down", "overflow"} /\ text[d].error = h[s].reply
      /\ \A k \in DOMAIN g : \E s \in 1 .. k : Tries(g, s, k) /\ HonestSend(r, g, s, k)
      /\ \A k \in 1 .. Len(g) - 1 : g[k+1].item # g[k].item => g[k].reply = "ok"
      /\ \A k \in DOMAIN g : g[k].item <= text[d].item
  <2>1. e = [item |-> text[d].item, size |-> SentSize(d), reply |-> reply]
    OBVIOUS
  <2>2. reply \in {"ok", "down", "overflow", "failed"}
    OBVIOUS
  <2>3. g = Append(sends[d], e)
    OBVIOUS
  <2> HIDE DEF e, g
  <2>4. Added(d, g, e)
    BY <1>1, <2>1, <2>2, <2>3, SendIsHonest, Zenon
  <2>5. QED
    BY <2>4 DEF Added
<1>5. /\ e.reply = reply /\ e.item = text[d].item /\ e.size = CutSize(t, cut)
  BY DEF SentSize
<1>6. cut \in 0 .. Fractions /\ text[d].item \in Nat
  BY DEF CInv, OfCallers
<1>7. t = r.texts[text[d].item]
  BY DEF CurrentText
<1>8. cut # 0 => CutText(d)
  <2>1. TextInv(d) /\ pc[d] = "sent"
    BY <1>1, <1>4
  <2>2. QED
    BY <2>1 DEF TextInv
<1> HIDE DEF e
<1>9. /\ g \in Seq(Sent) /\ n \in Nat /\ Len(g) = n + 1 /\ g # <<>>
      /\ DOMAIN g = 1 .. n + 1 /\ g[n+1] = e /\ \A k \in 1 .. n : g[k] = h[k]
  BY <1>4, SentAppended
<1>10. /\ next \in 0 .. Fractions
       /\ next # 0 => next > cut /\ CutSize(t, next) > 0
       /\ next = 0 => \A j \in cut + 1 .. Fractions : ~(CutSize(t, j) > 0)
  BY <1>6, NextCutIsFirst
<1>11. /\ \A k \in 0 .. Fractions : CutSize(t, k) \in Nat
       /\ \A j, k \in 0 .. Fractions : j <= k => CutSize(t, k) <= CutSize(t, j)
  BY <1>4, CutsShrink
<1>12. text[d] \in [item : Nat, cut : 0 .. Fractions, error : Errors]
  BY DEF CInv, OfCallers
<1>13. Fractions = 3
  BY DEF Fractions
<1>14. CASE Retries(d, reply)
  <2>1. /\ text' = [text EXCEPT ![d] = [text[d] EXCEPT !.cut = next, !.error = KeptError(d, reply)]]
        /\ pc' = [pc EXCEPT ![d] = "build"] /\ back' = back
    BY <1>14, Zenon DEF TextFailed
  <2>2. next # 0 /\ (cut = 0 => r.truncates /\ reply \in {"down", "overflow"})
    BY <1>14 DEF Retries
  <2>3. /\ text'[d].item = text[d].item /\ text'[d].cut = next /\ text'[d].error = KeptError(d, reply)
        /\ pc'[d] = "build" /\ back'[d].outcome # "error"
    <3>1. text'[d] = [text[d] EXCEPT !.cut = next, !.error = KeptError(d, reply)]
      BY <2>1 DEF CInv, OfCallers
    <3>2. pc'[d] = "build" /\ back'[d].outcome = "none"
      BY <1>1, <2>1 DEF CInv, OfCallers, CallInv
    <3> HIDE DEF next
    <3>3. QED
      BY <1>12, <3>1, <3>2
  <2>4. CurrentText(d)' = t
    BY <1>3, <1>7, <2>3 DEF CurrentText
  <2> DEFINE At(s) == /\ Tries(g, s, n + 1) /\ n + 1 - s < next
                      /\ g[s].reply \in {"down", "overflow"} /\ text'[d].error = g[s].reply
  <2>5. r.truncates /\ \E s \in 1 .. n + 1 : At(s)
    <3>1. CASE cut = 0
      <4>1. KeptError(d, reply) = reply
        BY <3>1 DEF KeptError
      <4> HIDE DEF g, h, next
      <4>2. At(n + 1)
        BY <1>4, <1>5, <1>9, <1>10, <2>2, <2>3, <3>1, <4>1
      <4> HIDE DEF At
      <4>3. QED
        BY <1>9, <2>2, <3>1, <4>2
    <3>2. CASE cut # 0
      <4>1. KeptError(d, reply) = text[d].error
        BY <3>2 DEF KeptError
      <4>2. r.truncates
        BY <1>8, <3>2 DEF CutText
      <4> HIDE DEF g, h, next, n
      <4>3. PICK s \in 1 .. n : /\ Tries(g, s, n + 1) /\ n - s < cut
                                /\ h[s].reply \in {"down", "overflow"} /\ text[d].error = h[s].reply
        BY <1>4, <3>2
      <4>4. At(s)
        BY <1>6, <1>9, <1>10, <2>2, <2>3, <4>1, <4>3
      <4> HIDE DEF At
      <4>5. QED
        BY <1>9, <4>2, <4>3, <4>4
    <3>3. QED
      BY <3>1, <3>2
  <2>6. CutText(d)'
    <3>1. g[n+1].item = text'[d].item /\ g[n+1].reply # "ok" /\ g[n+1].size = CutSize(t, cut)
      BY <1>5, <1>9, <2>3
    <3>2. cut \in 0 .. next - 1 /\ CutSize(t, next) > 0
      BY <1>6, <1>10, <2>2
    <3>3. Len(sends'[d]) = n + 1
      BY <1>2, <1>9
    <3> HIDE DEF g, h, next, n, t, cut
    <3>4. QED
      BY <1>2, <1>3, <1>9, <2>3, <2>4, <2>5, <3>1, <3>2, <3>3 DEF CutText
  <2>7. QED
    <3> HIDE DEF g, h, n, t, cut
    <3>1. \A k \in DOMAIN g : g[k].item <= text'[d].item
      BY <1>4, <2>3
    <3>2. text'[d].cut # 0
      BY <2>2, <2>3
    <3> HIDE DEF next
    <3>3. QED
      BY <1>2, <1>3, <1>4, <1>9, <2>3, <2>6, <3>1, <3>2 DEF TextInv
<1>15. CASE ~Retries(d, reply)
  <2>1. /\ text' = [text EXCEPT ![d].error = KeptError(d, reply)]
        /\ pc' = [pc EXCEPT ![d] = "ended"]
    BY <1>15 DEF TextFailed, Fail, Return
  <2>2. /\ text'[d].item = text[d].item /\ text'[d].error = KeptError(d, reply) /\ pc'[d] = "ended"
    <3>1. text'[d] = [text[d] EXCEPT !.error = KeptError(d, reply)] /\ pc'[d] = "ended"
      BY <2>1 DEF CInv, OfCallers
    <3>2. QED
      BY <1>12, <3>1
  <2> DEFINE Smallest == \A k \in 0 .. Fractions : CutSize(t, k) > 0 => CutSize(t, cut) <= CutSize(t, k)
  <2>3. next = 0 => Smallest
    <3>1. SUFFICES ASSUME next = 0, NEW k \in 0 .. Fractions, CutSize(t, k) > 0
                   PROVE  CutSize(t, cut) <= CutSize(t, k)
      OBVIOUS
    <3>2. ~(k \in cut + 1 .. Fractions)
      BY <1>10, <3>1
    <3>3. k <= cut
      BY <1>6, <1>13, <3>2
    <3>4. QED
      BY <1>6, <1>11, <3>3
  <2>4. PICK s \in 1 .. n + 1 : /\ Tries(g, s, n + 1) /\ text'[d].error = g[s].reply
                                /\ r.truncates /\ g[s].reply # "failed" => Smallest
    <3>1. CASE cut = 0
      <4>1. KeptError(d, reply) = reply
        BY <3>1 DEF KeptError
      <4>2. r.truncates /\ reply # "failed" => next = 0
        BY <1>15, <3>1 DEF Retries
      <4> HIDE DEF g, h, next, n, Smallest
      <4>3. QED
        BY <1>4, <1>5, <1>9, <2>2, <2>3, <3>1, <4>1, <4>2
    <3>2. CASE cut # 0
      <4>1. KeptError(d, reply) = text[d].error
        BY <3>2 DEF KeptError
      <4>2. next = 0
        BY <1>15, <3>2 DEF Retries
      <4> HIDE DEF g, h, next, n, Smallest
      <4>3. PICK s \in 1 .. n : Tries(g, s, n + 1) /\ text[d].error = h[s].reply
        BY <1>4, <3>2
      <4>4. QED
        BY <1>9, <2>2, <2>3, <4>1, <4>2, <4>3
    <3>3. QED
      BY <3>1, <3>2
  <2>5. HonestError(d)'
    <3>1. Len(sends'[d]) = n + 1 /\ r.texts[g[n+1].item] = t /\ g[n+1].size = CutSize(t, cut)
      BY <1>2, <1>5, <1>7, <1>9
    <3> HIDE DEF g, h, n, t, cut
    <3>2. QED
      BY <1>2, <1>3, <2>4, <3>1 DEF HonestError
  <2>6. QED
    <3> HIDE DEF g, h, n, t, cut
    <3>1. \A k \in DOMAIN g : g[k].item <= text'[d].item
      BY <1>4, <2>2
    <3>2. QED
      BY <1>2, <1>3, <1>4, <1>9, <2>2, <2>5, <3>1 DEF TextInv
<1>16. QED
  BY <1>14, <1>15

\* What a text's step, or that of another call, changes of the others.
Others(d) ==
  /\ load' = load
  /\ \A c \in Callers \ {d} :
       pc'[c] = pc[c] /\ text'[c] = text[c] /\ sends'[c] = sends[c] /\ back'[c] = back[c]

LEMMA StepsOfOthers ==
  ASSUME CInv, NEW d \in Callers, OtherStep(d) \/ ChatStep(d) PROVE Others(d)
<1>1. CASE Refuse(d) \/ EmptyBatch(d) \/ SendOnce(d) \/ SendFailed(d) \/ SendText(d)
  BY <1>1 DEF Refuse, EmptyBatch, SendOnce, SendFailed, SendText, Fail, Return, CInv, OfCallers, Others
<1>2. CASE ChatStep(d)
  BY <1>2 DEF ChatStep, BuildChat, ChatAnswered, Fail, Return, CInv, OfCallers, Others
<1>3. CASE EmbedStep(d)
  BY <1>3 DEF EmbedStep, EmbeddedByOpenAI, EmbeddedByVoyage, EmbeddedByGemini, Rerank,
              Received, Fail, Return, CInv, OfCallers, Others
<1>4. CASE DecideStep(d)
  BY <1>4 DEF DecideStep, Decide, Received, Fail, Return, CInv, OfCallers, Others
<1>5. ASSUME NEW reply, TextFailed(d, reply) PROVE Others(d)
  <2>1. /\ load' = load /\ \A c \in Callers \ {d} : sends'[c] = sends[c]
    BY <1>5 DEF TextFailed, TextReply, CInv, OfCallers
  <2>2. \A c \in Callers \ {d} : pc'[c] = pc[c] /\ text'[c] = text[c] /\ back'[c] = back[c]
    <3>1. CASE Retries(d, reply)
      <4>1. /\ text' = [text EXCEPT ![d] = [text[d] EXCEPT !.cut = NextCut(CurrentText(d), text[d].cut),
                                                        !.error = KeptError(d, reply)]]
            /\ pc' = [pc EXCEPT ![d] = "build"] /\ back' = back
        BY <1>5, <3>1, Zenon DEF TextFailed
      <4>2. QED
        BY <4>1 DEF CInv, OfCallers
    <3>2. CASE ~Retries(d, reply)
      BY <1>5, <3>2 DEF TextFailed, Fail, Return, CInv, OfCallers
    <3>3. QED
      BY <3>1, <3>2
  <2>3. QED
    BY <2>1, <2>2 DEF Others
<1>6. ASSUME NEW empty, NEW tokens, TextEmbedded(d, empty, tokens) PROVE Others(d)
  BY <1>6 DEF TextEmbedded, TextReply, CInv, OfCallers, Others
<1>7. QED
  BY <1>1, <1>2, <1>3, <1>4, <1>5, <1>6 DEF OtherStep, TextStep

\* A call whose sends, text and place stay.
LEMMA TextInvKept ==
  ASSUME load' = load, NEW c, text'[c] = text[c], sends'[c] = sends[c], TextInv(c),
         pc'[c] = "ended" \/ pc[c] # "ended",
         back'[c].outcome = "error" => back[c].outcome = "error"
  PROVE  TextInv(c)'
<1>1. Request(c)' = Request(c) /\ CurrentText(c)' = CurrentText(c)
  BY DEF Request, CurrentText
<1>2. FreshText(c) => FreshText(c)'
  BY DEF FreshText
<1>3. CutText(c) => CutText(c)'
  BY <1>1 DEF CutText
<1>4. HonestError(c) => HonestError(c)'
  BY <1>1 DEF HonestError
<1>5. QED
  BY <1>1, <1>2, <1>3, <1>4 DEF TextInv

LEMMA StepTInv ==
  ASSUME CInv, TInv, NEW d \in Callers, OtherStep(d) \/ ChatStep(d) PROVE TInv'
<1>1. Others(d)
  BY StepsOfOthers
<1>2. /\ Callers' = Callers /\ (\A c : Request(c)' = Request(c)) /\ (\A c : OfOllama(c)' = OfOllama(c))
      /\ \A c : Refused(Request(c))' = Refused(Request(c))
  BY <1>1 DEF Others, Callers, Request, OfOllama, Refused
<1>3. ASSUME NEW c \in Callers \ {d}, OfOllama(c), ~Refused(Request(c)) PROVE TextInv(c)'
  <2>1. /\ load' = load /\ text'[c] = text[c] /\ sends'[c] = sends[c]
        /\ pc'[c] = pc[c] /\ back'[c] = back[c]
    BY <1>1 DEF Others
  <2>2. TextInv(c)
    BY <1>3 DEF TInv
  <2>3. QED
    BY <2>1, <2>2, TextInvKept
<1>4. ASSUME OfOllama(d), ~Refused(Request(d)) PROVE TextInv(d)'
  <2>1. TextInv(d) /\ ~IsChat(d) /\ Request(d).provider = "ollama" /\ CallInv(d)
    BY <1>4, NoChatOfOllama DEF TInv, OfOllama, CInv
  <2>2. CASE SendText(d) \/ EmptyBatch(d)
    <3>1. /\ load' = load /\ text' = text /\ sends' = sends /\ pc[d] = "build"
          /\ back'[d].outcome = "error" => back[d].outcome = "error"
      BY <2>2 DEF SendText, EmptyBatch, Return, CInv, OfCallers
    <3>2. QED
      BY <2>1, <3>1, TextInvKept
  <2>3. ASSUME NEW reply \in {"down", "overflow", "failed"}, TextFailed(d, reply) PROVE TextInv(d)'
    BY <1>4, <2>3, FailedHonest
  <2>4. ASSUME NEW empty, NEW tokens, TextEmbedded(d, empty, tokens) PROVE TextInv(d)'
    BY <1>4, <2>4, EmbeddedHonest
  <2>5. ~Refuse(d) /\ ~SendOnce(d) /\ ~SendFailed(d) /\ ~EmbedStep(d) /\ ~DecideStep(d) /\ ~ChatStep(d)
    BY <1>4, <2>1 DEF Refuse, SendOnce, SendFailed, SentOnce, EmbedStep, DecideStep, ChatStep,
                      BuildChat, ChatAnswered
  <2>6. QED
    BY <2>2, <2>3, <2>4, <2>5 DEF OtherStep, TextStep
<1>5. QED
  BY <1>2, <1>3, <1>4 DEF TInv

LEMMA NextTInv == CInv /\ TInv /\ [Next]_vars => TInv'
<1>1. SUFFICES ASSUME CInv, TInv, [Next]_vars PROVE TInv'
  OBVIOUS
<1>2. CASE UNCHANGED vars
  <2>1. Callers' = Callers /\ \A c : Request(c)' = Request(c) /\ OfOllama(c)' = OfOllama(c)
                                     /\ Refused(Request(c))' = Refused(Request(c))
    BY <1>2 DEF vars, Callers, Request, OfOllama, Refused
  <2>2. load' = load /\ text' = text /\ sends' = sends /\ pc' = pc /\ back' = back
    BY <1>2 DEF vars
  <2>3. \A c \in Callers : TextInv(c) => TextInv(c)'
    BY <2>2, TextInvKept
  <2>4. QED
    BY <1>1, <2>1, <2>3 DEF TInv
<1>3. CASE Next
  <2>1. CASE Ended
    BY <1>2, <2>1 DEF Ended
  <2>2. ASSUME NEW d \in Callers, OtherStep(d) \/ ChatStep(d) PROVE TInv'
    BY <1>1, <2>2, StepTInv
  <2>3. QED
    BY <1>3, <2>1, <2>2 DEF Next, OtherStep
<1>4. QED
  BY <1>1, <1>2, <1>3

\* The send from which those of a text are counted is the first.
LEMMA FirstTry ==
  ASSUME NEW h, NEW k \in Nat, NEW s \in 1 .. k, Tries(h, s, k)
  PROVE  LET first(i) == \A j \in 1 .. i - 1 : h[j].item # h[i].item
         IN  /\ first(k) <=> s = k
             /\ s # k => h[k-1].item = h[k].item
             /\ (CHOOSE j \in 1 .. k : h[j].item = h[k].item /\ first(j)) = s
<1> DEFINE first(i) == \A j \in 1 .. i - 1 : h[j].item # h[i].item
<1>1. h[s].item = h[k].item /\ first(s)
  <2>1. h[s].item = h[k].item
    BY DEF Tries
  <2>2. QED
    BY <2>1 DEF Tries
<1>2. ASSUME NEW j \in 1 .. k, h[j].item = h[k].item, j # s PROVE ~first(j)
  <2>1. ~(j \in 1 .. s - 1)
    BY <1>2 DEF Tries
  <2>2. s \in 1 .. j - 1
    BY <1>2, <2>1
  <2>3. QED
    BY <1>1, <1>2, <2>2
<1>3. k \in 1 .. k
  OBVIOUS
<1>4. first(k) <=> s = k
  BY <1>1, <1>2, <1>3
<1>5. s # k => h[k-1].item = h[k].item
  <2>1. s # k => k - 1 \in s .. k
    OBVIOUS
  <2>2. QED
    BY <2>1 DEF Tries
<1>6. (CHOOSE j \in 1 .. k : h[j].item = h[k].item /\ first(j)) = s
  <2> DEFINE Is(j) == h[j].item = h[k].item /\ first(j)
  <2>1. Is(s) /\ \A j \in 1 .. k : Is(j) => j = s
    BY <1>1, <1>2
  <2> HIDE DEF Is
  <2>2. (CHOOSE j \in 1 .. k : Is(j)) = s
    BY <2>1
  <2>3. QED
    BY <2>2 DEF Is
<1>7. QED
  BY <1>4, <1>5, <1>6

LEMMA TInvHonest == TInv => TruncationHonest
<1>1. SUFFICES ASSUME TInv, NEW c \in Callers, OfOllama(c), ~Refused(Request(c))
      PROVE
    LET h == sends[c]
        first(k) == \A j \in 1 .. k - 1 : h[j].item # h[k].item
        whole(k) == CHOOSE j \in 1 .. k : h[j].item = h[k].item /\ first(j)
    IN  /\ \A k \in DOMAIN h :
             LET size == Request(c).texts[h[k].item].size
             IN  IF first(k) THEN h[k].size = size
                 ELSE /\ h[k-1].item = h[k].item /\ h[k-1].reply # "ok"
                      /\ h[k].size \in 1 .. size - 1 /\ h[k].size <= h[k-1].size
                      /\ Request(c).truncates /\ h[whole(k)].reply \in {"down", "overflow"}
                      /\ k - whole(k) <= Fractions
        /\ back[c].outcome = "error" =>
             LET last == Len(h)  start == whole(last)
             IN  /\ text[c].error = h[start].reply
                 /\ \A k \in 1 .. start - 1 : (h[k+1].item # h[k].item) => (h[k].reply = "ok")
                 /\ Request(c).truncates /\ h[start].reply # "failed" =>
                      \A k \in 0 .. Fractions :
                        LET size == CutSize(Request(c).texts[h[last].item], k)
                        IN  size > 0 => h[last].size <= size
  BY Zenon DEF TruncationHonest
<1> DEFINE h == sends[c]
           n == Len(h)
           r == Request(c)
           first(k) == \A j \in 1 .. k - 1 : h[j].item # h[k].item
           whole(k) == CHOOSE j \in 1 .. k : h[j].item = h[k].item /\ first(j)
<1>2. TextInv(c)
  BY <1>1 DEF TInv
<1>3. n \in Nat /\ DOMAIN h = 1 .. n
  BY <1>2 DEF TextInv
<1>4. \A k \in Nat : \A s \in 1 .. k : Tries(h, s, k) =>
        (first(k) <=> s = k) /\ (s # k => h[k-1].item = h[k].item) /\ whole(k) = s
  BY FirstTry
<1>5. ASSUME NEW k \in DOMAIN h
      PROVE  LET size == r.texts[h[k].item].size
             IN  IF first(k) THEN h[k].size = size
                 ELSE /\ h[k-1].item = h[k].item /\ h[k-1].reply # "ok"
                      /\ h[k].size \in 1 .. size - 1 /\ h[k].size <= h[k-1].size
                      /\ r.truncates /\ h[whole(k)].reply \in {"down", "overflow"}
                      /\ k - whole(k) <= Fractions
  <2>1. PICK s \in 1 .. k : Tries(h, s, k) /\ HonestSend(r, h, s, k)
    BY <1>2 DEF TextInv
  <2> HIDE DEF first, whole, h
  <2>2. (first(k) <=> s = k) /\ (s # k => h[k-1].item = h[k].item) /\ whole(k) = s
    <3>1. k \in Nat
      BY <1>3
    <3>2. QED
      BY <1>4, <2>1, <3>1
  <2>3. QED
    BY <2>1, <2>2 DEF HonestSend
<1>6. ASSUME back[c].outcome = "error"
      PROVE  /\ text[c].error = h[whole(n)].reply
             /\ \A k \in 1 .. whole(n) - 1 : (h[k+1].item # h[k].item) => (h[k].reply = "ok")
             /\ r.truncates /\ h[whole(n)].reply # "failed" =>
                  \A k \in 0 .. Fractions :
                    LET size == CutSize(r.texts[h[n].item], k)
                    IN  size > 0 => h[n].size <= size
  <2>1. HonestError(c) /\ \A k \in 1 .. n - 1 : h[k+1].item # h[k].item => h[k].reply = "ok"
    BY <1>2, <1>6 DEF TextInv
  <2>2. PICK s \in 1 .. n :
          /\ Tries(h, s, n) /\ text[c].error = h[s].reply
          /\ r.truncates /\ h[s].reply # "failed" =>
               \A k \in 0 .. Fractions :
                 LET size == CutSize(r.texts[h[n].item], k)
                 IN  size > 0 => h[n].size <= size
    BY <2>1 DEF HonestError
  <2>3. \A k \in 1 .. s - 1 : k \in 1 .. n - 1
    BY <1>3
  <2> HIDE DEF first, whole, h, n
  <2>4. whole(n) = s
    BY <1>3, <1>4, <2>2
  <2>5. QED
    BY <2>1, <2>2, <2>3, <2>4
<1>7. QED
  BY <1>5, <1>6

\* A text is sent whole and then, where the client allows it, in ever shorter pieces,
\* however many texts there are, wherever their spaces and whatever fails; the error
\* that is reported is that of the whole text, and no piece was left to try.
THEOREM TruncationAlwaysHonest == Spec => []TruncationHonest
<1>1. Init => CInv /\ TInv
  BY InitCInv, InitTInv
<1>2. CInv /\ TInv /\ [Next]_vars => CInv' /\ TInv'
  BY NextCInv, NextTInv
<1>3. QED
  BY <1>1, <1>2, TInvHonest, PTL DEF Spec
=============================================================================
