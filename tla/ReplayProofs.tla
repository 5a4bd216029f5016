---------------------------- MODULE ReplayProofs ----------------------------
(***************************************************************************)
(* Theorems about Replay, for every answer and every conversation that     *)
(* goes on with it.  The wire form of a conversation only grows at its end *)
(* when messages are appended; the results of the answer's calls are told  *)
(* in the order of the calls, each as the result of its own, and directly  *)
(* after them; and every target is told what was said: what is seen of the *)
(* parts on the wire, text, calls, results or media, is what is seen of    *)
(* the blocks of the messages (Kept), and it does not depend on how the    *)
(* answer was merged (Mergeable).                                          *)
(***************************************************************************)
EXTENDS Replay, AssemblyProofs

-----------------------------------------------------------------------------
(* The conversation that goes on with the answer *)

GeminiInto(m, a) == GeminiMessage(a, m)

Geminis == INSTANCE FoldLemmas WITH Op <- GeminiInto, Base <- Nothing, Choice <- Greatest

LEMMA SeqWider ==
  ASSUME NEW A, NEW B, A \subseteq B, NEW s \in Seq(A)
  PROVE  s \in Seq(B)
OBVIOUS

LEMMA AppendedMessages ==
  ASSUME NEW A, NEW h \in Seq(A), NEW m \in A
  PROVE  /\ Len(h) \in Nat /\ Append(h, m) \in Seq(A) /\ Len(Append(h, m)) = Len(h) + 1
         /\ \A i \in 1 .. Len(h) : Append(h, m)[i] = h[i] /\ h[i] \in A
         /\ \A i \in 1 .. Len(h) + 1 : Append(h, m)[i] \in A
         /\ Append(h, m)[Len(h) + 1] = m
<1>1. /\ Len(h) \in Nat /\ Append(h, m) \in Seq(A) /\ Len(Append(h, m)) = Len(h) + 1
      /\ \A i \in 1 .. Len(h) : Append(h, m)[i] = h[i]
      /\ Append(h, m)[Len(h) + 1] = m
  BY AppendProperties, LenProperties
<1>2. QED
  BY <1>1, ElementOfSeq

-----------------------------------------------------------------------------
(* Messages *)

ReplayTypes == BlockTypes \cup {"image", "document", "tool_result"}

MessageBlocks ==
  [type : ReplayTypes, id : Nat, name : Nat, body : Strings, data : Strings,
   signature : Strings, failed : BOOLEAN]

Messages == [role : {"user", "assistant", "tool"}, content : Seq(MessageBlocks)]

IsSequence(s) == \E A : s \in Seq(A)

LEMMA OnlyType ==
  ASSUME NEW A, NEW s \in Seq(A), NEW I
  PROVE  Only(s, I) \in Seq(A)
<1> DEFINE f == [i \in 1 .. Len(s) |-> IF i \in I THEN <<s[i]>> ELSE <<>>]
<1>1. f \in Seq(Seq(A))
  <2>1. Len(s) \in Nat /\ \A i \in 1 .. Len(s) : s[i] \in A
    BY LenProperties, ElementOfSeq
  <2>2. \A i \in 1 .. Len(s) : f[i] \in Seq(A)
    BY <2>1
  <2>3. QED
    BY <2>1, <2>2
<1>2. Only(s, I) = FlattenSeq(f)
  BY DEF Only
<1> HIDE DEF f
<1>3. QED
  BY <1>1, <1>2, FlattenedType

LEMMA KeptTypes ==
  ASSUME NEW A, NEW s \in Seq(A)
  PROVE  /\ \A types : Of(s, types) \in Seq(A)
         /\ Sourced(s) \in Seq(A)
         /\ Written(s) \in Seq(A)
         /\ \A role : Rest(Message(role, s)) \in Seq(A)
BY OnlyType DEF Of, Sourced, Written, Rest, Message

LEMMA ResultMessages ==
  ASSUME NEW content \in Seq(MessageBlocks)
  PROVE  IsSequence(ConvertToolMessage(content))
<1> DEFINE r == Of(content, {"tool_result"})
           W == {Wire("tool", <<Content(r[i])>>) : i \in 1 .. Len(r)}
<1>1. Len(r) \in Nat
  BY KeptTypes, LenProperties
<1>2. ConvertToolMessage(content) = [i \in 1 .. Len(r) |-> Wire("tool", <<Content(r[i])>>)]
  BY DEF ConvertToolMessage
<1> HIDE DEF r
<1>3. ConvertToolMessage(content) \in Seq(W)
  BY <1>1, <1>2
<1>4. QED
  BY <1>3 DEF IsSequence

LEMMA ConcatIsSequence ==
  ASSUME NEW s, NEW t, IsSequence(s), IsSequence(t)
  PROVE  IsSequence(s \o t)
<1>1. PICK A : s \in Seq(A)
  BY DEF IsSequence
<1>2. PICK B : t \in Seq(B)
  BY DEF IsSequence
<1>3. s \in Seq(A \cup B) /\ t \in Seq(A \cup B)
  <2>1. A \subseteq A \cup B /\ B \subseteq A \cup B
    OBVIOUS
  <2>2. QED
    BY <1>1, <1>2, <2>1, SeqWider
<1>4. QED
  BY <1>3, ConcatProperties DEF IsSequence

LEMMA NoneIsSequence == IsSequence(<<>>)
<1>1. <<>> \in Seq({})
  BY EmptySeq
<1>2. QED
  BY <1>1 DEF IsSequence

LEMMA OneIsSequence ==
  ASSUME NEW x
  PROVE  IsSequence(<<x>>)
<1>1. <<x>> \in Seq({x})
  OBVIOUS
<1>2. QED
  BY <1>1 DEF IsSequence

LEMMA TableIsSequence ==
  ASSUME NEW n \in Nat, NEW f, f = [i \in 1 .. n |-> f[i]]
  PROVE  IsSequence(f)
<1> DEFINE A == {f[i] : i \in 1 .. n}
<1>1. f \in Seq(A)
  <2>1. \A i \in 1 .. n : f[i] \in A
    OBVIOUS
  <2> HIDE DEF A
  <2>2. f \in [1 .. n -> A]
    BY <2>1
  <2>3. QED
    BY <2>2
<1>2. QED
  BY <1>1 DEF IsSequence

LEMMA SplitIsSequence ==
  ASSUME NEW m \in Messages, NEW parts
  PROVE  IsSequence(SplitUserToolResults(m, parts))
<1>1. IsSequence(ConvertToolMessage(m.content))
  BY ResultMessages DEF Messages
<1>2. IsSequence(IF Rest(m) = <<>> THEN <<>> ELSE <<Wire(m.role, parts)>>)
  BY NoneIsSequence, OneIsSequence
<1>3. IsSequence(<<Wire(m.role, parts)>>)
  BY OneIsSequence
<1>4. QED
  BY <1>1, <1>2, <1>3, ConcatIsSequence DEF SplitUserToolResults

LEMMA JoinedType ==
  ASSUME NEW content \in Seq(MessageBlocks)
  PROVE  Joined(content) \in MessageBlocks
<1> DEFINE texts == Of(content, {"text"})
           bodies == [i \in 1 .. Len(texts) |-> texts[i].body]
<1>1. texts \in Seq(MessageBlocks)
  BY KeptTypes
<1>2. Joined(content) = Words(FlattenSeq(bodies))
  BY DEF Joined
<1>3. bodies \in Seq(Strings)
  <2> HIDE DEF texts
  <2>1. Len(texts) \in Nat /\ \A i \in 1 .. Len(texts) : texts[i] \in MessageBlocks
    BY <1>1, LenProperties, ElementOfSeq
  <2>2. \A i \in 1 .. Len(texts) : texts[i].body \in Strings
    BY <2>1 DEF MessageBlocks
  <2>3. QED
    BY <2>1, <2>2
<1>4. FlattenSeq(bodies) \in Strings
  <2> HIDE DEF bodies
  <2>1. QED
    BY <1>3, FlattenedType DEF Strings
<1>5. \A x \in Strings : Words(x) \in MessageBlocks
  BY NoString DEF Words, Block, MessageBlocks, ReplayTypes, BlockTypes
<1>6. QED
  BY <1>2, <1>4, <1>5

LEMMA AssistantParts ==
  ASSUME NEW content \in Seq(MessageBlocks)
  PROVE  /\ AssistantText(content) \in Seq(MessageBlocks)
         /\ Unsign(Of(content, {"tool_use"})) \in Seq(MessageBlocks)
<1>1. AssistantText(content) \in Seq(MessageBlocks)
  <2>1. Joined(content) \in MessageBlocks
    BY JoinedType
  <2>2. <<Joined(content)>> \in Seq(MessageBlocks) /\ <<>> \in Seq(MessageBlocks)
    BY <2>1
  <2>3. QED
    BY <2>2 DEF AssistantText
<1> DEFINE calls == Of(content, {"tool_use"})
<1>2. Len(calls) \in Nat /\ \A i \in 1 .. Len(calls) : calls[i] \in MessageBlocks
  BY KeptTypes, LenProperties, ElementOfSeq
<1> HIDE DEF calls
<1>3. \A i \in 1 .. Len(calls) : [calls[i] EXCEPT !.signature = <<>>] \in MessageBlocks
  BY <1>2, NoString DEF MessageBlocks
<1>4. Unsign(calls) \in Seq(MessageBlocks)
  BY <1>2, <1>3 DEF Unsign
<1>5. QED
  BY <1>1, <1>4 DEF calls

\* What a message is converted to, where each is converted on its own.
LEMMA MessagesAreSequences ==
  ASSUME NEW m \in Messages
  PROVE  /\ IsSequence(OpenAIMessage(m))
         /\ IsSequence(ResponsesItems(m))
         /\ IsSequence(OllamaMessage(m))
<1>1. m.content \in Seq(MessageBlocks)
  BY DEF Messages
<1>2. IsSequence(ConvertToolMessage(m.content))
  BY <1>1, ResultMessages
<1>3. IsSequence(OpenAIMessage(m))
  BY <1>2, OneIsSequence, SplitIsSequence DEF OpenAIMessage
<1>4. IsSequence(ResponsesItems(m))
  <2> DEFINE parts == AssistantText(m.content) \o Unsign(Of(m.content, {"tool_use"}))
             items == [i \in 1 .. Len(parts) |-> Wire("assistant", <<parts[i]>>)]
  <2>1. Len(parts) \in Nat
    BY <1>1, AssistantParts, ConcatProperties, LenProperties
  <2> HIDE DEF parts
  <2>2. IsSequence(items)
    BY <2>1, TableIsSequence
  <2>3. ResponsesItems(m) \in {items, ConvertToolMessage(m.content),
                              SplitUserToolResults(m, InputParts(Rest(m)))}
    BY DEF ResponsesItems, parts
  <2>4. QED
    BY <1>2, <2>2, <2>3, SplitIsSequence
<1>5. IsSequence(OllamaMessage(m))
  <2> DEFINE results == ConvertToolMessage(m.content)
             plain == Written(Of(m.content, {"text", "tool_use"}))
             bare == [i \in 1 .. Len(plain) |-> [plain[i] EXCEPT !.id = 0, !.signature = <<>>]]
             images == Sourced(Of(m.content, {"image"}))
             first == IF bare \o images = <<>> /\ m.content # <<>> THEN <<>>
                      ELSE <<Wire(m.role, bare \o images)>>
             last == [i \in 1 .. Len(results) |-> [results[i] EXCEPT !.parts[1].id = 0]]
  <2>1. OllamaMessage(m) = first \o last
    BY DEF OllamaMessage
  <2>2. Len(results) \in Nat
    BY <1>2, LenProperties DEF IsSequence
  <2> HIDE DEF results, bare, images
  <2>3. IsSequence(last)
    BY <2>2, TableIsSequence
  <2>4. IsSequence(first)
    BY NoneIsSequence, OneIsSequence
  <2> HIDE DEF first, last
  <2>5. QED
    BY <2>1, <2>3, <2>4, ConcatIsSequence
<1>6. QED
  BY <1>3, <1>4, <1>5

-----------------------------------------------------------------------------
(* One message more *)

\* What s is converted to is the beginning of what t is converted to.
Begun(s, t) == IsSequence(s) /\ IsSequence(t) /\ IsPrefix(s, t)

LEMMA BegunOrder ==
  /\ \A s : IsSequence(s) => Begun(s, s)
  /\ \A s, t, u : Begun(s, t) /\ Begun(t, u) => Begun(s, u)
  /\ \A s, t : IsSequence(s) /\ IsSequence(t) => Begun(s, s \o t)
<1>1. ASSUME NEW s, IsSequence(s) PROVE Begun(s, s)
  BY <1>1, PrefixOrder DEF Begun, IsSequence
<1>2. ASSUME NEW s, NEW t, NEW u, Begun(s, t), Begun(t, u) PROVE Begun(s, u)
  <2>1. PICK A, B, C : s \in Seq(A) /\ t \in Seq(B) /\ u \in Seq(C)
    BY <1>2 DEF Begun, IsSequence
  <2> DEFINE D == A \cup B \cup C
  <2>2. s \in Seq(D) /\ t \in Seq(D) /\ u \in Seq(D)
    <3>1. A \subseteq D /\ B \subseteq D /\ C \subseteq D
      OBVIOUS
    <3> HIDE DEF D
    <3>2. QED
      BY <2>1, <3>1, SeqWider
  <2> HIDE DEF D
  <2>3. QED
    BY <1>2, <2>2, PrefixOrder DEF Begun
<1>3. ASSUME NEW s, NEW t, IsSequence(s), IsSequence(t) PROVE Begun(s, s \o t)
  <2>1. PICK A, B : s \in Seq(A) /\ t \in Seq(B)
    BY <1>3 DEF IsSequence
  <2> DEFINE D == A \cup B
  <2>2. s \in Seq(D) /\ t \in Seq(D)
    <3>1. A \subseteq D /\ B \subseteq D
      OBVIOUS
    <3> HIDE DEF D
    <3>2. QED
      BY <2>1, <3>1, SeqWider
  <2> HIDE DEF D
  <2>3. IsPrefix(s, s \o t)
    BY <2>2, PrefixOrder
  <2>4. QED
    BY <1>3, <2>3, ConcatIsSequence DEF Begun
<1>4. QED
  BY <1>1, <1>2, <1>3

\* Where each message is converted on its own to the messages f gives it.
LEMMA FlattenedGrows ==
  ASSUME NEW n \in Nat, NEW f, NEW g, OneLonger(f, g, n, {f[i] : i \in 1 .. n + 1}),
         \A i \in 1 .. n + 1 : IsSequence(f[i])
  PROVE  /\ FlattenSeq(f) = FlattenSeq(g) \o f[n + 1]
         /\ Begun(FlattenSeq(g), FlattenSeq(f))
<1> DEFINE A == UNION {{f[i][j] : j \in 1 .. Len(f[i])} : i \in 1 .. n + 1}
           S == Seq(A)
<1>1. \A i \in 1 .. n + 1 : f[i] \in Seq(A)
  <2>1. SUFFICES ASSUME NEW i \in 1 .. n + 1 PROVE f[i] \in Seq(A)
    OBVIOUS
  <2>2. PICK B : f[i] \in Seq(B)
    BY DEF IsSequence
  <2>3. Len(f[i]) \in Nat /\ f[i] \in [1 .. Len(f[i]) -> B]
    BY <2>2
  <2>4. \A j \in 1 .. Len(f[i]) : f[i][j] \in A
    OBVIOUS
  <2> HIDE DEF A
  <2>5. QED
    BY <2>3, <2>4
<1> HIDE DEF A
<1>2. FlattenSeq(f) = FlattenSeq(g) \o f[n + 1]
  <2>1. OneLonger(f, g, n, Seq(A))
    BY <1>1 DEF OneLonger
  <2>2. QED
    BY <2>1, FlattenOneMore
<1>3. g \in Seq(S)
  <2>1. OneLonger(f, g, n, S)
    BY <1>1 DEF OneLonger
  <2> HIDE DEF S
  <2>2. QED
    BY <2>1, OneMore
<1>4. FlattenSeq(g) \in Seq(A) /\ f[n + 1] \in Seq(A)
  <2>1. n + 1 \in 1 .. n + 1
    OBVIOUS
  <2>2. QED
    BY <1>1, <1>3, <2>1, FlattenedType
<1>5. IsSequence(FlattenSeq(g)) /\ IsSequence(f[n + 1])
  BY <1>4 DEF IsSequence
<1>6. QED
  BY <1>2, <1>5, BegunOrder

\* OpenAI, the Responses API and Ollama.
LEMMA EachGrows ==
  ASSUME NEW t \in {"openai", "responses", "ollama"},
         NEW h \in Seq(Messages), NEW m \in Messages
  PROVE  Begun(Converted(t, h), Converted(t, Append(h, m)))
<1> DEFINE F(x) == CASE t = "openai" -> OpenAIMessage(x)
                     [] t = "responses" -> ResponsesItems(x)
                     [] t = "ollama" -> OllamaMessage(x)
           n == Len(h)
           l == Append(h, m)
           f == [i \in 1 .. n + 1 |-> F(l[i])]
           g == [i \in 1 .. n |-> F(h[i])]
<1>1. /\ n \in Nat /\ Len(l) = n + 1
      /\ \A i \in 1 .. n : l[i] = h[i]
      /\ \A i \in 1 .. n + 1 : l[i] \in Messages
  BY AppendedMessages
<1>2. \A x \in Messages : IsSequence(F(x))
  <2>1. t = "openai" \/ t = "responses" \/ t = "ollama"
    OBVIOUS
  <2>2. QED
    BY <2>1, MessagesAreSequences
<1>3. Converted(t, l) = FlattenSeq([i \in 1 .. Len(l) |-> F(l[i])])
      /\ Converted(t, h) = FlattenSeq(g)
  <2> HIDE DEF l, n
  <2>1. CASE t = "openai"
    BY <2>1 DEF Converted, n
  <2>2. CASE t = "responses"
    BY <2>2 DEF Converted, n
  <2>3. CASE t = "ollama"
    BY <2>3 DEF Converted, n
  <2>4. QED
    BY <2>1, <2>2, <2>3
<1>4. Converted(t, l) = FlattenSeq(f)
  <2> HIDE DEF l, n, F
  <2>1. QED
    BY <1>1, <1>3
<1>5. /\ f = [i \in 1 .. n + 1 |-> f[i]] /\ g = [i \in 1 .. n |-> g[i]]
      /\ \A i \in 1 .. n : g[i] = f[i]
      /\ \A i \in 1 .. n + 1 : IsSequence(f[i])
  <2> HIDE DEF l, n, F
  <2>1. \A i \in 1 .. n : i \in 1 .. n + 1
    BY <1>1
  <2>2. QED
    BY <1>1, <1>2, <2>1
<1> HIDE DEF f, g, l, n
<1>6. Begun(FlattenSeq(g), FlattenSeq(f))
  <2>1. OneLonger(f, g, n, {f[i] : i \in 1 .. n + 1})
    BY <1>5 DEF OneLonger
  <2>2. QED
    BY <1>1, <1>5, <2>1, FlattenedGrows
<1>7. QED
  BY <1>3, <1>4, <1>6 DEF l

LEMMA AnthropicGrows ==
  ASSUME NEW h \in Seq(Messages), NEW m \in Messages
  PROVE  Begun(AnthropicMessages(h), AnthropicMessages(Append(h, m)))
<1> DEFINE F(x) == Wire(IF x.role = "assistant" THEN "assistant" ELSE "user",
                        [j \in 1 .. Len(x.content) |-> ConvertBlock(x.content[j])])
           n == Len(h)
           l == Append(h, m)
           f == [i \in 1 .. n + 1 |-> F(l[i])]
           g == [i \in 1 .. n |-> F(h[i])]
           A == {f[i] : i \in 1 .. n + 1}
<1>1. n \in Nat /\ Len(l) = n + 1 /\ \A i \in 1 .. n : l[i] = h[i]
  BY AppendedMessages
<1>2. AnthropicMessages(h) = g /\ AnthropicMessages(l) = f
  <2> HIDE DEF l
  <2>1. AnthropicMessages(l) = [i \in 1 .. Len(l) |-> F(l[i])]
    BY DEF AnthropicMessages
  <2> HIDE DEF n, F
  <2>2. AnthropicMessages(l) = f
    BY <1>1, <2>1
  <2>3. QED
    BY <2>2 DEF AnthropicMessages, n, F
<1>3. /\ f = [i \in 1 .. n + 1 |-> f[i]] /\ g = [i \in 1 .. n |-> g[i]]
      /\ \A i \in 1 .. n : g[i] = f[i]
      /\ \A i \in 1 .. n + 1 : f[i] \in A
  <2> HIDE DEF l, n, F
  <2>1. \A i \in 1 .. n : i \in 1 .. n + 1
    BY <1>1
  <2>2. QED
    BY <1>1, <2>1
<1> HIDE DEF f, g, l, n, A
<1>4. f = Append(g, f[n + 1]) /\ g \in Seq(A) /\ f[n + 1] \in A
  <2>1. n + 1 \in 1 .. n + 1
    BY <1>1
  <2>2. f[n + 1] \in A
    BY <1>3, <2>1
  <2>3. OneLonger(f, g, n, A)
    BY <1>3 DEF OneLonger
  <2>4. f = Append(g, f[n + 1]) /\ g \in Seq(A)
    BY <1>1, <2>3, OneMore
  <2>5. QED
    BY <2>2, <2>4
<1>5. f = g \o <<f[n + 1]>>
  BY <1>4, AppendIsConcat
<1>6. Begun(g, f)
  BY <1>4, <1>5, BegunOrder, OneIsSequence DEF IsSequence
<1>7. QED
  BY <1>2, <1>6 DEF l

LEMMA GeminiIsFold ==
  ASSUME NEW h
  PROVE  FoldLeft(GeminiMessage, Nothing, h) = Geminis!Fold(h, DOMAIN h)
BY DEF FoldLeft, Geminis!Fold, Geminis!FoldFrom, MapThenFoldSet, Geminis!MapThenFoldSet, GeminiInto, Greatest

LEMMA GeminiFold ==
  /\ FoldLeft(GeminiMessage, Nothing, <<>>) = Nothing
  /\ \A h \in Seq(Messages), m \in Messages :
       FoldLeft(GeminiMessage, Nothing, Append(h, m))
         = GeminiMessage(FoldLeft(GeminiMessage, Nothing, h), m)
<1>1. Geminis!TakesLast
  BY Indexes DEF Geminis!TakesLast, Geminis!Counted, Geminis!Counts, Geminis!Chooses
<1>2. FoldLeft(GeminiMessage, Nothing, <<>>) = Nothing
  BY <1>1, GeminiIsFold, Geminis!FoldNoSeq
<1>3. ASSUME NEW h \in Seq(Messages), NEW m \in Messages
      PROVE  FoldLeft(GeminiMessage, Nothing, Append(h, m))
               = GeminiMessage(FoldLeft(GeminiMessage, Nothing, h), m)
  <2>1. Geminis!Fold(Append(h, m), DOMAIN Append(h, m)) = GeminiInto(m, Geminis!Fold(h, DOMAIN h))
    BY <1>1, Geminis!FoldAppend, Z3
  <2>2. QED
    BY <2>1, GeminiIsFold DEF GeminiInto
<1>4. QED
  BY <1>2, <1>3

\* A message adds one to the contents, or none.
LEMMA GeminiAdds ==
  ASSUME NEW a, NEW m
  PROVE  \/ GeminiMessage(a, m).contents = a.contents
         \/ \E x : GeminiMessage(a, m).contents = Append(a.contents, x)
BY DEF GeminiMessage

LEMMA GeminiStep ==
  ASSUME NEW h \in Seq(Messages), NEW m \in Messages, IsSequence(GeminiContents(h))
  PROVE  Begun(GeminiContents(h), GeminiContents(Append(h, m)))
<1> DEFINE c == GeminiContents(h)
           d == GeminiContents(Append(h, m))
<1>1. d = c \/ \E x : d = Append(c, x)
  <2> DEFINE a == FoldLeft(GeminiMessage, Nothing, h)
             b == FoldLeft(GeminiMessage, Nothing, Append(h, m))
  <2>1. b = GeminiMessage(a, m)
    BY GeminiFold
  <2>2. c = a.contents /\ d = b.contents
    BY DEF GeminiContents
  <2> HIDE DEF a, b, c, d
  <2>3. QED
    BY <2>1, <2>2, GeminiAdds
<1> HIDE DEF c, d
<1>2. CASE d = c
  BY <1>2, BegunOrder DEF c, d
<1>3. ASSUME NEW x, d = Append(c, x) PROVE Begun(c, d)
  <2>1. PICK A : c \in Seq(A)
    BY DEF c, IsSequence
  <2>2. c \in Seq(A \cup {x}) /\ x \in A \cup {x}
    <3> DEFINE B == A \cup {x}
    <3>1. A \subseteq B /\ x \in B
      OBVIOUS
    <3> HIDE DEF B
    <3>2. QED
      BY <2>1, <3>1, SeqWider DEF B
  <2>3. d = c \o <<x>>
    BY <1>3, <2>2, AppendIsConcat
  <2>4. QED
    BY <2>3, BegunOrder, OneIsSequence DEF c
<1>4. QED
  BY <1>1, <1>2, <1>3 DEF c, d

LEMMA GeminiGrows ==
  ASSUME NEW h \in Seq(Messages), NEW m \in Messages
  PROVE  Begun(GeminiContents(h), GeminiContents(Append(h, m)))
<1> DEFINE T == {s \in Seq(Messages) : IsSequence(GeminiContents(s))}
<1>1. <<>> \in T
  BY GeminiFold, NoneIsSequence, EmptySeq DEF GeminiContents, Nothing
<1>2. ASSUME NEW s \in Seq(Messages), NEW e \in Messages, s \in T PROVE Append(s, e) \in T
  BY <1>2, GeminiStep, AppendProperties DEF Begun
<1>3. \A s \in Seq(Messages) : s \in T
  <2> HIDE DEF T
  <2>1. QED
    BY <1>1, <1>2, SeqInduction, Z3
<1>4. QED
  BY <1>3, GeminiStep

LEMMA ConvertedGrows ==
  ASSUME NEW t \in {"openai", "responses", "anthropic", "gemini", "ollama"},
         NEW h \in Seq(Messages), NEW m \in Messages
  PROVE  Begun(Converted(t, h), Converted(t, Append(h, m)))
<1>1. CASE t \in {"openai", "responses", "ollama"}
  BY <1>1, EachGrows
<1>2. CASE t = "anthropic"
  BY <1>2, AnthropicGrows DEF Converted
<1>3. CASE t = "gemini"
  BY <1>3, GeminiGrows DEF Converted
<1>4. QED
  BY <1>1, <1>2, <1>3

\* What is sent for the beginning of a conversation begins what is sent for all.
LEMMA ConvertedBegins ==
  ASSUME NEW t \in {"openai", "responses", "anthropic", "gemini", "ollama"},
         NEW h \in Seq(Messages), NEW n \in 1 .. Len(h)
  PROVE  IsPrefix(Converted(t, SubSeq(h, 1, n)), Converted(t, h))
<1> DEFINE T == {s \in Seq(Messages) :
                   \A k \in 1 .. Len(s) : Begun(Converted(t, SubSeq(s, 1, k)), Converted(t, s))}
<1>1. <<>> \in T
  BY EmptySeq
<1>2. ASSUME NEW s \in Seq(Messages), NEW e \in Messages, s \in T PROVE Append(s, e) \in T
  <2>1. SUFFICES ASSUME NEW k \in 1 .. Len(s) + 1
                 PROVE  Begun(Converted(t, SubSeq(Append(s, e), 1, k)),
                              Converted(t, Append(s, e)))
    BY AppendedMessages
  <2>2. Len(s) \in Nat /\ Len(Append(s, e)) = Len(s) + 1 /\ Append(s, e) \in Seq(Messages)
    BY AppendedMessages
  <2>3. Begun(Converted(t, s), Converted(t, Append(s, e)))
    BY ConvertedGrows
  <2>4. CASE k = Len(s) + 1
    <3>1. SubSeq(Append(s, e), 1, k) = Append(s, e)
      BY <2>2, <2>4, SubSeqFull
    <3>2. QED
      BY <2>3, <3>1, BegunOrder DEF Begun
  <2>5. CASE k # Len(s) + 1
    <3>1. k \in 1 .. Len(s)
      BY <2>2, <2>5
    <3>2. SubSeq(Append(s, e), 1, k) = SubSeq(s, 1, k)
      <4>1. Append(s, e) = s \o <<e>> /\ <<e>> \in Seq(Messages) /\ 1 \in 1 .. Len(s)
        BY <2>2, <3>1, AppendIsConcat
      <4>2. QED
        BY <3>1, <4>1, SubSeqOfConcat1
    <3>3. Begun(Converted(t, SubSeq(s, 1, k)), Converted(t, s))
      BY <1>2, <3>1
    <3>4. QED
      BY <2>3, <3>2, <3>3, BegunOrder
  <2>6. QED
    BY <2>4, <2>5
<1>3. \A s \in Seq(Messages) : s \in T
  <2> HIDE DEF T
  <2>1. QED
    BY <1>1, <1>2, SeqInduction, Z3
<1>4. QED
  BY <1>3 DEF Begun

-----------------------------------------------------------------------------
(* The conversation *)

LEMMA Texts ==
  /\ Said \in Strings /\ Inline \in Strings /\ URL \in Strings /\ NoMessage \in Strings
  /\ <<>> \in Strings
  /\ Said # <<>> /\ Inline # <<>> /\ URL # <<>> /\ NoMessage # <<>>
<1>1. \A k \in Nat : <<<<0, k>>>> \in Strings /\ <<<<0, k>>>> # <<>>
  BY DEF Strings
<1>2. QED
  BY <1>1, NoString DEF Said, Inline, URL, NoMessage

LEMMA BlocksTyped ==
  /\ \A t \in Strings : Words(t) \in MessageBlocks
  /\ \A type \in {"image", "document"}, d \in Strings : Media(type, d) \in MessageBlocks
  /\ \A id, name \in Nat, t, s \in Strings : Call(id, name, t, s) \in MessageBlocks
  /\ \A id \in Nat, t \in Strings, f \in BOOLEAN : ToolResultBlock(id, t, f) \in MessageBlocks
BY NoString DEF Words, Media, Call, ToolResultBlock, Block, MessageBlocks, ReplayTypes, BlockTypes

LEMMA MessageTyped ==
  ASSUME NEW role \in {"user", "assistant", "tool"}, NEW c \in Seq(MessageBlocks)
  PROVE  Message(role, c) \in Messages
BY DEF Message, Messages

LEMMA EarlierTyped == EarlierCall \in MessageBlocks /\ EarlierResult \in MessageBlocks
<1>1. EarlierCall \in MessageBlocks /\ EarlierCall.id \in Nat
  <2>1. EarlierCall \in {Call(1, 1, Said, Said), Call(1, 0, Said, <<>>), Call(0, 0, Said, <<>>)}
    BY DEF EarlierCall
  <2>2. EarlierCall \in MessageBlocks
    BY <2>1, Texts, BlocksTyped
  <2>3. QED
    BY <2>2 DEF MessageBlocks
<1>2. QED
  BY <1>1, Texts, BlocksTyped DEF EarlierResult

LEMMA OpeningsTyped == Openings \subseteq Seq(Messages)
<1> DEFINE question == Message("user", <<Words(Said)>>)
           Pictures == {Media("image", Inline), Media("image", URL), Media("image", <<>>),
                        Media("document", Inline)}
           Asked(m) == Message("user", <<Words(<<>>), m>>)
           calling == Message("assistant", <<EarlierCall>>)
           told == Message("tool", <<EarlierResult>>)
<1>1. \A b \in MessageBlocks : <<b>> \in Seq(MessageBlocks)
  OBVIOUS
<1>2. question \in Messages /\ calling \in Messages /\ told \in Messages
  BY <1>1, Texts, BlocksTyped, EarlierTyped, MessageTyped
<1>3. \A m \in Pictures : Asked(m) \in Messages
  <2>1. \A m \in Pictures : m \in MessageBlocks
    BY Texts, BlocksTyped
  <2>2. Words(<<>>) \in MessageBlocks
    BY Texts, BlocksTyped
  <2>3. \A a, b \in MessageBlocks : <<a, b>> \in Seq(MessageBlocks)
    OBVIOUS
  <2> HIDE DEF Pictures
  <2>4. QED
    BY <2>1, <2>2, <2>3, MessageTyped
<1>4. Openings = {<<question>>} \cup {<<Asked(m), question>> : m \in Pictures}
                   \cup {<<question, calling, told>>, <<told>>}
  BY DEF Openings
<1> HIDE DEF question, Pictures, Asked, calling, told
<1>5. \A a, b, c \in Messages : /\ <<a>> \in Seq(Messages) /\ <<a, b>> \in Seq(Messages)
                                 /\ <<a, b, c>> \in Seq(Messages)
  OBVIOUS
<1>6. QED
  BY <1>2, <1>3, <1>4, <1>5

LEMMA NamedTyped ==
  ASSUME NEW c \in ContentBlocks
  PROVE  Named(c) \in MessageBlocks
<1> DEFINE name == IF c.type # "tool_use" THEN 0
                   ELSE IF provider # "ollama_tools" \/ c.body = <<>> THEN c.id
                   ELSE c.body[1][1]
<1>1. name \in Nat
  <2>1. ASSUME c.body # <<>> PROVE c.body[1][1] \in Nat
    <3>1. c.body \in Seq(Nat \X Nat)
      BY DEF ContentBlocks, Strings
    <3> DEFINE P == Nat \X Nat
               b == c.body
    <3>2. b[1] \in P
      <4> HIDE DEF P
      <4>1. QED
        BY <2>1, <3>1 DEF P
    <3>3. QED
      BY <3>2
  <2>2. QED
    BY <2>1 DEF ContentBlocks
<1>2. Named(c) = Block(c.type, c.id, name, c.body, c.data, c.signature, FALSE)
  BY DEF Named
<1> HIDE DEF name
<1>3. QED
  BY <1>1, <1>2 DEF Block, MessageBlocks, ContentBlocks, ReplayTypes

LEMMA AssistantTyped ==
  ASSUME NEW content \in Seq(ContentBlocks)
  PROVE  AssistantBlocks(content) \in Messages
<1> DEFINE c == [i \in 1 .. Len(content) |-> Named(content[i])]
<1>1. Len(content) \in Nat /\ \A i \in 1 .. Len(content) : Named(content[i]) \in MessageBlocks
  BY LenProperties, ElementOfSeq, NamedTyped
<1>2. c \in Seq(MessageBlocks)
  BY <1>1
<1> HIDE DEF c
<1>3. Message("assistant", c) \in Messages
  BY <1>2, MessageTyped
<1>4. QED
  BY <1>3 DEF AssistantBlocks, c

LEMMA RepliesTyped ==
  ASSUME NEW content \in Seq(MessageBlocks)
  PROVE  Replies(content) \subseteq Seq(Messages)
<1> DEFINE calls == Of(content, {"tool_use"})
           Results(text, failed) ==
             [i \in 1 .. Len(calls) |-> ToolResultBlock(calls[i].id, text, failed)]
           Forms(rs) ==
             {[i \in 1 .. Len(rs) |-> Message("tool", <<rs[i]>>)],
              <<Message("tool", rs)>>,
              <<Message("user", Append(rs, Words(Said)))>>,
              <<Message("user", <<Words(Said)>> \o rs)>>}
           next == <<Message("user", <<Words(Said)>>)>>
<1>1. Len(calls) \in Nat /\ \A i \in 1 .. Len(calls) : calls[i] \in MessageBlocks
  BY KeptTypes, LenProperties, ElementOfSeq
<1>2. Replies(content) \subseteq {next} \cup
        UNION {Forms(Results(Said, FALSE)), Forms(Results(Said, TRUE)), Forms(Results(<<>>, TRUE))}
  BY DEF Replies
<1>3. \A t \in Strings, f \in BOOLEAN : Results(t, f) \in Seq(MessageBlocks)
  <2> HIDE DEF calls
  <2>1. \A i \in 1 .. Len(calls) : calls[i].id \in Nat
    BY <1>1 DEF MessageBlocks
  <2>2. \A t \in Strings, f \in BOOLEAN :
           \A i \in 1 .. Len(calls) : ToolResultBlock(calls[i].id, t, f) \in MessageBlocks
    BY <2>1, BlocksTyped
  <2>3. QED
    BY <1>1, <2>2
<1>4. ASSUME NEW rs \in Seq(MessageBlocks) PROVE Forms(rs) \subseteq Seq(Messages)
  <2> DEFINE word == Words(Said)
  <2>1. word \in MessageBlocks
    BY Texts, BlocksTyped
  <2> HIDE DEF word
  <2>2. Append(rs, word) \in Seq(MessageBlocks) /\ <<word>> \o rs \in Seq(MessageBlocks)
    <3>1. <<word>> \in Seq(MessageBlocks)
      BY <2>1
    <3>2. QED
      BY <2>1, <3>1, AppendProperties, ConcatProperties
  <2>3. Len(rs) \in Nat /\ \A i \in 1 .. Len(rs) : <<rs[i]>> \in Seq(MessageBlocks)
    <3>1. Len(rs) \in Nat /\ \A i \in 1 .. Len(rs) : rs[i] \in MessageBlocks
      BY LenProperties, ElementOfSeq
    <3>2. QED
      BY <3>1
  <2>4. \A i \in 1 .. Len(rs) : Message("tool", <<rs[i]>>) \in Messages
    BY <2>3, MessageTyped
  <2>5. [i \in 1 .. Len(rs) |-> Message("tool", <<rs[i]>>)] \in Seq(Messages)
    BY <2>3, <2>4
  <2>6. \A m \in Messages : <<m>> \in Seq(Messages)
    OBVIOUS
  <2>7. /\ <<Message("tool", rs)>> \in Seq(Messages)
        /\ <<Message("user", Append(rs, word))>> \in Seq(Messages)
        /\ <<Message("user", <<word>> \o rs)>> \in Seq(Messages)
    BY <2>2, <2>6, MessageTyped
  <2>8. QED
    BY <2>5, <2>7 DEF word
<1>5. next \in Seq(Messages)
  <2>1. <<Words(Said)>> \in Seq(MessageBlocks)
    <3>1. Words(Said) \in MessageBlocks
      BY Texts, BlocksTyped
    <3>2. QED
      BY <3>1
  <2>2. Message("user", <<Words(Said)>>) \in Messages
    BY <2>1, MessageTyped
  <2>3. QED
    BY <2>2
<1>6. /\ Forms(Results(Said, FALSE)) \subseteq Seq(Messages)
      /\ Forms(Results(Said, TRUE)) \subseteq Seq(Messages)
      /\ Forms(Results(<<>>, TRUE)) \subseteq Seq(Messages)
  <2> HIDE DEF Results, Forms
  <2>1. QED
    BY <1>3, <1>4, Texts
<1> HIDE DEF Forms, Results, next
<1>7. QED
  BY <1>2, <1>5, <1>6

-----------------------------------------------------------------------------
(* The inductive invariant *)

\* The conversation is one that Continue makes of the answer, which is over.
Conversed ==
  target # "none" =>
    /\ ending = "done" /\ target \in Targets
    /\ \E before \in Openings, content \in {acc.content, ParseChatResponse} :
         \E after \in Replies(AssistantBlocks(content).content) :
           /\ history = before \o <<AssistantBlocks(content)>> \o after
           /\ turn = Len(before) + 1

RInv == AInv /\ Conversed

LEMMA RInvInit == ReplayInit => RInv
BY AInvInit DEF ReplayInit, RInv, Conversed

LEMMA RInvNext == RInv /\ [ReplayNext]_<<vars, replayVars>> => RInv'
<1> SUFFICES ASSUME RInv, [ReplayNext]_<<vars, replayVars>> PROVE RInv'
  OBVIOUS
<1>1. CASE Next /\ UNCHANGED replayVars
  <2>1. AInv' /\ ending = "open"
    BY <1>1, AInvNext DEF RInv, Next, StartBlock, SendPiece, Finish, CutOff, Fail
  <2>2. target' = target /\ target = "none"
    BY <1>1, <2>1 DEF RInv, Conversed, replayVars
  <2>3. QED
    BY <2>1, <2>2 DEF RInv, Conversed
<1>2. ASSUME UNCHANGED vars
      PROVE  /\ AInv' /\ acc' = acc /\ ending' = ending /\ ParseChatResponse' = ParseChatResponse
             /\ Openings' = Openings
             /\ \A c : AssistantBlocks(c)' = AssistantBlocks(c) /\ Replies(c)' = Replies(c)
  <2>1. AInv'
    BY <1>2, AInvNext DEF RInv
  <2>2. acc' = acc /\ ending' = ending /\ provider' = provider /\ answer' = answer
    BY <1>2 DEF vars
  <2>3. EarlierCall' = EarlierCall /\ EarlierResult' = EarlierResult
    BY <2>2 DEF EarlierCall, EarlierResult
  <2>4. Openings' = Openings
    BY <2>3 DEF Openings
  <2>5. \A c : AssistantBlocks(c)' = AssistantBlocks(c) /\ Replies(c)' = Replies(c)
    BY <2>2 DEF AssistantBlocks, Named
  <2>6. QED
    BY <2>1, <2>2, <2>4, <2>5, SteadyAnswer
<1>3. CASE Continue
  BY <1>2, <1>3 DEF Continue, RInv, Conversed
<1>4. CASE UNCHANGED <<vars, replayVars>>
  BY <1>2, <1>4 DEF RInv, Conversed, replayVars
<1>5. QED
  BY <1>1, <1>3, <1>4 DEF ReplayNext

LEMMA RInvHolds == ReplaySpec => []RInv
BY RInvInit, RInvNext, PTL DEF ReplaySpec

\* What is returned of an answer is a list of content blocks.
LEMMA ReturnedTyped ==
  ASSUME AInv
  PROVE  acc.content \in Seq(ContentBlocks) /\ ParseChatResponse \in Seq(ContentBlocks)
<1>1. acc.content \in Seq(ContentBlocks)
  BY DEF AInv, Loose, Buffers
<1>2. ParseChatResponse \in Seq(ContentBlocks)
  <2>1. Given /\ Len(answer) \in 0 .. Len(answer)
    BY AnswerShape DEF AInv
  <2>2. ParsedTo(Len(answer)) \in Seq(ContentBlocks) /\ OllamaContent \in Seq(ContentBlocks)
    BY <2>1, ParsedToType, OllamaContentType
  <2>3. QED
    BY <2>2 DEF ParseChatResponse, ParsedTo
<1>3. QED
  BY <1>1, <1>2

LEMMA HistoryTyped ==
  ASSUME RInv, target # "none"
  PROVE  history \in Seq(Messages) /\ target \in Targets
<1>1. PICK before \in Openings, content \in {acc.content, ParseChatResponse} :
         \E after \in Replies(AssistantBlocks(content).content) :
           history = before \o <<AssistantBlocks(content)>> \o after
  BY DEF RInv, Conversed
<1>2. PICK after \in Replies(AssistantBlocks(content).content) :
         history = before \o <<AssistantBlocks(content)>> \o after
  BY <1>1
<1> DEFINE a == AssistantBlocks(content)
<1>3. a \in Messages
  BY ReturnedTyped, AssistantTyped DEF RInv
<1>4. a.content \in Seq(MessageBlocks)
  <2> HIDE DEF a
  <2>1. QED
    BY <1>3 DEF Messages
<1>5. before \in Seq(Messages) /\ after \in Seq(Messages)
  BY <1>4, OpeningsTyped, RepliesTyped
<1>6. <<a>> \in Seq(Messages)
  <2> HIDE DEF a
  <2>1. QED
    BY <1>3
<1>7. history = before \o <<a>> \o after
  BY <1>2
<1> HIDE DEF a
<1>8. QED
  BY <1>5, <1>6, <1>7, ConcatProperties DEF RInv, Conversed

\* What was sent for the beginning of a conversation is sent again, unchanged,
\* with whatever is said after it, to every provider (convertMessages).
THEOREM PrefixesStable == ReplaySpec => []PrefixStable
<1>1. RInv => PrefixStable
  <2>1. SUFFICES ASSUME RInv, Accepted, NEW n \in 1 .. Len(history)
                 PROVE  IsPrefix(Converted(target, SubSeq(history, 1, n)), Sent)
    BY DEF PrefixStable
  <2>2. history \in Seq(Messages) /\ target \in Targets
    BY <2>1, HistoryTyped DEF Accepted
  <2>3. target \in {"openai", "responses", "anthropic", "gemini", "ollama"}
    BY <2>2, ReplayAssumption
  <2>4. QED
    BY <2>2, <2>3, ConvertedBegins DEF Sent
<1>2. QED
  BY <1>1, RInvHolds, PTL

-----------------------------------------------------------------------------
(* Each element of a sequence replaced by a sequence *)

\* k gives a sequence of B for each element of A.
Maps(k, A, B) == \A e \in A : k[e] \in Seq(B)

\* Each element of a sequence replaced by what k gives for it.
Flat(k, s) == FlattenSeq([i \in 1 .. Len(s) |-> k[s[i]]])

\* Each element with what k gives for it.
LEMMA FlatTable ==
  ASSUME NEW A, NEW B, NEW k, Maps(k, A, B), NEW s \in Seq(A)
  PROVE  [i \in 1 .. Len(s) |-> k[s[i]]] \in Seq(Seq(B))
<1> DEFINE S == Seq(B)
<1>1. Len(s) \in Nat /\ \A i \in 1 .. Len(s) : k[s[i]] \in S
  BY LenProperties, ElementOfSeq DEF Maps
<1> HIDE DEF S
<1>2. [i \in 1 .. Len(s) |-> k[s[i]]] \in Seq(S)
  BY <1>1
<1>3. QED
  BY <1>2 DEF S

\* What Flat gives is a sequence.
LEMMA FlatType ==
  ASSUME NEW A, NEW B, NEW k, Maps(k, A, B), NEW s \in Seq(A)
  PROVE  Flat(k, s) \in Seq(B)
BY FlatTable, FlattenedType DEF Flat

\* Nothing is replaced by nothing.
LEMMA FlatNone ==
  ASSUME NEW k
  PROVE  Flat(k, <<>>) = <<>>
<1> DEFINE e == <<>>
           f == [i \in 1 .. Len(e) |-> k[e[i]]]
<1>1. f = <<>>
  OBVIOUS
<1> HIDE DEF f
<1>2. FlattenSeq(f) = <<>>
  BY <1>1, FlattenNone
<1>3. QED
  BY <1>2 DEF Flat, f

\* Flat, one element at a time.
LEMMA FlatAppend ==
  ASSUME NEW A, NEW B, NEW k, Maps(k, A, B), NEW s \in Seq(A), NEW x \in A
  PROVE  Flat(k, Append(s, x)) = Flat(k, s) \o k[x]
<1> DEFINE l == Append(s, x)
           f == [i \in 1 .. Len(l) |-> k[l[i]]]
           g == [i \in 1 .. Len(s) |-> k[s[i]]]
           n == Len(s)
<1>1. /\ n \in Nat /\ Len(l) = n + 1 /\ l[n + 1] = x
      /\ \A i \in 1 .. n : l[i] = s[i]
      /\ \A i \in 1 .. n + 1 : l[i] \in A
  BY AppendedMessages
<1>2. f = [i \in 1 .. n + 1 |-> k[l[i]]] /\ g = [i \in 1 .. n |-> k[s[i]]]
  BY <1>1
<1> HIDE DEF l, f, g, n
<1>3. f[n + 1] = k[x]
  <2>1. n + 1 \in 1 .. n + 1
    BY <1>1
  <2>2. QED
    BY <1>1, <1>2, <2>1
<1>4. /\ f = [i \in 1 .. n + 1 |-> f[i]] /\ g = [i \in 1 .. n |-> g[i]]
      /\ \A i \in 1 .. n : g[i] = f[i]
      /\ \A i \in 1 .. n + 1 : f[i] \in Seq(B)
  <2>1. \A i \in 1 .. n : i \in 1 .. n + 1
    BY <1>1
  <2>2. QED
    BY <1>1, <1>2, <2>1 DEF Maps
<1>5. FlattenSeq(f) = FlattenSeq(g) \o f[n + 1]
  <2>1. OneLonger(f, g, n, Seq(B))
    BY <1>4 DEF OneLonger
  <2>2. QED
    BY <1>1, <2>1, FlattenOneMore
<1>6. QED
  BY <1>3, <1>5 DEF Flat, f, g, l

\* Flat of one element.
LEMMA FlatOne ==
  ASSUME NEW A, NEW B, NEW k, Maps(k, A, B), NEW x \in A
  PROVE  Flat(k, <<x>>) = k[x]
<1>1. <<>> \in Seq(A) /\ <<x>> = Append(<<>>, x)
  BY EmptySeq
<1>2. Flat(k, <<x>>) = Flat(k, <<>>) \o k[x]
  BY <1>1, FlatAppend
<1>3. k[x] \in Seq(B)
  BY DEF Maps
<1>4. QED
  BY <1>2, <1>3, FlatNone, ConcatEmptySeq

\* Flat of one sequence after another.
LEMMA FlatConcat ==
  ASSUME NEW A, NEW B, NEW k, Maps(k, A, B), NEW s \in Seq(A), NEW t \in Seq(A)
  PROVE  Flat(k, s \o t) = Flat(k, s) \o Flat(k, t)
<1> DEFINE T == {u \in Seq(A) : Flat(k, s \o u) = Flat(k, s) \o Flat(k, u)}
<1>0. \A u \in Seq(A) : Flat(k, u) \in Seq(B)
  BY FlatType
<1>1. <<>> \in T
  <2>1. s \o <<>> = s /\ Flat(k, s) \o <<>> = Flat(k, s)
    BY <1>0, ConcatEmptySeq
  <2>2. QED
    BY <2>1, FlatNone, EmptySeq
<1>2. ASSUME NEW u \in Seq(A), NEW e \in A, u \in T PROVE Append(u, e) \in T
  <2>1. Append(u, e) \in Seq(A) /\ s \o u \in Seq(A)
    BY AppendProperties, ConcatProperties
  <2>2. s \o Append(u, e) = Append(s \o u, e)
    <3>1. s \in Seq(A) /\ u \in Seq(A) /\ <<e>> \in Seq(A)
      OBVIOUS
    <3>2. Append(u, e) = u \o <<e>> /\ Append(s \o u, e) = (s \o u) \o <<e>>
      BY <2>1, AppendIsConcat
    <3>3. (s \o u) \o <<e>> = s \o (u \o <<e>>)
      BY <3>1, ConcatAssociative
    <3>4. QED
      BY <3>2, <3>3
  <2>3. /\ Flat(k, Append(s \o u, e)) = Flat(k, s \o u) \o k[e]
        /\ Flat(k, Append(u, e)) = Flat(k, u) \o k[e]
    <3>1. \A v \in Seq(A) : Flat(k, Append(v, e)) = Flat(k, v) \o k[e]
      BY FlatAppend
    <3>2. QED
      BY <2>1, <3>1
  <2>4. (Flat(k, s) \o Flat(k, u)) \o k[e] = Flat(k, s) \o (Flat(k, u) \o k[e])
    <3> DEFINE p == Flat(k, s)
               q == Flat(k, u)
               r == k[e]
    <3>1. p \in Seq(B) /\ q \in Seq(B) /\ r \in Seq(B)
      BY <1>0 DEF Maps
    <3> HIDE DEF p, q, r, T
    <3>2. Associates(B)
      BY AllAssociate
    <3>3. (p \o q) \o r = p \o (q \o r)
      BY <3>1, <3>2, Zenon DEF Associates
    <3>4. QED
      BY <3>3 DEF p, q, r
  <2>5. QED
    BY <1>2, <2>1, <2>2, <2>3, <2>4
<1>3. \A u \in Seq(A) : u \in T
  <2> HIDE DEF T
  <2>1. QED
    BY <1>1, <1>2, SeqInduction, Z3
<1>4. QED
  BY <1>3

\* Flat of one sequence after another, for all of them.
Joins(k, A) == \A s, t \in Seq(A) : Flat(k, s \o t) = Flat(k, s) \o Flat(k, t)

LEMMA FlatJoins ==
  ASSUME NEW A, NEW B, NEW k, Maps(k, A, B)
  PROVE  Joins(k, A)
BY FlatConcat DEF Joins

\* Only what k gives for the elements matters.
LEMMA FlatSame ==
  ASSUME NEW A, NEW s \in Seq(A), NEW k, NEW l, \A e \in A : k[e] = l[e]
  PROVE  Flat(k, s) = Flat(l, s)
<1>1. \A i \in 1 .. Len(s) : k[s[i]] = l[s[i]]
  BY ElementOfSeq
<1>2. [i \in 1 .. Len(s) |-> k[s[i]]] = [i \in 1 .. Len(s) |-> l[s[i]]]
  BY <1>1
<1>3. QED
  BY <1>2 DEF Flat

\* Replacing twice is replacing once.
LEMMA FlatFlat ==
  ASSUME NEW A, NEW B, NEW C, NEW s \in Seq(A),
         NEW j, Maps(j, A, B),
         NEW k, Maps(k, B, C),
         NEW l, \A e \in A : l[e] = Flat(k, j[e])
  PROVE  Flat(k, Flat(j, s)) = Flat(l, s)
<1> DEFINE T == {u \in Seq(A) : Flat(k, Flat(j, u)) = Flat(l, u)}
<1>1. <<>> \in T
  BY FlatNone, EmptySeq
<1>2. ASSUME NEW u \in Seq(A), NEW e \in A, u \in T PROVE Append(u, e) \in T
  <2>1. Maps(l, A, C)
    <3>1. SUFFICES ASSUME NEW x \in A PROVE l[x] \in Seq(C)
      BY DEF Maps
    <3>2. j[x] \in Seq(B)
      BY DEF Maps
    <3>3. QED
      BY <3>2, FlatType
  <2>2. Flat(j, Append(u, e)) = Flat(j, u) \o j[e]
    BY FlatAppend
  <2>3. Flat(l, Append(u, e)) = Flat(l, u) \o l[e]
    BY <2>1, FlatAppend
  <2>4. Flat(j, u) \in Seq(B) /\ j[e] \in Seq(B)
    BY FlatType DEF Maps
  <2>5. Flat(k, Flat(j, u) \o j[e]) = Flat(k, Flat(j, u)) \o Flat(k, j[e])
    BY <2>4, FlatConcat
  <2>6. QED
    BY <1>2, <2>2, <2>3, <2>5, AppendProperties
<1>3. \A u \in Seq(A) : u \in T
  <2> HIDE DEF T
  <2>1. QED
    BY <1>1, <1>2, SeqInduction, Z3
<1>4. QED
  BY <1>3

\* One element for each: Flat is a map.
LEMMA FlatEach ==
  ASSUME NEW A, NEW s \in Seq(A), NEW g, NEW k, \A e \in A : k[e] = <<g[e]>>
  PROVE  /\ Flat(k, s) = [i \in 1 .. Len(s) |-> g[s[i]]]
         /\ Len(Flat(k, s)) = Len(s)
         /\ \A i \in 1 .. Len(s) : Flat(k, s)[i] = g[s[i]]
<1> DEFINE B == {g[e] : e \in A}
           M(u) == [i \in 1 .. Len(u) |-> g[u[i]]]
           T == {u \in Seq(A) : Flat(k, u) = M(u)}
<1>1. \A e \in A : g[e] \in B
  OBVIOUS
<1> HIDE DEF B
<1>2. \A u \in Seq(A) : M(u) \in Seq(B) /\ Len(M(u)) = Len(u) /\ Len(u) \in Nat
  BY <1>1, LenProperties, ElementOfSeq
<1>3. <<>> \in T
  <2>1. M(<<>>) = <<>>
    OBVIOUS
  <2>2. QED
    BY <2>1, FlatNone, EmptySeq
<1>4. ASSUME NEW u \in Seq(A), NEW e \in A, u \in T PROVE Append(u, e) \in T
  <2>1. Maps(k, A, B)
    <3>1. \A x \in B : <<x>> \in Seq(B)
      OBVIOUS
    <3>2. QED
      BY <1>1, <3>1 DEF Maps
  <2>2. Flat(k, Append(u, e)) = M(u) \o <<g[e]>>
    <3>1. Flat(k, Append(u, e)) = Flat(k, u) \o k[e]
      BY <2>1, FlatAppend
    <3>2. Flat(k, u) = M(u)
      BY <1>4
    <3>3. QED
      BY <3>1, <3>2
  <2>3. M(u) \o <<g[e]>> = Append(M(u), g[e])
    BY <1>1, <1>2, AppendIsConcat
  <2>4. Append(M(u), g[e]) = M(Append(u, e))
    <3> DEFINE v == Append(u, e)
               w == M(u)
               n == Len(u)
    <3>1. /\ n \in Nat /\ Len(v) = n + 1 /\ v[n + 1] = e /\ v \in Seq(A)
          /\ \A i \in 1 .. n : v[i] = u[i]
      BY AppendedMessages
    <3>2. w \in Seq(B) /\ Len(w) = n /\ \A i \in 1 .. n : w[i] = g[u[i]]
      BY <1>2
    <3>3. M(v) \in Seq(B) /\ Len(M(v)) = n + 1 /\ \A i \in 1 .. n + 1 : M(v)[i] = g[v[i]]
      BY <1>2, <3>1
    <3> HIDE DEF v, w, n, M
    <3>4. /\ Append(w, g[e]) \in Seq(B) /\ Len(Append(w, g[e])) = n + 1
          /\ \A i \in 1 .. n : Append(w, g[e])[i] = w[i]
          /\ Append(w, g[e])[n + 1] = g[e]
      BY <1>1, <3>2, AppendProperties
    <3>5. \A i \in 1 .. n + 1 : Append(w, g[e])[i] = M(v)[i]
      <4>1. \A i \in 1 .. n + 1 : i \in 1 .. n \/ i = n + 1
        BY <3>1
      <4>2. \A i \in 1 .. n : Append(w, g[e])[i] = M(v)[i]
        <5>1. \A i \in 1 .. n : i \in 1 .. n + 1
          BY <3>1
        <5>2. \A i \in 1 .. n : v[i] = u[i]
          BY <3>1
        <5>3. ASSUME NEW i \in 1 .. n PROVE Append(w, g[e])[i] = M(v)[i]
          <6>1. Append(w, g[e])[i] = w[i] /\ w[i] = g[u[i]]
            BY <3>2, <3>4
          <6>2. M(v)[i] = g[v[i]] /\ v[i] = u[i]
            BY <3>3, <5>1, <5>2
          <6>3. QED
            BY <6>1, <6>2
        <5>4. QED
          BY <5>3
      <4>3. Append(w, g[e])[n + 1] = M(v)[n + 1]
        <5>1. n + 1 \in 1 .. n + 1
          BY <3>1
        <5>2. QED
          BY <3>1, <3>3, <3>4, <5>1
      <4>4. QED
        BY <4>1, <4>2, <4>3
    <3>6. QED
      BY <3>3, <3>4, <3>5, SeqEqual DEF v, w
  <2>5. QED
    BY <2>2, <2>3, <2>4, AppendProperties
<1>5. \A u \in Seq(A) : u \in T
  <2> HIDE DEF T
  <2>1. QED
    BY <1>3, <1>4, SeqInduction, Z3
<1>6. QED
  BY <1>2, <1>5

\* A selection by place that looks at the element alone.
LEMMA OnlyIsFlat ==
  ASSUME NEW A, NEW s \in Seq(A), NEW I, NEW k,
         \A i \in 1 .. Len(s) : k[s[i]] = IF i \in I THEN <<s[i]>> ELSE <<>>
  PROVE  Only(s, I) = Flat(k, s)
<1>1. [i \in 1 .. Len(s) |-> IF i \in I THEN <<s[i]>> ELSE <<>>]
        = [i \in 1 .. Len(s) |-> k[s[i]]]
  OBVIOUS
<1>2. QED
  BY <1>1 DEF Only, Flat

-----------------------------------------------------------------------------
(* Kinds of blocks *)

\* The blocks of some types.
Typed(types) == {b \in MessageBlocks : b.type \in types}

\* A block of one of the types is kept.
Sel(types) == [b \in MessageBlocks |-> IF b.type \in types THEN <<b>> ELSE <<>>]

\* What Sel gives.
LEMMA SelMaps ==
  ASSUME NEW types
  PROVE  /\ Maps(Sel(types), MessageBlocks, MessageBlocks)
         /\ Maps(Sel(types), MessageBlocks, Typed(types))
<1>1. \A b \in MessageBlocks : /\ Sel(types)[b] = IF b.type \in types THEN <<b>> ELSE <<>>
  BY DEF Sel
<1>2. \A b \in Typed(types) : b \in MessageBlocks
  BY DEF Typed
<1>3. \A A : <<>> \in Seq(A) /\ \A b \in A : <<b>> \in Seq(A)
  OBVIOUS
<1>4. \A b \in MessageBlocks : b.type \in types => b \in Typed(types)
  BY DEF Typed
<1>5. QED
  BY <1>1, <1>3, <1>4 DEF Maps

\* The blocks of some types, as Flat.
LEMMA OfIsFlat ==
  ASSUME NEW s \in Seq(MessageBlocks), NEW types
  PROVE  Of(s, types) = Flat(Sel(types), s)
<1> DEFINE I == {i \in 1 .. Len(s) : s[i].type \in types}
<1>1. \A i \in 1 .. Len(s) : Sel(types)[s[i]] = IF i \in I THEN <<s[i]>> ELSE <<>>
  BY ElementOfSeq DEF Sel
<1>2. Of(s, types) = Only(s, I)
  BY DEF Of
<1> HIDE DEF I
<1>3. QED
  BY <1>1, <1>2, OnlyIsFlat

\* The blocks of some types: none of none, of each part in turn, of one.
LEMMA OfFacts ==
  ASSUME NEW types
  PROVE  /\ Of(<<>>, types) = <<>>
         /\ \A s \in Seq(MessageBlocks) : /\ Of(s, types) \in Seq(Typed(types))
                                          /\ Of(s, types) \in Seq(MessageBlocks)
         /\ \A s, t \in Seq(MessageBlocks) : Of(s \o t, types) = Of(s, types) \o Of(t, types)
         /\ \A b \in MessageBlocks : Of(<<b>>, types) = IF b.type \in types THEN <<b>> ELSE <<>>
<1> DEFINE k == Sel(types)
<1>1. Maps(k, MessageBlocks, MessageBlocks) /\ Maps(k, MessageBlocks, Typed(types))
  BY SelMaps
<1>2. \A s \in Seq(MessageBlocks) : Of(s, types) = Flat(k, s)
  BY OfIsFlat
<1>3. \A b \in MessageBlocks : k[b] = IF b.type \in types THEN <<b>> ELSE <<>>
  BY DEF Sel
<1> HIDE DEF k
<1>4. Of(<<>>, types) = <<>>
  BY <1>2, FlatNone, EmptySeq
<1>5. \A s \in Seq(MessageBlocks) : /\ Of(s, types) \in Seq(Typed(types))
                                    /\ Of(s, types) \in Seq(MessageBlocks)
  BY <1>1, <1>2, FlatType
<1>6. \A s, t \in Seq(MessageBlocks) : Of(s \o t, types) = Of(s, types) \o Of(t, types)
  <2>1. SUFFICES ASSUME NEW s \in Seq(MessageBlocks), NEW t \in Seq(MessageBlocks)
                 PROVE  Of(s \o t, types) = Of(s, types) \o Of(t, types)
    OBVIOUS
  <2>2. s \o t \in Seq(MessageBlocks)
    BY ConcatProperties
  <2>3. Flat(k, s \o t) = Flat(k, s) \o Flat(k, t)
    BY <1>1, FlatConcat
  <2>4. QED
    BY <1>2, <2>2, <2>3
<1>7. \A b \in MessageBlocks : Of(<<b>>, types) = IF b.type \in types THEN <<b>> ELSE <<>>
  <2>1. SUFFICES ASSUME NEW b \in MessageBlocks PROVE Of(<<b>>, types) = k[b]
    BY <1>3
  <2>2. <<b>> \in Seq(MessageBlocks)
    OBVIOUS
  <2>3. QED
    BY <1>1, <1>2, <2>2, FlatOne
<1>8. QED
  BY <1>4, <1>5, <1>6, <1>7

\* Every element dropped.
LEMMA FlatNothing ==
  ASSUME NEW A, NEW s \in Seq(A), NEW k, \A e \in A : k[e] = <<>>
  PROVE  Flat(k, s) = <<>>
<1>1. Maps(k, A, {})
  <2>1. <<>> \in Seq({})
    BY EmptySeq
  <2>2. QED
    BY <2>1 DEF Maps
<1>2. Flat(k, s) \in Seq({})
  BY <1>1, FlatType
<1>3. \A u \in Seq({}) : u = <<>>
  OBVIOUS
<1>4. QED
  BY <1>2, <1>3

\* Every element kept.
LEMMA FlatAll ==
  ASSUME NEW A, NEW s \in Seq(A), NEW k, \A e \in A : k[e] = <<e>>
  PROVE  Flat(k, s) = s
<1> DEFINE g == [e \in A |-> e]
<1>1. \A e \in A : k[e] = <<g[e]>>
  OBVIOUS
<1>2. \A i \in 1 .. Len(s) : g[s[i]] = s[i]
  BY ElementOfSeq
<1> HIDE DEF g
<1>3. Flat(k, s) = [i \in 1 .. Len(s) |-> g[s[i]]]
  BY <1>1, FlatEach
<1>4. [i \in 1 .. Len(s) |-> g[s[i]]] = s
  BY <1>2
<1>5. QED
  BY <1>3, <1>4

\* All of the blocks are of one kind, or none is.
LEMMA OfTyped ==
  ASSUME NEW some, NEW types, NEW s \in Seq(Typed(some))
  PROVE  /\ s \in Seq(MessageBlocks)
         /\ some \cap types = {} => Of(s, types) = <<>>
         /\ some \subseteq types => Of(s, types) = s
<1>1. Typed(some) \subseteq MessageBlocks
  BY DEF Typed
<1>2. s \in Seq(MessageBlocks)
  BY <1>1, SeqWider
<1>3. Of(s, types) = Flat(Sel(types), s)
  BY <1>2, OfIsFlat
<1>4. \A b \in Typed(some) : /\ b.type \in some
                             /\ Sel(types)[b] = IF b.type \in types THEN <<b>> ELSE <<>>
  BY DEF Typed, Sel
<1>5. ASSUME some \cap types = {} PROVE Of(s, types) = <<>>
  <2>1. \A b \in Typed(some) : Sel(types)[b] = <<>>
    BY <1>4, <1>5
  <2>2. QED
    BY <1>3, <2>1, FlatNothing
<1>6. ASSUME some \subseteq types PROVE Of(s, types) = s
  <2>1. \A b \in Typed(some) : Sel(types)[b] = <<b>>
    BY <1>4, <1>6
  <2>2. QED
    BY <1>3, <2>1, FlatAll
<1>7. QED
  BY <1>2, <1>5, <1>6

\* A kind of a kind.
LEMMA OfOf ==
  ASSUME NEW some, NEW types, NEW s \in Seq(MessageBlocks)
  PROVE  /\ some \cap types = {} => Of(Of(s, some), types) = <<>>
         /\ some \subseteq types => Of(Of(s, some), types) = Of(s, some)
<1>1. Of(s, some) \in Seq(Typed(some))
  BY OfFacts
<1>2. QED
  BY <1>1, OfTyped

-----------------------------------------------------------------------------
(* Messages on the wire *)

\* The roles a wire message can have.
Roles == {"user", "assistant", "tool", "model"}

\* The messages on the wire.
Wires == [role : Roles, parts : Seq(MessageBlocks)]

\* The parts of a wire message.
PartsOf == [w \in Wires |-> w.parts]

\* What Wire builds.
LEMMA WireTyped ==
  ASSUME NEW role \in Roles, NEW parts \in Seq(MessageBlocks)
  PROVE  /\ Wire(role, parts) \in Wires
         /\ Wire(role, parts).role = role /\ Wire(role, parts).parts = parts
         /\ PartsOf[Wire(role, parts)] = parts
<1>1. Wire(role, parts) \in Wires
  BY DEF Wire, Wires
<1>2. Wire(role, parts).role = role /\ Wire(role, parts).parts = parts
  BY DEF Wire
<1>3. QED
  BY <1>1, <1>2 DEF PartsOf

\* What PartsOf gives.
LEMMA PartsMaps == Maps(PartsOf, Wires, MessageBlocks)
BY DEF Maps, PartsOf, Wires

\* The blocks of messages on the wire, and those of one.
LEMMA PartsFacts ==
  /\ Flat(PartsOf, <<>>) = <<>>
  /\ \A s \in Seq(Wires) : Flat(PartsOf, s) \in Seq(MessageBlocks)
  /\ \A s, t \in Seq(Wires) : Flat(PartsOf, s \o t) = Flat(PartsOf, s) \o Flat(PartsOf, t)
  /\ \A role \in Roles, parts \in Seq(MessageBlocks) :
       <<Wire(role, parts)>> \in Seq(Wires) /\ Flat(PartsOf, <<Wire(role, parts)>>) = parts
<1>1. \A w \in Wires : <<w>> \in Seq(Wires) /\ Flat(PartsOf, <<w>>) = PartsOf[w]
  <2>1. \A w \in Wires : <<w>> \in Seq(Wires)
    OBVIOUS
  <2>2. QED
    BY <2>1, PartsMaps, FlatOne
<1>2. \A s, t \in Seq(Wires) : Flat(PartsOf, s \o t) = Flat(PartsOf, s) \o Flat(PartsOf, t)
  BY PartsMaps, FlatConcat
<1>3. \A s \in Seq(Wires) : Flat(PartsOf, s) \in Seq(MessageBlocks)
  BY PartsMaps, FlatType
<1>4. QED
  BY <1>1, <1>2, <1>3, FlatNone, WireTyped

\* The content of a result keeps its type, its call and its name.
LEMMA ContentTyped ==
  ASSUME NEW b \in MessageBlocks
  PROVE  /\ Content(b) \in MessageBlocks
         /\ Content(b).type = b.type /\ Content(b).id = b.id /\ Content(b).name = b.name
         /\ Content(b).failed = b.failed
         /\ Content(b).body = IF b.failed /\ b.body = <<>> THEN NoMessage ELSE b.body
BY Texts DEF Content, MessageBlocks

\* The content of a result, nothing of other blocks.
ResultOf ==
  [b \in MessageBlocks |-> IF b.type = "tool_result" THEN <<Content(b)>> ELSE <<>>]

\* What ResultOf gives.
LEMMA ResultMaps == Maps(ResultOf, MessageBlocks, Typed({"tool_result"}))
<1>1. \A b \in MessageBlocks : b.type = "tool_result" => Content(b) \in Typed({"tool_result"})
  BY ContentTyped DEF Typed
<1>2. \A A : <<>> \in Seq(A) /\ \A b \in A : <<b>> \in Seq(A)
  OBVIOUS
<1>3. \A b \in MessageBlocks :
         ResultOf[b] = IF b.type = "tool_result" THEN <<Content(b)>> ELSE <<>>
  BY DEF ResultOf
<1>4. QED
  BY <1>1, <1>2, <1>3 DEF Maps

\* The blocks of some types are blocks.
LEMMA TypedSubset ==
  ASSUME NEW types
  PROVE  /\ Typed(types) \subseteq MessageBlocks
         /\ \A k, A : Maps(k, A, Typed(types)) => Maps(k, A, MessageBlocks)
<1>1. Typed(types) \subseteq MessageBlocks
  BY DEF Typed
<1>2. \A s \in Seq(Typed(types)) : s \in Seq(MessageBlocks)
  BY <1>1, SeqWider
<1>3. QED
  BY <1>1, <1>2 DEF Maps

\* Each result is a message of its own.
LEMMA ResultParts ==
  ASSUME NEW content \in Seq(MessageBlocks)
  PROVE  LET wire == ConvertToolMessage(content)
             r    == Of(content, {"tool_result"})
         IN  /\ wire \in Seq(Wires)
             /\ Len(wire) = Len(r)
             /\ \A i \in 1 .. Len(r) : wire[i] = Wire("tool", <<Content(r[i])>>)
             /\ Flat(PartsOf, wire) = Flat(ResultOf, content)
             /\ Flat(ResultOf, content) = [i \in 1 .. Len(r) |-> Content(r[i])]
<1> DEFINE wire == ConvertToolMessage(content)
           r == Of(content, {"tool_result"})
           g == [b \in MessageBlocks |-> Wire("tool", <<Content(b)>>)]
           k == [b \in MessageBlocks |-> <<g[b]>>]
           c == [b \in MessageBlocks |-> Content(b)]
           l == [b \in MessageBlocks |-> <<c[b]>>]
           sel == Sel({"tool_result"})
<1>1. r \in Seq(MessageBlocks) /\ Len(r) \in Nat /\ r = Flat(sel, content)
  BY OfFacts, OfIsFlat, LenProperties
<1>2. \A b \in MessageBlocks : /\ g[b] = Wire("tool", <<Content(b)>>) /\ k[b] = <<g[b]>>
                               /\ g[b] \in Wires /\ c[b] = Content(b) /\ c[b] \in MessageBlocks
                               /\ l[b] = <<c[b]>> /\ l[b] \in Seq(MessageBlocks)
                               /\ k[b] \in Seq(Wires)
                               /\ Flat(PartsOf, k[b]) = l[b]
  <2>1. SUFFICES ASSUME NEW b \in MessageBlocks
                 PROVE  /\ Wire("tool", <<Content(b)>>) \in Wires /\ Content(b) \in MessageBlocks
                        /\ <<Content(b)>> \in Seq(MessageBlocks)
                        /\ <<Wire("tool", <<Content(b)>>)>> \in Seq(Wires)
                        /\ Flat(PartsOf, <<Wire("tool", <<Content(b)>>)>>) = <<Content(b)>>
    OBVIOUS
  <2>2. Content(b) \in MessageBlocks
    BY ContentTyped
  <2>3. <<Content(b)>> \in Seq(MessageBlocks) /\ "tool" \in Roles
    BY <2>2 DEF Roles
  <2>4. QED
    BY <2>2, <2>3, WireTyped, PartsFacts
<1>3. wire = [i \in 1 .. Len(r) |-> Wire("tool", <<Content(r[i])>>)]
  BY DEF ConvertToolMessage
<1>4. \A i \in 1 .. Len(r) : r[i] \in MessageBlocks
  BY <1>1, ElementOfSeq
<1>5. Maps(sel, MessageBlocks, MessageBlocks)
  BY SelMaps
<1>6. \A b \in MessageBlocks : ResultOf[b] = Flat(l, sel[b])
  <2>1. SUFFICES ASSUME NEW b \in MessageBlocks PROVE ResultOf[b] = Flat(l, sel[b])
    OBVIOUS
  <2>2. sel[b] = (IF b.type = "tool_result" THEN <<b>> ELSE <<>>)
        /\ ResultOf[b] = (IF b.type = "tool_result" THEN <<Content(b)>> ELSE <<>>)
    BY DEF Sel, ResultOf
  <2>3. Maps(l, MessageBlocks, MessageBlocks)
    BY <1>2 DEF Maps
  <2> HIDE DEF l, c, sel
  <2>4. Flat(l, <<b>>) = l[b] /\ Flat(l, <<>>) = <<>>
    BY <2>3, FlatOne, FlatNone
  <2>5. QED
    BY <1>2, <2>2, <2>4
<1> HIDE DEF wire, r, g, k, c, l, sel
<1>7. Flat(k, r) = [i \in 1 .. Len(r) |-> g[r[i]]]
  <2>1. \A b \in MessageBlocks : k[b] = <<g[b]>>
    BY <1>2
  <2>2. QED
    BY <1>1, <2>1, FlatEach
<1>8. wire = Flat(k, r) /\ wire \in Seq(Wires)
  <2>1. wire = Flat(k, r)
    BY <1>2, <1>3, <1>4, <1>7
  <2>2. Maps(k, MessageBlocks, Wires)
    BY <1>2 DEF Maps
  <2>3. QED
    BY <1>1, <2>1, <2>2, FlatType
<1>9. Flat(l, r) = [i \in 1 .. Len(r) |-> c[r[i]]]
  <2>1. \A b \in MessageBlocks : l[b] = <<c[b]>>
    BY <1>2
  <2>2. QED
    BY <1>1, <2>1, FlatEach
<1>10. Flat(PartsOf, wire) = Flat(l, r)
  <2>1. Maps(k, MessageBlocks, Wires)
    BY <1>2 DEF Maps
  <2>2. \A b \in MessageBlocks : l[b] = Flat(PartsOf, k[b])
    BY <1>2
  <2>3. QED
    BY <1>1, <1>8, <2>1, <2>2, PartsMaps, FlatFlat
<1>11. Flat(l, r) = Flat(ResultOf, content)
  <2>1. Maps(l, MessageBlocks, MessageBlocks)
    BY <1>2 DEF Maps
  <2>2. Flat(l, Flat(sel, content)) = Flat(ResultOf, content)
    BY <1>5, <1>6, <2>1, FlatFlat
  <2>3. QED
    BY <1>1, <2>2
<1>12. Flat(ResultOf, content) = [i \in 1 .. Len(r) |-> Content(r[i])]
  BY <1>2, <1>4, <1>9, <1>11
<1>13. Len(wire) = Len(r)
  BY <1>1, <1>3
<1>14. QED
  BY <1>3, <1>8, <1>10, <1>11, <1>12, <1>13 DEF wire, r

\* What is no result, by its types.
LEMMA RestIsOf ==
  ASSUME NEW m \in Messages
  PROVE  Rest(m) = Of(m.content, ReplayTypes \ {"tool_result"})
<1>1. m.content \in Seq(MessageBlocks)
  BY DEF Messages
<1>2. \A i \in 1 .. Len(m.content) : m.content[i].type \in ReplayTypes
  <2>1. \A i \in 1 .. Len(m.content) : m.content[i] \in MessageBlocks
    BY <1>1, ElementOfSeq
  <2>2. QED
    BY <2>1 DEF MessageBlocks
<1>3. QED
  BY <1>2 DEF Rest, Of

\* What is left of a message beside its results, if there is anything else.
Remaining(m, parts) == IF Rest(m) = <<>> /\ m.content # <<>> THEN <<>> ELSE parts

\* A user message with results becomes these and then the rest of it.
LEMMA SplitParts ==
  ASSUME NEW m \in Messages, NEW parts \in Seq(MessageBlocks)
  PROVE  /\ SplitUserToolResults(m, parts) \in Seq(Wires)
         /\ Flat(PartsOf, SplitUserToolResults(m, parts))
              = Flat(ResultOf, m.content) \o Remaining(m, parts)
<1> DEFINE wire == ConvertToolMessage(m.content)
           one == <<Wire(m.role, parts)>>
           c == m.content
<1>1. c \in Seq(MessageBlocks) /\ m.role \in Roles
  BY DEF Messages, Roles
<1>2. /\ wire \in Seq(Wires) /\ Flat(PartsOf, wire) = Flat(ResultOf, c)
      /\ one \in Seq(Wires) /\ Flat(PartsOf, one) = parts
      /\ <<>> \in Seq(Wires) /\ Flat(PartsOf, <<>>) = <<>>
  BY <1>1, ResultParts, PartsFacts, EmptySeq
<1>3. CASE Rest(m) = c
  <2>1. SplitUserToolResults(m, parts) = one
    BY <1>3 DEF SplitUserToolResults
  <2>2. Flat(ResultOf, c) = <<>>
    <3>1. c \in Seq(Typed(ReplayTypes \ {"tool_result"}))
      <4>1. Of(c, ReplayTypes \ {"tool_result"}) \in Seq(Typed(ReplayTypes \ {"tool_result"}))
        BY <1>1, OfFacts
      <4>2. QED
        BY <1>3, <4>1, RestIsOf
    <3>2. \A b \in Typed(ReplayTypes \ {"tool_result"}) : ResultOf[b] = <<>>
      BY DEF Typed, ResultOf
    <3> HIDE DEF c
    <3>3. QED
      BY <3>1, <3>2, FlatNothing
  <2>3. Remaining(m, parts) = parts
    BY <1>3 DEF Remaining
  <2>4. <<>> \o parts = parts
    BY ConcatEmptySeq
  <2>5. QED
    BY <1>2, <2>1, <2>2, <2>3, <2>4
<1>4. CASE Rest(m) # c
  <2>1. SplitUserToolResults(m, parts) = wire \o (IF Rest(m) = <<>> THEN <<>> ELSE one)
    BY <1>4 DEF SplitUserToolResults
  <2>2. c # <<>>
    <3>1. c = <<>> => Rest(m) = <<>>
      BY RestIsOf, OfFacts
    <3>2. QED
      BY <1>4, <3>1
  <2>3. Remaining(m, parts) = IF Rest(m) = <<>> THEN <<>> ELSE parts
    BY <2>2 DEF Remaining
  <2> DEFINE rest == IF Rest(m) = <<>> THEN <<>> ELSE one
  <2>4. rest \in Seq(Wires) /\ Flat(PartsOf, rest) = Remaining(m, parts)
    BY <1>2, <2>3
  <2> HIDE DEF rest, wire, one
  <2>5. /\ wire \o rest \in Seq(Wires)
        /\ Flat(PartsOf, wire \o rest) = Flat(PartsOf, wire) \o Flat(PartsOf, rest)
    BY <1>2, <2>4, PartsFacts, ConcatProperties
  <2>6. QED
    BY <1>2, <2>1, <2>4, <2>5 DEF rest, wire, one
<1>5. QED
  BY <1>3, <1>4

-----------------------------------------------------------------------------
(* The blocks of one message on the wire *)

\* The types of block that a message of a role can hold.
KindsOf(role) ==
  CASE role = "assistant" -> BlockTypes
    [] role = "tool" -> {"tool_result"}
    [] OTHER -> {"text", "image", "document", "tool_result"}

\* The messages of a conversation: only the model calls, and only it does not answer.
Sound == {m \in Messages : m.content \in Seq(Typed(KindsOf(m.role)))}

\* Sequences of one block, and of none.
LEMMA OneBlock ==
  /\ \A b \in MessageBlocks : <<b>> \in Seq(MessageBlocks)
  /\ \A types : \A b \in Typed(types) : <<b>> \in Seq(Typed(types)) /\ b \in MessageBlocks
  /\ \A types : <<>> \in Seq(Typed(types))
  /\ <<>> \in Seq(MessageBlocks)
<1>1. \A A : <<>> \in Seq(A) /\ \A b \in A : <<b>> \in Seq(A)
  OBVIOUS
<1>2. \A types : \A b \in Typed(types) : b \in MessageBlocks
  BY DEF Typed
<1>3. QED
  BY <1>1, <1>2

\* Blocks of some types after blocks of these types.
LEMMA ConcatTyped ==
  ASSUME NEW types, NEW s \in Seq(Typed(types)), NEW t \in Seq(Typed(types))
  PROVE  s \o t \in Seq(Typed(types))
BY ConcatProperties

\* The joined text is a text block.
LEMMA JoinedText ==
  ASSUME NEW content \in Seq(MessageBlocks)
  PROVE  Joined(content) \in Typed({"text"})
<1>1. Joined(content) \in MessageBlocks
  BY JoinedType
<1>2. Joined(content).type = "text"
  BY DEF Joined, Words, Block
<1>3. QED
  BY <1>1, <1>2 DEF Typed

\* The parts of what a model has said, for OpenAI.
LEMMA AnswerParts ==
  ASSUME NEW content \in Seq(MessageBlocks)
  PROVE  /\ AssistantText(content) \in Seq(Typed({"text"}))
         /\ Unsign(Of(content, {"tool_use"})) \in Seq(Typed({"tool_use"}))
<1>1. AssistantText(content) \in Seq(Typed({"text"}))
  BY JoinedText, OneBlock DEF AssistantText
<1> DEFINE calls == Of(content, {"tool_use"})
           T == Typed({"tool_use"})
<1>2. Len(calls) \in Nat /\ \A i \in 1 .. Len(calls) : calls[i] \in T
  <2>1. calls \in Seq(T)
    BY OfFacts
  <2> HIDE DEF calls, T
  <2>2. QED
    BY <2>1, LenProperties, ElementOfSeq
<1>3. \A b \in T : [b EXCEPT !.signature = <<>>] \in T
  BY NoString DEF Typed, MessageBlocks
<1> HIDE DEF calls, T
<1>4. \A i \in 1 .. Len(calls) : [calls[i] EXCEPT !.signature = <<>>] \in T
  BY <1>2, <1>3
<1>5. Unsign(calls) \in Seq(T)
  BY <1>2, <1>4 DEF Unsign
<1>6. QED
  BY <1>1, <1>5 DEF calls, T

\* Dropping what has no source keeps the types.
LEMMA SourcedTyped ==
  ASSUME NEW types, NEW s \in Seq(Typed(types))
  PROVE  Sourced(s) \in Seq(Typed(types))
BY OnlyType DEF Sourced

\* The parts of a user message hold no call and no result.
LEMMA UserTyped ==
  ASSUME NEW content \in Seq(MessageBlocks)
  PROVE  /\ UserParts(content) \in Seq(Typed({"text", "image"}))
         /\ InputParts(content) \in Seq(Typed({"text", "image"}))
<1>1. Sourced(Of(content, {"text", "image"})) \in Seq(Typed({"text", "image"}))
  BY OfFacts, SourcedTyped
<1>2. Joined(content) \in Typed({"text", "image"})
  BY JoinedText DEF Typed
<1>3. <<Joined(content)>> \in Seq(Typed({"text", "image"}))
  BY <1>2, OneBlock
<1>4. QED
  BY <1>1, <1>3 DEF UserParts, InputParts

\* Blocks of some types are blocks.
LEMMA TypedIn ==
  ASSUME NEW types, NEW s \in Seq(Typed(types))
  PROVE  s \in Seq(MessageBlocks)
BY TypedSubset, SeqWider

\* What the two OpenAI APIs are sent for a message, part by part.
LEMMA OpenAIParts ==
  ASSUME NEW m \in Sound
  PROVE  LET c == m.content
         IN  /\ OpenAIMessage(m) \in Seq(Wires) /\ ResponsesItems(m) \in Seq(Wires)
             /\ m.role = "assistant" =>
                  /\ Flat(PartsOf, OpenAIMessage(m))
                       = AssistantText(c) \o Unsign(Of(c, {"tool_use"}))
                  /\ Flat(PartsOf, ResponsesItems(m))
                       = AssistantText(c) \o Unsign(Of(c, {"tool_use"}))
             /\ m.role = "tool" =>
                  /\ Flat(PartsOf, OpenAIMessage(m)) = Flat(ResultOf, c)
                  /\ Flat(PartsOf, ResponsesItems(m)) = Flat(ResultOf, c)
             /\ m.role = "user" =>
                  /\ Flat(PartsOf, OpenAIMessage(m))
                       = Flat(ResultOf, c) \o Remaining(m, UserParts(Rest(m)))
                  /\ Flat(PartsOf, ResponsesItems(m))
                       = Flat(ResultOf, c) \o Remaining(m, InputParts(Rest(m)))
<1> DEFINE c == m.content
           parts == AssistantText(c) \o Unsign(Of(c, {"tool_use"}))
<1>1. /\ m \in Messages /\ c \in Seq(MessageBlocks) /\ Rest(m) \in Seq(MessageBlocks)
      /\ m.role \in {"assistant", "tool", "user"}
  <2>1. m \in Messages
    BY DEF Sound
  <2>2. c \in Seq(MessageBlocks) /\ m.role \in {"assistant", "tool", "user"}
    BY <2>1 DEF Messages
  <2>3. Rest(m) \in Seq(MessageBlocks)
    <3>1. Of(c, ReplayTypes \ {"tool_result"}) \in Seq(MessageBlocks)
      BY <2>2, OfFacts
    <3>2. QED
      BY <2>1, <3>1, RestIsOf
  <2>4. QED
    BY <2>1, <2>2, <2>3
<1>2. parts \in Seq(MessageBlocks)
  <2>1. AssistantText(c) \in Seq(MessageBlocks) /\ Unsign(Of(c, {"tool_use"})) \in Seq(MessageBlocks)
    BY <1>1, AssistantParts
  <2>2. QED
    BY <2>1, ConcatProperties
<1>3. CASE m.role = "assistant"
  <2>1. OpenAIMessage(m) = <<Wire("assistant", parts)>>
    BY <1>3 DEF OpenAIMessage
  <2>2. OpenAIMessage(m) \in Seq(Wires) /\ Flat(PartsOf, OpenAIMessage(m)) = parts
    <3>1. "assistant" \in Roles
      BY DEF Roles
    <3> HIDE DEF parts
    <3>2. QED
      BY <1>2, <2>1, <3>1, PartsFacts
  <2>3. ResponsesItems(m) = [i \in 1 .. Len(parts) |-> Wire("assistant", <<parts[i]>>)]
    BY <1>3 DEF ResponsesItems
  <2>4. ResponsesItems(m) \in Seq(Wires) /\ Flat(PartsOf, ResponsesItems(m)) = parts
    <3> DEFINE g == [b \in MessageBlocks |-> Wire("assistant", <<b>>)]
               k == [b \in MessageBlocks |-> <<g[b]>>]
               l == [b \in MessageBlocks |-> <<b>>]
    <3>1. \A b \in MessageBlocks : /\ g[b] = Wire("assistant", <<b>>) /\ k[b] = <<g[b]>>
                                   /\ k[b] \in Seq(Wires) /\ l[b] = <<b>>
                                   /\ l[b] = Flat(PartsOf, k[b])
      <4>1. \A b \in MessageBlocks : <<b>> \in Seq(MessageBlocks) /\ "assistant" \in Roles
        BY OneBlock DEF Roles
      <4>2. QED
        BY <4>1, PartsFacts
    <3>2. \A i \in 1 .. Len(parts) : parts[i] \in MessageBlocks
      BY <1>2, ElementOfSeq
    <3> HIDE DEF parts, g, k, l
    <3>3. Flat(k, parts) = [i \in 1 .. Len(parts) |-> g[parts[i]]]
      <4>1. \A b \in MessageBlocks : k[b] = <<g[b]>>
        BY <3>1
      <4>2. QED
        BY <1>2, <4>1, FlatEach
    <3>4. ResponsesItems(m) = Flat(k, parts)
      BY <2>3, <3>1, <3>2, <3>3
    <3>5. Maps(k, MessageBlocks, Wires)
      BY <3>1 DEF Maps
    <3>6. Flat(PartsOf, Flat(k, parts)) = Flat(l, parts)
      <4>1. \A b \in MessageBlocks : l[b] = Flat(PartsOf, k[b])
        BY <3>1
      <4>2. QED
        BY <1>2, <3>5, <4>1, PartsMaps, FlatFlat
    <3>7. Flat(l, parts) = parts
      <4>1. \A b \in MessageBlocks : l[b] = <<b>>
        BY <3>1
      <4>2. QED
        BY <1>2, <4>1, FlatAll
    <3>8. QED
      BY <1>2, <3>4, <3>5, <3>6, <3>7, FlatType
  <2>5. QED
    BY <1>3, <2>2, <2>4
<1>4. CASE m.role = "tool"
  <2>1. OpenAIMessage(m) = ConvertToolMessage(c) /\ ResponsesItems(m) = ConvertToolMessage(c)
    BY <1>4 DEF OpenAIMessage, ResponsesItems
  <2>2. QED
    BY <1>1, <1>4, <2>1, ResultParts
<1>5. CASE m.role = "user"
  <2>1. /\ OpenAIMessage(m) = SplitUserToolResults(m, UserParts(Rest(m)))
        /\ ResponsesItems(m) = SplitUserToolResults(m, InputParts(Rest(m)))
    BY <1>5 DEF OpenAIMessage, ResponsesItems
  <2>2. UserParts(Rest(m)) \in Seq(MessageBlocks) /\ InputParts(Rest(m)) \in Seq(MessageBlocks)
    BY <1>1, UserTyped, TypedIn
  <2>3. QED
    BY <1>1, <1>5, <2>1, <2>2, SplitParts
<1>6. QED
  BY <1>1, <1>3, <1>4, <1>5

\* Blocks of some types, and then each replaced; each replaced, and then some types.
LEMMA SelThen ==
  ASSUME NEW C, NEW types, NEW k, Maps(k, MessageBlocks, C), NEW s \in Seq(MessageBlocks),
         NEW l, \A b \in MessageBlocks : l[b] = IF b.type \in types THEN k[b] ELSE <<>>
  PROVE  Flat(k, Of(s, types)) = Flat(l, s)
<1> DEFINE sel == Sel(types)
<1>1. Of(s, types) = Flat(sel, s) /\ Maps(sel, MessageBlocks, MessageBlocks)
  BY OfIsFlat, SelMaps
<1>2. \A b \in MessageBlocks : l[b] = Flat(k, sel[b])
  <2>1. SUFFICES ASSUME NEW b \in MessageBlocks PROVE l[b] = Flat(k, sel[b])
    OBVIOUS
  <2>2. sel[b] = IF b.type \in types THEN <<b>> ELSE <<>>
    BY DEF Sel
  <2> HIDE DEF sel
  <2>3. Flat(k, <<b>>) = k[b] /\ Flat(k, <<>>) = <<>>
    BY FlatOne, FlatNone
  <2>4. QED
    BY <2>2, <2>3
<1> HIDE DEF sel
<1>3. Flat(k, Flat(sel, s)) = Flat(l, s)
  BY <1>1, <1>2, FlatFlat
<1>4. QED
  BY <1>1, <1>3

\* Selecting from what Flat gives is selecting from each piece.
LEMMA ThenSel ==
  ASSUME NEW A, NEW types, NEW k, Maps(k, A, MessageBlocks), NEW s \in Seq(A),
         NEW l, \A b \in A : l[b] = Of(k[b], types)
  PROVE  Of(Flat(k, s), types) = Flat(l, s)
<1> DEFINE sel == Sel(types)
<1>1. Maps(sel, MessageBlocks, MessageBlocks)
  BY SelMaps
<1>2. Flat(k, s) \in Seq(MessageBlocks)
  BY FlatType
<1>3. Of(Flat(k, s), types) = Flat(sel, Flat(k, s))
  BY <1>2, OfIsFlat
<1>4. \A b \in A : l[b] = Flat(sel, k[b])
  BY OfIsFlat DEF Maps
<1> HIDE DEF sel
<1>5. Flat(sel, Flat(k, s)) = Flat(l, s)
  BY <1>1, <1>4, FlatFlat
<1>6. QED
  BY <1>3, <1>5

\* Each block of some types replaced by one.
LEMMA EachOf ==
  ASSUME NEW types, NEW g, NEW l, NEW s \in Seq(MessageBlocks),
         \A b \in MessageBlocks : l[b] = IF b.type \in types THEN <<g[b]>> ELSE <<>>
  PROVE  LET r == Of(s, types)
         IN  /\ Flat(l, s) = [i \in 1 .. Len(r) |-> g[r[i]]]
             /\ Len(Flat(l, s)) = Len(r) /\ Len(r) \in Nat
             /\ \A i \in 1 .. Len(r) : /\ Flat(l, s)[i] = g[r[i]]
                                       /\ r[i] \in Typed(types) /\ r[i] \in MessageBlocks
<1> DEFINE r == Of(s, types)
           k == [b \in MessageBlocks |-> <<g[b]>>]
           C == {g[b] : b \in MessageBlocks}
<1>1. Maps(k, MessageBlocks, C)
  <2>1. \A b \in MessageBlocks : k[b] = <<g[b]>> /\ g[b] \in C
    OBVIOUS
  <2>2. \A x \in C : <<x>> \in Seq(C)
    OBVIOUS
  <2> HIDE DEF k, C
  <2>3. QED
    BY <2>1, <2>2 DEF Maps
<1>2. \A b \in MessageBlocks : k[b] = <<g[b]>> /\ l[b] = IF b.type \in types THEN k[b] ELSE <<>>
  OBVIOUS
<1> HIDE DEF k, C
<1>3. Flat(k, r) = Flat(l, s)
  BY <1>1, <1>2, SelThen
<1>4. /\ r \in Seq(MessageBlocks) /\ Len(r) \in Nat
      /\ \A i \in 1 .. Len(r) : r[i] \in Typed(types) /\ r[i] \in MessageBlocks
  <2>1. r \in Seq(Typed(types)) /\ r \in Seq(MessageBlocks)
    BY OfFacts
  <2> HIDE DEF r
  <2>2. QED
    BY <2>1, LenProperties, ElementOfSeq
<1> HIDE DEF r
<1>5. /\ Flat(k, r) = [i \in 1 .. Len(r) |-> g[r[i]]] /\ Len(Flat(k, r)) = Len(r)
      /\ \A i \in 1 .. Len(r) : Flat(k, r)[i] = g[r[i]]
  <2>1. \A b \in MessageBlocks : k[b] = <<g[b]>>
    BY <1>2
  <2>2. QED
    BY <1>4, <2>1, FlatEach
<1>6. QED
  BY <1>3, <1>4, <1>5 DEF r

\* l replaces each block of the types by what g gives for it, and drops the others.
Each(types, g, l, s) ==
  LET r == Of(s, types)
  IN  /\ Flat(l, s) = [i \in 1 .. Len(r) |-> g[r[i]]]
      /\ Len(Flat(l, s)) = Len(r) /\ Len(r) \in Nat
      /\ \A i \in 1 .. Len(r) : /\ Flat(l, s)[i] = g[r[i]]
                                /\ r[i] \in Typed(types) /\ r[i] \in MessageBlocks

\* EachOf, as a predicate.
LEMMA EachIs ==
  ASSUME NEW types, NEW g, NEW l, NEW s \in Seq(MessageBlocks),
         \A b \in MessageBlocks : l[b] = IF b.type \in types THEN <<g[b]>> ELSE <<>>
  PROVE  Each(types, g, l, s)
BY EachOf DEF Each

(* Ollama *)

\* A block as Ollama gets it: no ID, no signature.
Bare(b) == [b EXCEPT !.id = 0, !.signature = <<>>]

\* A result as Ollama gets it.
BareResult(b) == [Content(b) EXCEPT !.id = 0]

\* Texts and calls for Ollama.
PlainOf ==
  [b \in MessageBlocks |->
     IF b.type \in {"text", "tool_use"} /\ b.body # <<>> THEN <<Bare(b)>> ELSE <<>>]

\* Images for Ollama.
ImagesOf ==
  [b \in MessageBlocks |-> IF b.type = "image" /\ b.data # <<>> THEN <<b>> ELSE <<>>]

\* Results for Ollama.
BareResultOf ==
  [b \in MessageBlocks |-> IF b.type = "tool_result" THEN <<BareResult(b)>> ELSE <<>>]

\* Bare blocks keep their type.
LEMMA BareTyped ==
  ASSUME NEW b \in MessageBlocks
  PROVE  /\ Bare(b) \in MessageBlocks /\ Bare(b).type = b.type
         /\ BareResult(b) \in MessageBlocks /\ BareResult(b).type = b.type
<1>1. \A c \in MessageBlocks : [c EXCEPT !.id = 0] \in MessageBlocks
                               /\ [c EXCEPT !.id = 0].type = c.type
  BY DEF MessageBlocks
<1>2. Bare(b) \in MessageBlocks /\ Bare(b).type = b.type
  BY NoString DEF Bare, MessageBlocks
<1>3. QED
  BY <1>1, <1>2, ContentTyped DEF BareResult

\* What the three parts for Ollama hold.
LEMMA OllamaMaps ==
  /\ Maps(PlainOf, MessageBlocks, Typed({"text", "tool_use"}))
  /\ Maps(ImagesOf, MessageBlocks, Typed({"image"}))
  /\ Maps(BareResultOf, MessageBlocks, Typed({"tool_result"}))
<1>1. \A b \in MessageBlocks :
         /\ PlainOf[b] = IF b.type \in {"text", "tool_use"} /\ b.body # <<>> THEN <<Bare(b)>> ELSE <<>>
         /\ ImagesOf[b] = IF b.type = "image" /\ b.data # <<>> THEN <<b>> ELSE <<>>
         /\ BareResultOf[b] = IF b.type = "tool_result" THEN <<BareResult(b)>> ELSE <<>>
  BY DEF PlainOf, ImagesOf, BareResultOf
<1>2. \A b \in MessageBlocks :
         /\ b.type \in {"text", "tool_use"} => Bare(b) \in Typed({"text", "tool_use"})
         /\ b.type = "image" => b \in Typed({"image"})
         /\ b.type = "tool_result" => BareResult(b) \in Typed({"tool_result"})
  BY BareTyped DEF Typed
<1>3. QED
  BY <1>1, <1>2, OneBlock DEF Maps

\* Blocks with text, and blocks with a source, as Flat.
LEMMA KeptIsFlat ==
  ASSUME NEW s \in Seq(MessageBlocks),
         NEW k, \A b \in MessageBlocks : k[b] = IF b.body # <<>> THEN <<b>> ELSE <<>>,
         NEW l, \A b \in MessageBlocks : l[b] = IF HasSource(b) THEN <<b>> ELSE <<>>
  PROVE  Written(s) = Flat(k, s) /\ Sourced(s) = Flat(l, s)
<1>1. \A i \in 1 .. Len(s) : s[i] \in MessageBlocks
  BY ElementOfSeq
<1> DEFINE I == {i \in 1 .. Len(s) : s[i].body # <<>>}
           J == {i \in 1 .. Len(s) : HasSource(s[i])}
<1>2. /\ \A i \in 1 .. Len(s) : k[s[i]] = IF i \in I THEN <<s[i]>> ELSE <<>>
      /\ \A i \in 1 .. Len(s) : l[s[i]] = IF i \in J THEN <<s[i]>> ELSE <<>>
  BY <1>1
<1>3. Written(s) = Only(s, I) /\ Sourced(s) = Only(s, J)
  BY DEF Written, Sourced
<1> HIDE DEF I, J
<1>4. Only(s, I) = Flat(k, s)
  BY <1>2, OnlyIsFlat
<1>5. Only(s, J) = Flat(l, s)
  BY <1>2, OnlyIsFlat
<1>6. QED
  BY <1>3, <1>4, <1>5

\* What Ollama is sent for a message: texts and calls, images, results.
LEMMA OllamaParts ==
  ASSUME NEW m \in Messages
  PROVE  LET c == m.content
         IN  /\ OllamaMessage(m) \in Seq(Wires)
             /\ Flat(PartsOf, OllamaMessage(m))
                  = (Flat(PlainOf, c) \o Flat(ImagesOf, c)) \o Flat(BareResultOf, c)
<1> DEFINE c == m.content
           wire == ConvertToolMessage(c)
           r == Of(c, {"tool_result"})
           written == Written(Of(c, {"text", "tool_use"}))
           images == Sourced(Of(c, {"image"}))
           plain == [i \in 1 .. Len(written) |-> [written[i] EXCEPT !.id = 0, !.signature = <<>>]]
           first == IF plain \o images = <<>> /\ c # <<>> THEN <<>>
                    ELSE <<Wire(m.role, plain \o images)>>
           last == [i \in 1 .. Len(wire) |-> [wire[i] EXCEPT !.parts[1].id = 0]]
<1>1. OllamaMessage(m) = first \o last
  BY DEF OllamaMessage
<1>2. c \in Seq(MessageBlocks) /\ m.role \in Roles
  BY DEF Messages, Roles
<1>3. plain = Flat(PlainOf, c)
  <2> DEFINE w == [b \in MessageBlocks |-> IF b.body # <<>> THEN <<b>> ELSE <<>>]
             u == [b \in MessageBlocks |->
                     IF b.type \in {"text", "tool_use"} THEN w[b] ELSE <<>>]
             g == [b \in MessageBlocks |-> Bare(b)]
             k == [b \in MessageBlocks |-> <<g[b]>>]
             s == Of(c, {"text", "tool_use"})
  <2>1. s \in Seq(MessageBlocks)
    BY <1>2, OfFacts
  <2>2. \A b \in MessageBlocks : w[b] = IF b.body # <<>> THEN <<b>> ELSE <<>>
    OBVIOUS
  <2>3. Maps(w, MessageBlocks, MessageBlocks) /\ Maps(u, MessageBlocks, MessageBlocks)
    <3>1. \A b \in MessageBlocks : w[b] \in Seq(MessageBlocks) /\ u[b] \in Seq(MessageBlocks)
      BY OneBlock
    <3> HIDE DEF w, u
    <3>2. QED
      BY <3>1 DEF Maps
  <2>4. \A b \in MessageBlocks : u[b] = IF b.type \in {"text", "tool_use"} THEN w[b] ELSE <<>>
    OBVIOUS
  <2>5. \A b \in MessageBlocks : /\ g[b] = Bare(b) /\ k[b] = <<g[b]>>
                                 /\ k[b] \in Seq(MessageBlocks)
    BY BareTyped, OneBlock
  <2>6. \A b \in MessageBlocks : PlainOf[b] = Flat(k, u[b])
    <3>1. SUFFICES ASSUME NEW b \in MessageBlocks PROVE PlainOf[b] = Flat(k, u[b])
      OBVIOUS
    <3>2. /\ PlainOf[b] = IF b.type \in {"text", "tool_use"} /\ b.body # <<>> THEN <<Bare(b)>> ELSE <<>>
          /\ u[b] = IF b.type \in {"text", "tool_use"} /\ b.body # <<>> THEN <<b>> ELSE <<>>
      BY DEF PlainOf
    <3>3. Maps(k, MessageBlocks, MessageBlocks)
      BY <2>5 DEF Maps
    <3> HIDE DEF k, g, u
    <3>4. Flat(k, <<b>>) = k[b] /\ Flat(k, <<>>) = <<>>
      BY <3>3, FlatOne, FlatNone
    <3>5. QED
      BY <2>5, <3>2, <3>4
  <2> DEFINE v == [b \in MessageBlocks |-> IF HasSource(b) THEN <<b>> ELSE <<>>]
  <2>7. \A b \in MessageBlocks : v[b] = IF HasSource(b) THEN <<b>> ELSE <<>>
    OBVIOUS
  <2> HIDE DEF w, u, g, k, s, v
  <2>8. Written(s) = Flat(w, s)
    BY <2>1, <2>2, <2>7, KeptIsFlat
  <2>9. Flat(w, s) = Flat(u, c)
    BY <1>2, <2>3, <2>4, SelThen DEF s
  <2>10. written = Flat(u, c) /\ written \in Seq(MessageBlocks)
    BY <1>2, <2>3, <2>8, <2>9, FlatType DEF s
  <2> HIDE DEF written
  <2>11. \A i \in 1 .. Len(written) : written[i] \in MessageBlocks
    BY <2>10, ElementOfSeq
  <2>12. Flat(k, written) = [i \in 1 .. Len(written) |-> g[written[i]]]
    <3>1. \A b \in MessageBlocks : k[b] = <<g[b]>>
      BY <2>5
    <3>2. QED
      BY <2>10, <3>1, FlatEach
  <2>13. plain = Flat(k, written)
    BY <2>5, <2>11, <2>12 DEF Bare
  <2>14. Flat(k, Flat(u, c)) = Flat(PlainOf, c)
    <3>1. Maps(k, MessageBlocks, MessageBlocks)
      BY <2>5 DEF Maps
    <3> HIDE DEF c
    <3>2. QED
      BY <1>2, <2>3, <2>6, <3>1, FlatFlat
  <2>15. QED
    BY <2>10, <2>13, <2>14
<1>4. images = Flat(ImagesOf, c)
  <2> DEFINE v == [b \in MessageBlocks |-> IF HasSource(b) THEN <<b>> ELSE <<>>]
             w == [b \in MessageBlocks |-> IF b.body # <<>> THEN <<b>> ELSE <<>>]
             s == Of(c, {"image"})
  <2>1. /\ \A b \in MessageBlocks : v[b] = IF HasSource(b) THEN <<b>> ELSE <<>>
        /\ \A b \in MessageBlocks : w[b] = IF b.body # <<>> THEN <<b>> ELSE <<>>
    OBVIOUS
  <2>2. s \in Seq(MessageBlocks)
    BY <1>2, OfFacts
  <2>3. Maps(v, MessageBlocks, MessageBlocks)
    <3>1. \A b \in MessageBlocks : v[b] \in Seq(MessageBlocks)
      BY OneBlock
    <3> HIDE DEF v
    <3>2. QED
      BY <3>1 DEF Maps
  <2>4. \A b \in MessageBlocks : ImagesOf[b] = IF b.type \in {"image"} THEN v[b] ELSE <<>>
    BY DEF ImagesOf, HasSource
  <2> HIDE DEF v, w
  <2>5. Sourced(s) = Flat(v, s)
    BY <2>1, <2>2, KeptIsFlat
  <2>6. Flat(v, s) = Flat(ImagesOf, c)
    BY <1>2, <2>3, <2>4, SelThen
  <2>7. QED
    BY <2>5, <2>6
<1>5. last \in Seq(Wires) /\ Flat(PartsOf, last) = Flat(BareResultOf, c)
  <2> DEFINE g == [b \in MessageBlocks |-> Wire("tool", <<BareResult(b)>>)]
             k == [b \in MessageBlocks |-> IF b.type = "tool_result" THEN <<g[b]>> ELSE <<>>]
  <2>1. /\ Len(wire) = Len(r)
        /\ \A i \in 1 .. Len(r) : wire[i] = Wire("tool", <<Content(r[i])>>)
    BY <1>2, ResultParts
  <2>2. \A b \in MessageBlocks : /\ g[b] = Wire("tool", <<BareResult(b)>>)
                                 /\ k[b] = IF b.type \in {"tool_result"} THEN <<g[b]>> ELSE <<>>
                                 /\ k[b] \in Seq(Wires)
                                 /\ BareResultOf[b] = Flat(PartsOf, k[b])
    <3>1. SUFFICES ASSUME NEW b \in MessageBlocks
                   PROVE  /\ k[b] \in Seq(Wires)
                          /\ BareResultOf[b] = Flat(PartsOf, k[b])
      OBVIOUS
    <3> DEFINE x == BareResult(b)
    <3>2. <<x>> \in Seq(MessageBlocks) /\ "tool" \in Roles
      BY BareTyped, OneBlock DEF Roles
    <3>3. k[b] = (IF b.type = "tool_result" THEN <<Wire("tool", <<x>>)>> ELSE <<>>)
          /\ BareResultOf[b] = (IF b.type = "tool_result" THEN <<x>> ELSE <<>>)
      BY DEF BareResultOf
    <3> HIDE DEF x, g, k
    <3>4. <<>> \in Seq(Wires)
      BY EmptySeq
    <3>5. QED
      BY <3>2, <3>3, <3>4, PartsFacts
  <2> HIDE DEF g, k
  <2>3. /\ Flat(k, c) = [i \in 1 .. Len(r) |-> g[r[i]]] /\ Len(r) \in Nat
        /\ \A i \in 1 .. Len(r) : r[i] \in MessageBlocks
    <3> DEFINE types == {"tool_result"}
               q == Of(c, types)
    <3>1. \A b \in MessageBlocks : k[b] = IF b.type \in types THEN <<g[b]>> ELSE <<>>
      BY <2>2
    <3> HIDE DEF c, types
    <3>2. /\ Flat(k, c) = [i \in 1 .. Len(q) |-> g[q[i]]] /\ Len(q) \in Nat
          /\ \A i \in 1 .. Len(q) : q[i] \in MessageBlocks
      BY <1>2, <3>1, EachOf
    <3>3. QED
      BY <3>2 DEF types
  <2>4. \A i \in 1 .. Len(r) : [wire[i] EXCEPT !.parts[1].id = 0] = g[r[i]]
    <3>1. SUFFICES ASSUME NEW i \in 1 .. Len(r)
                   PROVE  [wire[i] EXCEPT !.parts[1].id = 0] = g[r[i]]
      OBVIOUS
    <3> DEFINE x == r[i]
               y == Content(x)
    <3>2. wire[i] = Wire("tool", <<y>>) /\ x \in MessageBlocks /\ g[x] = Wire("tool", <<[y EXCEPT !.id = 0]>>)
      BY <2>1, <2>2, <2>3 DEF BareResult
    <3> HIDE DEF x, y, wire
    <3>3. [Wire("tool", <<y>>) EXCEPT !.parts[1].id = 0] = Wire("tool", <<[y EXCEPT !.id = 0]>>)
      BY DEF Wire
    <3>4. QED
      BY <3>2, <3>3 DEF x
  <2>5. last = Flat(k, c)
    <3> HIDE DEF wire, r
    <3>1. QED
      BY <2>1, <2>3, <2>4
  <2>6. Maps(k, MessageBlocks, Wires)
    BY <2>2 DEF Maps
  <2>7. Flat(PartsOf, Flat(k, c)) = Flat(BareResultOf, c)
    <3>1. \A b \in MessageBlocks : BareResultOf[b] = Flat(PartsOf, k[b])
      BY <2>2
    <3> HIDE DEF c
    <3>2. QED
      BY <1>2, <2>6, <3>1, PartsMaps, FlatFlat
  <2>8. QED
    BY <1>2, <2>5, <2>6, <2>7, FlatType
<1>6. plain \o images \in Seq(MessageBlocks)
  <2>1. plain \in Seq(MessageBlocks) /\ images \in Seq(MessageBlocks)
    BY <1>2, <1>3, <1>4, OllamaMaps, FlatType, TypedIn
  <2> HIDE DEF plain, images
  <2>2. QED
    BY <2>1, ConcatProperties
<1>7. first \in Seq(Wires) /\ Flat(PartsOf, first) = plain \o images
  <2> DEFINE both == plain \o images
  <2>1. both \in Seq(MessageBlocks) /\ <<>> \in Seq(Wires)
    BY <1>6, EmptySeq
  <2> HIDE DEF plain, images, both
  <2>2. QED
    BY <1>2, <2>1, PartsFacts DEF both
<1> HIDE DEF first, last, plain, images
<1>8. first \o last \in Seq(Wires) /\ Flat(PartsOf, first \o last) = Flat(PartsOf, first) \o Flat(PartsOf, last)
  BY <1>5, <1>7, PartsFacts, ConcatProperties
<1>9. QED
  BY <1>1, <1>3, <1>4, <1>5, <1>7, <1>8
-----------------------------------------------------------------------------
(* Gemini: the names that the conversion remembers *)

\* The fold over the blocks of a message for Gemini.
GeminiBlockInto(b, a) == GeminiBlock(a, b)

GeminiBlocks == INSTANCE FoldLemmas WITH Op <- GeminiBlockInto, Base <- Nothing, Choice <- Greatest

\* A message with the names before it.
GeminiDone(names, content) ==
  FoldLeft(GeminiBlock, [parts |-> <<>>, names |-> names], content)

\* The fold of FoldLemmas is the one of the model.
LEMMA GeminiDoneIsFold ==
  ASSUME NEW names, NEW s
  PROVE  GeminiDone(names, s)
           = GeminiBlocks!FoldFrom([parts |-> <<>>, names |-> names], s, DOMAIN s)
BY DEF GeminiDone, FoldLeft, GeminiBlocks!FoldFrom, MapThenFoldSet, GeminiBlocks!MapThenFoldSet,
       GeminiBlockInto, Greatest

\* The blocks of a message for Gemini, one at a time.
LEMMA GeminiDoneFold ==
  ASSUME NEW names
  PROVE  /\ GeminiDone(names, <<>>) = [parts |-> <<>>, names |-> names]
         /\ \A s \in Seq(MessageBlocks), b \in MessageBlocks :
              GeminiDone(names, Append(s, b)) = GeminiBlock(GeminiDone(names, s), b)
<1> DEFINE base == [parts |-> <<>>, names |-> names]
<1>1. GeminiBlocks!TakesLast
  BY Indexes DEF GeminiBlocks!TakesLast, GeminiBlocks!Counted, GeminiBlocks!Counts, GeminiBlocks!Chooses
<1>2. \A s : GeminiDone(names, s) = GeminiBlocks!FoldFrom(base, s, DOMAIN s)
  BY GeminiDoneIsFold
<1> HIDE DEF base
<1>3. GeminiDone(names, <<>>) = base
  BY <1>1, <1>2, GeminiBlocks!FoldFromNoSeq
<1>4. ASSUME NEW s \in Seq(MessageBlocks), NEW b \in MessageBlocks
      PROVE  GeminiDone(names, Append(s, b)) = GeminiBlock(GeminiDone(names, s), b)
  <2>1. GeminiBlocks!FoldFrom(base, Append(s, b), DOMAIN Append(s, b))
          = GeminiBlockInto(b, GeminiBlocks!FoldFrom(base, s, DOMAIN s))
    BY <1>1, GeminiBlocks!FoldFromAppend, Z3
  <2>2. QED
    BY <1>2, <2>1 DEF GeminiBlockInto
<1>5. QED
  BY <1>3, <1>4 DEF base

\* Every ID has a function name.
NamesTyped(names) == \A id \in Nat : FunctionName(names, id) \in Nat

\* The parts of each block for Gemini, with the names that are known.
GeminiOf(names) == [b \in MessageBlocks |-> GeminiParts(names, b)]

\* A result as Gemini gets it: named after the function called.
GeminiResult(names, b) == [Content(b) EXCEPT !.id = 0, !.name = FunctionName(names, b.id)]

\* A call becomes a call, a result a result, any other block itself or nothing.
LEMMA GeminiPart ==
  ASSUME NEW names, NamesTyped(names), NEW b \in MessageBlocks
  PROVE  /\ b.type = "tool_use" => GeminiParts(names, b) = <<FunctionCall(b)>>
         /\ b.type = "tool_result" => GeminiParts(names, b) = <<GeminiResult(names, b)>>
         /\ b.type \notin {"tool_use", "tool_result"} => GeminiParts(names, b) \in {<<>>, <<b>>}
         /\ FunctionCall(b) \in MessageBlocks /\ FunctionCall(b).type = b.type
         /\ GeminiResult(names, b) \in MessageBlocks /\ GeminiResult(names, b).type = b.type
         /\ NamesTyped(Remember(names, b))
<1>1. /\ b.type = "tool_use" => GeminiParts(names, b) = <<FunctionCall(b)>>
      /\ b.type = "tool_result" => GeminiParts(names, b) = <<GeminiResult(names, b)>>
      /\ b.type \notin {"tool_use", "tool_result"} => GeminiParts(names, b) \in {<<>>, <<b>>}
  BY DEF GeminiParts, GeminiResult
<1>2. FunctionCall(b) \in MessageBlocks /\ FunctionCall(b).type = b.type
  BY DEF FunctionCall, MessageBlocks
<1>3. GeminiResult(names, b) \in MessageBlocks /\ GeminiResult(names, b).type = b.type
  <2>1. Content(b) \in MessageBlocks /\ Content(b).type = b.type
    BY ContentTyped
  <2>2. FunctionName(names, b.id) \in Nat
    BY DEF NamesTyped, MessageBlocks
  <2>3. \A c \in MessageBlocks, n \in Nat :
          /\ [c EXCEPT !.id = 0, !.name = n] \in MessageBlocks
          /\ [c EXCEPT !.id = 0, !.name = n].type = c.type
    BY DEF MessageBlocks
  <2>4. QED
    BY <2>1, <2>2, <2>3 DEF GeminiResult
<1>4. NamesTyped(Remember(names, b))
  <2>1. CASE b.type = "tool_use"
    <3> DEFINE new == [id \in {b.id} \cup DOMAIN names |-> IF id = b.id THEN b.name ELSE names[id]]
    <3>1. /\ DOMAIN new = {b.id} \cup DOMAIN names
          /\ \A x \in DOMAIN new : new[x] = IF x = b.id THEN b.name ELSE names[x]
      OBVIOUS
    <3>2. Remember(names, b) = new /\ b.name \in Nat
      BY <2>1 DEF Remember, MessageBlocks
    <3> HIDE DEF new
    <3>3. QED
      BY <3>1, <3>2 DEF NamesTyped, FunctionName
  <2>2. CASE b.type # "tool_use"
    BY <2>2 DEF Remember
  <2>3. QED
    BY <2>1, <2>2
<1>5. QED
  BY <1>1, <1>2, <1>3, <1>4

\* What GeminiOf gives.
LEMMA GeminiMaps ==
  ASSUME NEW names, NamesTyped(names)
  PROVE  Maps(GeminiOf(names), MessageBlocks, MessageBlocks)
<1>1. SUFFICES ASSUME NEW b \in MessageBlocks PROVE GeminiParts(names, b) \in Seq(MessageBlocks)
  BY DEF Maps, GeminiOf
<1>2. /\ b.type = "tool_use" => GeminiParts(names, b) = <<FunctionCall(b)>>
      /\ b.type = "tool_result" => GeminiParts(names, b) = <<GeminiResult(names, b)>>
      /\ b.type \notin {"tool_use", "tool_result"} => GeminiParts(names, b) \in {<<>>, <<b>>}
      /\ FunctionCall(b) \in MessageBlocks /\ GeminiResult(names, b) \in MessageBlocks
  BY GeminiPart
<1>3. QED
  BY <1>2, OneBlock

\* What is made of a message whose blocks are of the types K: in one that has calls
\* the names change, and in one that has results they matter.
LEMMA GeminiDoneParts ==
  ASSUME NEW names, NamesTyped(names), NEW K, "tool_use" \notin K \/ "tool_result" \notin K,
         NEW s \in Seq(Typed(K))
  PROVE  /\ GeminiDone(names, s).parts = Flat(GeminiOf(names), s)
         /\ NamesTyped(GeminiDone(names, s).names)
         /\ "tool_use" \notin K => GeminiDone(names, s).names = names
<1> DEFINE D(u) == GeminiDone(names, u)
           g == GeminiOf(names)
           T == {u \in Seq(Typed(K)) :
                   /\ D(u).parts = Flat(g, u) /\ NamesTyped(D(u).names)
                   /\ "tool_use" \notin K => D(u).names = names}
<1>1. \A u \in Seq(Typed(K)) : u \in Seq(MessageBlocks)
  BY TypedIn
<1>2. \A b \in Typed(K) : b \in MessageBlocks /\ b.type \in K
  BY DEF Typed
<1>3. <<>> \in T
  <2>1. D(<<>>) = [parts |-> <<>>, names |-> names]
    BY GeminiDoneFold
  <2> HIDE DEF D
  <2>2. D(<<>>).parts = <<>> /\ D(<<>>).names = names
    BY <2>1
  <2>3. Flat(g, <<>>) = <<>> /\ <<>> \in Seq(Typed(K))
    BY FlatNone, OneBlock
  <2>4. QED
    BY <2>2, <2>3
<1>4. ASSUME NEW u \in Seq(Typed(K)), NEW b \in Typed(K), u \in T PROVE Append(u, b) \in T
  <2> DEFINE d == D(u)
             v == Append(u, b)
             e == D(v)
  <2>0. u \in Seq(MessageBlocks) /\ b \in MessageBlocks
    BY <1>1, <1>2
  <2>1. d.parts = Flat(g, u) /\ NamesTyped(d.names) /\ ("tool_use" \notin K => d.names = names)
    BY <1>4
  <2>2. e = GeminiBlock(d, b)
    BY <2>0, GeminiDoneFold
  <2> HIDE DEF D, d, e
  <2>3. e.parts = d.parts \o GeminiParts(d.names, b) /\ e.names = Remember(d.names, b)
    BY <2>2 DEF GeminiBlock
  <2>4. GeminiParts(d.names, b) = GeminiParts(names, b)
    <3>1. CASE "tool_use" \notin K
      BY <2>1, <3>1
    <3>2. CASE "tool_result" \notin K
      <4>1. b.type # "tool_result"
        BY <1>2, <3>2
      <4>2. QED
        BY <4>1 DEF GeminiParts
    <3>3. QED
      BY <3>1, <3>2
  <2>5. Flat(g, v) = Flat(g, u) \o GeminiParts(names, b)
    <3>1. Maps(g, MessageBlocks, MessageBlocks) /\ g[b] = GeminiParts(names, b)
      BY <1>2, GeminiMaps DEF GeminiOf
    <3> HIDE DEF g
    <3>2. Flat(g, v) = Flat(g, u) \o g[b]
      BY <2>0, <3>1, FlatAppend
    <3>3. QED
      BY <3>1, <3>2
  <2>6. NamesTyped(Remember(d.names, b))
    BY <1>2, <2>1, GeminiPart
  <2>7. "tool_use" \notin K => Remember(d.names, b) = d.names
    BY <1>2 DEF Remember
  <2>8. v \in Seq(Typed(K))
    BY AppendProperties
  <2>9. e.parts = Flat(g, v) /\ NamesTyped(e.names) /\ ("tool_use" \notin K => e.names = names)
    <3> HIDE DEF g, v
    <3>1. QED
      BY <2>1, <2>3, <2>4, <2>5, <2>6, <2>7
  <2>10. QED
    <3> HIDE DEF g, v
    <3>1. QED
      BY <2>8, <2>9 DEF e, v
<1>5. \A u \in Seq(Typed(K)) : u \in T
  <2> HIDE DEF T
  <2>1. QED
    BY <1>3, <1>4, SeqInduction, Z3
<1>6. QED
  BY <1>5

\* Calls of one ID are of one function: nm says of which.
CallsNamed(nm) == {b \in MessageBlocks : b.type = "tool_use" => b.name = nm[b.id]}

\* After the calls of a message each has its own name, calls of one ID being
\* of one function.
LEMMA GeminiRemembers ==
  ASSUME NEW names, NEW nm, NEW s \in Seq(CallsNamed(nm)), NEW i \in 1 .. Len(s),
         s[i].type = "tool_use"
  PROVE  FunctionName(GeminiDone(names, s).names, s[i].id) = nm[s[i].id]
<1> DEFINE C == CallsNamed(nm)
           N(u) == GeminiDone(names, u).names
           T == {u \in Seq(C) :
                   \A k \in 1 .. Len(u) : u[k].type = "tool_use" =>
                     u[k].id \in DOMAIN N(u) /\ N(u)[u[k].id] = nm[u[k].id]}
<1>1. <<>> \in T
  BY EmptySeq
<1>2. ASSUME NEW u \in Seq(C), NEW b \in C, u \in T PROVE Append(u, b) \in T
  <2> DEFINE v == Append(u, b)
             n == Len(u)
             old == N(u)
             new == N(v)
  <2>1. /\ n \in Nat /\ v \in Seq(C) /\ Len(v) = n + 1 /\ v[n + 1] = b
        /\ \A k \in 1 .. n : v[k] = u[k]
    BY AppendedMessages
  <2>2. b \in MessageBlocks /\ (b.type = "tool_use" => b.name = nm[b.id]) /\ u \in Seq(MessageBlocks)
    <3>1. C \subseteq MessageBlocks
      BY DEF CallsNamed
    <3>2. u \in Seq(MessageBlocks)
      <4> HIDE DEF C
      <4>1. QED
        BY <3>1, SeqWider
    <3>3. QED
      BY <3>2 DEF CallsNamed
  <2>3. new = Remember(old, b)
    <3> DEFINE d == GeminiDone(names, u)
               e == GeminiDone(names, v)
    <3>1. e = GeminiBlock(d, b)
      BY <2>2, GeminiDoneFold
    <3> HIDE DEF d, e
    <3>2. e.names = Remember(d.names, b)
      BY <3>1 DEF GeminiBlock
    <3>3. QED
      BY <3>2 DEF d, e
  <2>4. \A k \in 1 .. n : u[k].type = "tool_use" =>
          u[k].id \in DOMAIN old /\ old[u[k].id] = nm[u[k].id]
    BY <1>2
  <2> HIDE DEF v, n, old, new, N, C
  <2>5. \A x \in DOMAIN old : x \in DOMAIN new /\ (new[x] = old[x] \/ (x = b.id /\ b.type = "tool_use" /\ new[x] = b.name))
    BY <2>3 DEF Remember
  <2>6. b.type = "tool_use" => b.id \in DOMAIN new /\ new[b.id] = b.name
    BY <2>3 DEF Remember
  <2>7. ASSUME NEW k \in 1 .. n + 1, v[k].type = "tool_use"
        PROVE  v[k].id \in DOMAIN new /\ new[v[k].id] = nm[v[k].id]
    <3>1. CASE k = n + 1
      BY <2>1, <2>2, <2>6, <2>7, <3>1
    <3>2. CASE k # n + 1
      <4>1. k \in 1 .. n
        BY <2>1, <3>2
      <4>2. v[k] = u[k]
        BY <2>1, <4>1
      <4>3. u[k].id \in DOMAIN old /\ old[u[k].id] = nm[u[k].id]
        BY <2>4, <2>7, <4>1, <4>2
      <4>4. QED
        BY <2>2, <2>5, <4>2, <4>3
    <3>3. QED
      BY <3>1, <3>2
  <2>8. QED
    BY <2>1, <2>7 DEF v, new, C
<1>3. \A u \in Seq(C) : u \in T
  <2> HIDE DEF T, C
  <2>1. QED
    BY <1>1, <1>2, SeqInduction, Z3
<1>4. QED
  BY <1>3 DEF FunctionName
-----------------------------------------------------------------------------
(* The calls and the results of one message on the wire *)

\* The targets the model converts for.
TargetNames == {"openai", "responses", "anthropic", "gemini", "ollama"}

\* What Anthropic is sent for a message.
AnthropicWire(m) ==
  Wire(IF m.role = "assistant" THEN "assistant" ELSE "user",
       [j \in 1 .. Len(m.content) |-> ConvertBlock(m.content[j])])

\* What is sent of a message, with the names that Gemini's conversion knows by then.
WiresOf(t, names, m) ==
  CASE t = "anthropic" -> <<AnthropicWire(m)>>
    [] t = "gemini"    -> GeminiMessage([contents |-> <<>>, names |-> names], m).contents
    [] t = "openai"    -> OpenAIMessage(m)
    [] t = "responses" -> ResponsesItems(m)
    [] t = "ollama"    -> OllamaMessage(m)

\* A call as a target gets it.
CallTo(t, b) ==
  IF t = "gemini" THEN FunctionCall(b)
  ELSE IF t = "ollama" THEN Bare(b)
  ELSE [b EXCEPT !.signature = <<>>]

\* A result as a target gets it.
ResultTo(t, names, b) ==
  IF t = "gemini" THEN GeminiResult(names, b)
  ELSE IF t = "ollama" THEN BareResult(b)
  ELSE IF t = "anthropic" THEN ConvertBlock(b)
  ELSE Content(b)

\* What is sent of the calls.
CallSent(t) ==
  [b \in MessageBlocks |-> IF b.type = "tool_use" THEN <<CallTo(t, b)>> ELSE <<>>]

\* What is sent of the results.
ResultSent(t, names) ==
  [b \in MessageBlocks |-> IF b.type = "tool_result" THEN <<ResultTo(t, names, b)>> ELSE <<>>]

\* ConvertBlock keeps the type, the ID, the text and the failure.
LEMMA ConvertedBlock ==
  ASSUME NEW b \in MessageBlocks
  PROVE  /\ ConvertBlock(b) \in MessageBlocks /\ ConvertBlock(b).type = b.type
         /\ ConvertBlock(b).id = b.id /\ ConvertBlock(b).body = b.body
         /\ ConvertBlock(b).failed = b.failed
         /\ b.type = "tool_use" => ConvertBlock(b) = [b EXCEPT !.signature = <<>>]
<1>1. \A c : \A n \in Nat, s \in Strings :
         c = [b EXCEPT !.name = n, !.signature = s] =>
           /\ c \in MessageBlocks /\ c.type = b.type
           /\ c.id = b.id /\ c.body = b.body /\ c.failed = b.failed
  BY DEF MessageBlocks
<1>2. b.name \in Nat /\ b.signature \in Strings /\ <<>> \in Strings /\ 0 \in Nat
  BY NoString DEF MessageBlocks
<1>3. ConvertBlock(b) = [b EXCEPT !.name = IF b.type = "tool_use" THEN b.name ELSE 0,
                                  !.signature = IF b.type = "tool_use" THEN <<>> ELSE b.signature]
  BY DEF ConvertBlock
<1>4. (IF b.type = "tool_use" THEN b.name ELSE 0) \in Nat
      /\ (IF b.type = "tool_use" THEN <<>> ELSE b.signature) \in Strings
  BY <1>2
<1>5. b.type = "tool_use" => ConvertBlock(b) = [b EXCEPT !.signature = <<>>]
  BY <1>3 DEF MessageBlocks
<1>6. PICK n \in Nat, s \in Strings : ConvertBlock(b) = [b EXCEPT !.name = n, !.signature = s]
  BY <1>3, <1>4
<1>7. QED
  BY <1>1, <1>5, <1>6

\* A call or a result on the wire keeps its type and, but to Gemini and
\* Ollama, its ID.
LEMMA SentTyped ==
  ASSUME NEW t, NEW names, NamesTyped(names), NEW b \in MessageBlocks
  PROVE  /\ CallTo(t, b) \in MessageBlocks /\ CallTo(t, b).type = b.type
         /\ CallTo(t, b).name = b.name
         /\ t \notin {"gemini", "ollama"} => CallTo(t, b).id = b.id
         /\ ResultTo(t, names, b) \in MessageBlocks /\ ResultTo(t, names, b).type = b.type
         /\ t \notin {"gemini", "ollama"} => ResultTo(t, names, b).id = b.id
         /\ t = "gemini" => ResultTo(t, names, b).name = FunctionName(names, b.id)
<1>1. /\ CallTo(t, b) \in MessageBlocks /\ CallTo(t, b).type = b.type
      /\ CallTo(t, b).name = b.name
      /\ t \notin {"gemini", "ollama"} => CallTo(t, b).id = b.id
  BY NoString DEF CallTo, FunctionCall, Bare, MessageBlocks
<1>2. ResultTo(t, names, b) \in MessageBlocks /\ ResultTo(t, names, b).type = b.type
  BY GeminiPart, BareTyped, ConvertedBlock, ContentTyped DEF ResultTo
<1>3. t \notin {"gemini", "ollama"} => ResultTo(t, names, b).id = b.id
  BY ConvertedBlock, ContentTyped DEF ResultTo
<1>4. t = "gemini" => ResultTo(t, names, b).name = FunctionName(names, b.id)
  <2>1. Content(b) \in MessageBlocks
    BY ContentTyped
  <2>2. \A c \in MessageBlocks : \A n : [c EXCEPT !.id = 0, !.name = n].name = n
    BY DEF MessageBlocks
  <2>3. QED
    BY <2>1, <2>2 DEF ResultTo, GeminiResult
<1>5. QED
  BY <1>1, <1>2, <1>3, <1>4

\* What CallSent and ResultSent give.
LEMMA SentMaps ==
  ASSUME NEW t, NEW names, NamesTyped(names)
  PROVE  /\ Maps(CallSent(t), MessageBlocks, Typed({"tool_use"}))
         /\ Maps(ResultSent(t, names), MessageBlocks, Typed({"tool_result"}))
<1>1. \A b \in MessageBlocks :
         /\ CallSent(t)[b] = IF b.type = "tool_use" THEN <<CallTo(t, b)>> ELSE <<>>
         /\ ResultSent(t, names)[b]
              = IF b.type = "tool_result" THEN <<ResultTo(t, names, b)>> ELSE <<>>
         /\ b.type = "tool_use" => CallTo(t, b) \in Typed({"tool_use"})
         /\ b.type = "tool_result" => ResultTo(t, names, b) \in Typed({"tool_result"})
  <2>1. SUFFICES ASSUME NEW b \in MessageBlocks
                 PROVE  /\ b.type = "tool_use" => CallTo(t, b) \in Typed({"tool_use"})
                        /\ b.type = "tool_result" => ResultTo(t, names, b) \in Typed({"tool_result"})
    BY DEF CallSent, ResultSent
  <2>2. /\ CallTo(t, b) \in MessageBlocks /\ CallTo(t, b).type = b.type
        /\ ResultTo(t, names, b) \in MessageBlocks /\ ResultTo(t, names, b).type = b.type
    BY SentTyped
  <2>3. QED
    BY <2>2 DEF Typed
<1>2. QED
  BY <1>1, OneBlock DEF Maps

\* Where there are no calls, or no results, none are sent.
LEMMA NoneSent ==
  ASSUME NEW t, NEW names, NEW K, NEW s \in Seq(Typed(K))
  PROVE  /\ "tool_use" \notin K => Flat(CallSent(t), s) = <<>>
         /\ "tool_result" \notin K => Flat(ResultSent(t, names), s) = <<>>
<1>1. \A b \in Typed(K) : b \in MessageBlocks /\ b.type \in K
  BY DEF Typed
<1>2. ASSUME "tool_use" \notin K PROVE Flat(CallSent(t), s) = <<>>
  <2>1. \A b \in Typed(K) : CallSent(t)[b] = <<>>
    BY <1>1, <1>2 DEF CallSent
  <2>2. QED
    BY <2>1, FlatNothing
<1>3. ASSUME "tool_result" \notin K PROVE Flat(ResultSent(t, names), s) = <<>>
  <2>1. \A b \in Typed(K) : ResultSent(t, names)[b] = <<>>
    BY <1>1, <1>3 DEF ResultSent
  <2>2. QED
    BY <2>1, FlatNothing
<1>4. QED
  BY <1>2, <1>3

\* In a sound message only the assistant calls and only the others answer.
LEMMA SoundFacts ==
  ASSUME NEW m \in Sound
  PROVE  /\ m \in Messages /\ m.role \in {"user", "assistant", "tool"} /\ m.role \in Roles
         /\ m.content \in Seq(MessageBlocks) /\ m.content \in Seq(Typed(KindsOf(m.role)))
         /\ m.role = "assistant" => "tool_result" \notin KindsOf(m.role)
         /\ m.role # "assistant" => "tool_use" \notin KindsOf(m.role)
<1>1. m \in Messages /\ m.content \in Seq(Typed(KindsOf(m.role)))
  BY DEF Sound
<1>2. m.role \in {"user", "assistant", "tool"} /\ m.content \in Seq(MessageBlocks)
  BY <1>1 DEF Messages
<1>3. QED
  BY <1>1, <1>2 DEF Roles, KindsOf, BlockTypes

\* What the target is sent of a message is its calls and its results.
Told(t, names, m) ==
  /\ WiresOf(t, names, m) \in Seq(Wires)
  /\ Of(Flat(PartsOf, WiresOf(t, names, m)), {"tool_use"}) = Flat(CallSent(t), m.content)
  /\ Of(Flat(PartsOf, WiresOf(t, names, m)), {"tool_result"})
       = Flat(ResultSent(t, names), m.content)

\* One call or one result on the wire, or what is neither.
LEMMA OfOne ==
  /\ \A types : Of(<<>>, types) = <<>>
  /\ \A types : \A b \in MessageBlocks : /\ b.type \in types => Of(<<b>>, types) = <<b>>
                                         /\ b.type \notin types => Of(<<b>>, types) = <<>>
<1>1. \A types : /\ Of(<<>>, types) = <<>>
                 /\ \A b \in MessageBlocks :
                      Of(<<b>>, types) = IF b.type \in types THEN <<b>> ELSE <<>>
  BY OfFacts
<1>2. QED
  BY <1>1

\* Of a message Anthropic is told all its calls and all its results.
LEMMA AnthropicTold ==
  ASSUME NEW names, NEW m \in Sound
  PROVE  Told("anthropic", names, m)
<1> DEFINE t == "anthropic"
           c == m.content
           g == [b \in MessageBlocks |-> ConvertBlock(b)]
           k == [b \in MessageBlocks |-> <<g[b]>>]
           parts == [j \in 1 .. Len(c) |-> ConvertBlock(c[j])]
           role == IF m.role = "assistant" THEN "assistant" ELSE "user"
<1>1. c \in Seq(MessageBlocks) /\ role \in Roles
  BY SoundFacts DEF Roles
<1>2. \A b \in MessageBlocks : /\ g[b] = ConvertBlock(b) /\ k[b] = <<g[b]>>
                               /\ g[b] \in MessageBlocks /\ g[b].type = b.type
                               /\ k[b] \in Seq(MessageBlocks)
  BY ConvertedBlock, OneBlock
<1>3. Maps(k, MessageBlocks, MessageBlocks)
  BY <1>2 DEF Maps
<1>4. \A b \in MessageBlocks : /\ Of(k[b], {"tool_use"}) = CallSent(t)[b]
                               /\ Of(k[b], {"tool_result"}) = ResultSent(t, names)[b]
  <2>1. SUFFICES ASSUME NEW b \in MessageBlocks
                 PROVE  /\ Of(k[b], {"tool_use"}) = CallSent(t)[b]
                        /\ Of(k[b], {"tool_result"}) = ResultSent(t, names)[b]
    OBVIOUS
  <2> DEFINE x == g[b]
  <2>2. k[b] = <<x>> /\ x \in MessageBlocks /\ x.type = b.type /\ x = ConvertBlock(b)
    BY <1>2
  <2>3. /\ CallSent(t)[b] = IF b.type = "tool_use" THEN <<[b EXCEPT !.signature = <<>>]>> ELSE <<>>
        /\ ResultSent(t, names)[b] = IF b.type = "tool_result" THEN <<ConvertBlock(b)>> ELSE <<>>
    BY DEF CallSent, ResultSent, CallTo, ResultTo
  <2>4. b.type = "tool_use" => x = [b EXCEPT !.signature = <<>>]
    BY <2>2, ConvertedBlock
  <2> HIDE DEF x, k, g
  <2>5. QED
    BY <2>2, <2>3, <2>4, OfOne
<1>5. parts = Flat(k, c)
  <2>1. \A b \in MessageBlocks : k[b] = <<g[b]>>
    BY <1>2
  <2>2. \A j \in 1 .. Len(c) : c[j] \in MessageBlocks
    BY <1>1, ElementOfSeq
  <2> HIDE DEF k, g
  <2>3. Flat(k, c) = [j \in 1 .. Len(c) |-> g[c[j]]]
    BY <1>1, <2>1, FlatEach
  <2>4. QED
    BY <1>2, <2>2, <2>3
<1> HIDE DEF parts, k, g
<1>6. parts \in Seq(MessageBlocks)
  BY <1>1, <1>3, <1>5, FlatType
<1>7. WiresOf(t, names, m) = <<Wire(role, parts)>>
  BY DEF WiresOf, AnthropicWire, parts
<1> HIDE DEF role
<1>8. WiresOf(t, names, m) \in Seq(Wires) /\ Flat(PartsOf, WiresOf(t, names, m)) = parts
  BY <1>1, <1>6, <1>7, PartsFacts
<1>9. /\ Of(parts, {"tool_use"}) = Flat(CallSent(t), c)
      /\ Of(parts, {"tool_result"}) = Flat(ResultSent(t, names), c)
  <2> HIDE DEF c, t
  <2>1. Of(Flat(k, c), {"tool_use"}) = Flat(CallSent(t), c)
    <3>1. \A b \in MessageBlocks : CallSent(t)[b] = Of(k[b], {"tool_use"})
      BY <1>4
    <3>2. QED
      BY <1>1, <1>3, <3>1, ThenSel
  <2>2. Of(Flat(k, c), {"tool_result"}) = Flat(ResultSent(t, names), c)
    <3>1. \A b \in MessageBlocks : ResultSent(t, names)[b] = Of(k[b], {"tool_result"})
      BY <1>4
    <3>2. QED
      BY <1>1, <1>3, <3>1, ThenSel
  <2>3. QED
    BY <1>5, <2>1, <2>2
<1>10. QED
  BY <1>8, <1>9 DEF Told

\* A message of Gemini's, and what is known after it.
LEMMA GeminiTold ==
  ASSUME NEW names, NamesTyped(names), NEW m \in Sound
  PROVE  /\ Told("gemini", names, m)
         /\ Flat(PartsOf, WiresOf("gemini", names, m)) = Flat(GeminiOf(names), m.content)
         /\ \A contents \in Seq(Wires) :
              GeminiMessage([contents |-> contents, names |-> names], m)
                = [contents |-> contents \o WiresOf("gemini", names, m),
                   names |-> GeminiDone(names, m.content).names]
<1> DEFINE t == "gemini"
           c == m.content
           g == GeminiOf(names)
           done == GeminiDone(names, c)
           role == IF m.role = "assistant" THEN "model" ELSE "user"
           K == KindsOf(m.role)
<1>1. /\ c \in Seq(MessageBlocks) /\ c \in Seq(Typed(K)) /\ role \in Roles
      /\ "tool_use" \notin K \/ "tool_result" \notin K
  BY SoundFacts DEF Roles
<1>2. Maps(g, MessageBlocks, MessageBlocks)
  BY GeminiMaps
<1>3. done.parts = Flat(g, c)
  BY <1>1, GeminiDoneParts
<1>4. Flat(g, c) \in Seq(MessageBlocks)
  BY <1>1, <1>2, FlatType
<1>5. \A contents :
        GeminiMessage([contents |-> contents, names |-> names], m)
          = [contents |-> IF done.parts = <<>> THEN contents
                          ELSE Append(contents, Wire(role, done.parts)),
             names |-> done.names]
  BY DEF GeminiMessage, GeminiDone
<1>6. WiresOf(t, names, m)
        = IF done.parts = <<>> THEN <<>> ELSE <<Wire(role, done.parts)>>
  <2>1. WiresOf(t, names, m) = GeminiMessage([contents |-> <<>>, names |-> names], m).contents
    BY DEF WiresOf
  <2>2. GeminiMessage([contents |-> <<>>, names |-> names], m)
          = [contents |-> IF done.parts = <<>> THEN <<>>
                          ELSE Append(<<>>, Wire(role, done.parts)),
             names |-> done.names]
    BY <1>5
  <2> HIDE DEF done, role
  <2>3. Append(<<>>, Wire(role, done.parts)) = <<Wire(role, done.parts)>>
    OBVIOUS
  <2>4. QED
    BY <2>1, <2>2, <2>3
<1> HIDE DEF done, role, g
<1>7. WiresOf(t, names, m) \in Seq(Wires) /\ Flat(PartsOf, WiresOf(t, names, m)) = Flat(g, c)
  <2>1. CASE done.parts = <<>>
    <3>1. <<>> \in Seq(Wires)
      BY EmptySeq
    <3>2. QED
      BY <1>3, <1>6, <2>1, <3>1, PartsFacts
  <2>2. CASE done.parts # <<>>
    BY <1>1, <1>3, <1>4, <1>6, <2>2, PartsFacts
  <2>3. QED
    BY <2>1, <2>2
<1>8. ASSUME NEW contents \in Seq(Wires)
      PROVE  GeminiMessage([contents |-> contents, names |-> names], m)
               = [contents |-> contents \o WiresOf(t, names, m), names |-> done.names]
  <2>1. CASE done.parts = <<>>
    <3>1. contents \o <<>> = contents
      BY ConcatEmptySeq
    <3>2. QED
      BY <1>5, <1>6, <2>1, <3>1
  <2>2. CASE done.parts # <<>>
    <3> DEFINE w == Wire(role, done.parts)
    <3>1. w \in Wires
      BY <1>1, <1>3, <1>4, WireTyped
    <3> HIDE DEF w
    <3>2. contents \o <<w>> = Append(contents, w)
      BY <3>1, AppendIsConcat
    <3>3. QED
      BY <1>5, <1>6, <2>2, <3>2 DEF w
  <2>3. QED
    BY <2>1, <2>2
<1>9. \A b \in MessageBlocks : /\ Of(g[b], {"tool_use"}) = CallSent(t)[b]
                               /\ Of(g[b], {"tool_result"}) = ResultSent(t, names)[b]
  <2>1. SUFFICES ASSUME NEW b \in MessageBlocks
                 PROVE  /\ Of(g[b], {"tool_use"}) = CallSent(t)[b]
                        /\ Of(g[b], {"tool_result"}) = ResultSent(t, names)[b]
    OBVIOUS
  <2> DEFINE x == FunctionCall(b)
             y == GeminiResult(names, b)
  <2>2. /\ g[b] = GeminiParts(names, b)
        /\ CallSent(t)[b] = (IF b.type = "tool_use" THEN <<x>> ELSE <<>>)
        /\ ResultSent(t, names)[b] = (IF b.type = "tool_result" THEN <<y>> ELSE <<>>)
    BY DEF g, GeminiOf, CallSent, ResultSent, CallTo, ResultTo
  <2>3. /\ b.type = "tool_use" => g[b] = <<x>>
        /\ b.type = "tool_result" => g[b] = <<y>>
        /\ b.type \notin {"tool_use", "tool_result"} => g[b] \in {<<>>, <<b>>}
        /\ x \in MessageBlocks /\ x.type = b.type /\ y \in MessageBlocks /\ y.type = b.type
    BY <2>2, GeminiPart
  <2> HIDE DEF x, y
  <2>4. QED
    BY <2>2, <2>3, OfOne
<1>10. /\ Of(Flat(g, c), {"tool_use"}) = Flat(CallSent(t), c)
       /\ Of(Flat(g, c), {"tool_result"}) = Flat(ResultSent(t, names), c)
  <2> HIDE DEF c, t
  <2>1. Of(Flat(g, c), {"tool_use"}) = Flat(CallSent(t), c)
    <3>1. \A b \in MessageBlocks : CallSent(t)[b] = Of(g[b], {"tool_use"})
      BY <1>9
    <3>2. QED
      BY <1>1, <1>2, <3>1, ThenSel
  <2>2. Of(Flat(g, c), {"tool_result"}) = Flat(ResultSent(t, names), c)
    <3>1. \A b \in MessageBlocks : ResultSent(t, names)[b] = Of(g[b], {"tool_result"})
      BY <1>9
    <3>2. QED
      BY <1>1, <1>2, <3>1, ThenSel
  <2>3. QED
    BY <2>1, <2>2
<1>11. Told(t, names, m)
  BY <1>7, <1>10 DEF Told
<1>12. QED
  BY <1>7, <1>8, <1>11 DEF g, done

\* The blocks of some types of two sequences.
LEMMA OfPair ==
  ASSUME NEW types, NEW s \in Seq(MessageBlocks), NEW t \in Seq(MessageBlocks)
  PROVE  Of(s \o t, types) = Of(s, types) \o Of(t, types)
BY OfFacts

\* Of a message the OpenAI APIs are told all its calls and all its results.
LEMMA OpenAITold ==
  ASSUME NEW t \in {"openai", "responses"}, NEW names, NEW m \in Sound
  PROVE  Told(t, names, m)
<1> DEFINE c == m.content
           wires == WiresOf(t, names, m)
           p == Flat(PartsOf, wires)
           called == {"tool_use"}
           result == {"tool_result"}
           calls == Unsign(Of(c, called))
           results == Flat(ResultOf, c)
<1>1. /\ c \in Seq(MessageBlocks) /\ m.role \in {"user", "assistant", "tool"}
      /\ c \in Seq(Typed(KindsOf(m.role)))
      /\ m.role = "assistant" => "tool_result" \notin KindsOf(m.role)
      /\ m.role # "assistant" => "tool_use" \notin KindsOf(m.role)
  BY SoundFacts
<1>2. /\ wires \in Seq(Wires)
      /\ m.role = "assistant" => p = AssistantText(c) \o calls
      /\ m.role = "tool" => p = results
      /\ m.role = "user" => \E rest \in Seq(Typed({"text", "image"})) : p = results \o rest
  <2> DEFINE rest == Remaining(m, IF t = "openai" THEN UserParts(Rest(m)) ELSE InputParts(Rest(m)))
  <2>1. wires = IF t = "openai" THEN OpenAIMessage(m) ELSE ResponsesItems(m)
    BY DEF WiresOf
  <2>2. rest \in Seq(Typed({"text", "image"}))
    <3>1. Rest(m) \in Seq(MessageBlocks)
      <4>1. m \in Messages
        BY SoundFacts
      <4>2. Of(c, ReplayTypes \ {"tool_result"}) \in Seq(MessageBlocks)
        BY <1>1, OfFacts
      <4>3. QED
        BY <4>1, <4>2, RestIsOf
    <3>2. /\ UserParts(Rest(m)) \in Seq(Typed({"text", "image"}))
          /\ InputParts(Rest(m)) \in Seq(Typed({"text", "image"}))
          /\ <<>> \in Seq(Typed({"text", "image"}))
      BY <3>1, UserTyped, OneBlock
    <3>3. QED
      BY <3>2 DEF Remaining
  <2>3. /\ OpenAIMessage(m) \in Seq(Wires) /\ ResponsesItems(m) \in Seq(Wires)
        /\ m.role = "assistant" => p = AssistantText(c) \o calls
        /\ m.role = "tool" => p = results
        /\ m.role = "user" => p = results \o rest
    BY <2>1, OpenAIParts
  <2>4. wires \in Seq(Wires)
    BY <2>1, <2>3
  <2> HIDE DEF wires, p, calls, results, rest
  <2>5. QED
    BY <2>2, <2>3, <2>4
<1>3. AssistantText(c) \in Seq(Typed({"text"})) /\ calls \in Seq(Typed({"tool_use"}))
      /\ results \in Seq(Typed({"tool_result"}))
  BY <1>1, AnswerParts, ResultMaps, FlatType
<1>4. calls = Flat(CallSent(t), c)
  <2> DEFINE g == [b \in MessageBlocks |-> CallTo(t, b)]
             r == Of(c, called)
             k == CallSent(t)
  <2>1. \A b \in MessageBlocks : k[b] = IF b.type \in called THEN <<g[b]>> ELSE <<>>
    BY DEF CallSent
  <2>2. \A b \in MessageBlocks : g[b] = [b EXCEPT !.signature = <<>>]
    BY DEF CallTo
  <2> HIDE DEF g, called, c, k
  <2>3. /\ Flat(k, c) = [i \in 1 .. Len(r) |-> g[r[i]]]
        /\ \A i \in 1 .. Len(r) : r[i] \in MessageBlocks
    BY <1>1, <2>1, EachOf
  <2> HIDE DEF r
  <2>4. Unsign(r) = [i \in 1 .. Len(r) |-> [r[i] EXCEPT !.signature = <<>>]]
    BY DEF Unsign
  <2>5. QED
    BY <2>2, <2>3, <2>4 DEF r, k
<1>5. results = Flat(ResultSent(t, names), c)
  <2>1. \A b \in MessageBlocks : ResultOf[b] = ResultSent(t, names)[b]
    BY DEF ResultOf, ResultSent, ResultTo
  <2>2. QED
    BY <1>1, <2>1, FlatSame
<1> HIDE DEF wires, p, calls, results, c
<1>6. /\ results \in Seq(MessageBlocks) /\ calls \in Seq(MessageBlocks)
      /\ AssistantText(c) \in Seq(MessageBlocks)
      /\ Of(calls, called) = calls /\ Of(calls, result) = <<>>
      /\ Of(results, called) = <<>> /\ Of(results, result) = results
      /\ Of(AssistantText(c), called) = <<>> /\ Of(AssistantText(c), result) = <<>>
  BY <1>3, OfTyped
<1>7. Of(p, called) = Flat(CallSent(t), c) /\ Of(p, result) = Flat(ResultSent(t, names), c)
  <2>1. CASE m.role = "assistant"
    <3>1. results = <<>>
      BY <1>1, <1>5, <2>1, NoneSent
    <3>2. /\ Of(p, called) = Of(AssistantText(c), called) \o Of(calls, called)
          /\ Of(p, result) = Of(AssistantText(c), result) \o Of(calls, result)
      <4>1. p = AssistantText(c) \o calls
        BY <1>2, <2>1
      <4>2. QED
        BY <1>6, <4>1, OfPair
    <3>3. <<>> \o calls = calls /\ <<>> \o <<>> = <<>>
      BY <1>6, ConcatEmptySeq, EmptySeq
    <3> HIDE DEF called, result
    <3>4. QED
      BY <1>4, <1>5, <1>6, <3>1, <3>2, <3>3
  <2>2. CASE m.role = "tool"
    <3>1. calls = <<>>
      BY <1>1, <1>4, <2>2, NoneSent
    <3>2. p = results
      BY <1>2, <2>2
    <3> HIDE DEF called, result
    <3>3. QED
      BY <1>4, <1>5, <1>6, <3>1, <3>2
  <2>3. CASE m.role = "user"
    <3>1. calls = <<>>
      BY <1>1, <1>4, <2>3, NoneSent
    <3>2. PICK rest \in Seq(Typed({"text", "image"})) : p = results \o rest
      BY <1>2, <2>3
    <3>3. rest \in Seq(MessageBlocks) /\ Of(rest, called) = <<>> /\ Of(rest, result) = <<>>
      BY OfTyped
    <3>4. /\ Of(p, called) = Of(results, called) \o Of(rest, called)
          /\ Of(p, result) = Of(results, result) \o Of(rest, result)
      BY <1>6, <3>2, <3>3, OfPair
    <3>5. results \o <<>> = results /\ <<>> \o <<>> = <<>>
      BY <1>6, ConcatEmptySeq, EmptySeq
    <3> HIDE DEF called, result
    <3>6. QED
      BY <1>4, <1>5, <1>6, <3>1, <3>3, <3>4, <3>5
  <2>4. QED
    BY <1>1, <2>1, <2>2, <2>3
<1>8. QED
  BY <1>2, <1>7 DEF Told, p, wires, c

\* A call that Ollama can be told of.
WritableBlocks == {b \in MessageBlocks : b.type = "tool_use" => b.body # <<>>}

\* Of a message with nothing empty in it Ollama is told all its calls and all
\* its results.
LEMMA OllamaTold ==
  ASSUME NEW names, NEW m \in Sound, m.content \in Seq(WritableBlocks)
  PROVE  Told("ollama", names, m)
<1> DEFINE t == "ollama"
           c == m.content
           x == Flat(PlainOf, c)
           y == Flat(ImagesOf, c)
           z == Flat(BareResultOf, c)
           called == {"tool_use"}
           result == {"tool_result"}
           p == Flat(PartsOf, WiresOf(t, names, m))
<1>1. c \in Seq(MessageBlocks) /\ m \in Messages
  BY SoundFacts
<1>2. WiresOf(t, names, m) \in Seq(Wires) /\ p = (x \o y) \o z
  BY <1>1, OllamaParts DEF WiresOf
<1>3. /\ x \in Seq(Typed({"text", "tool_use"})) /\ y \in Seq(Typed({"image"}))
      /\ z \in Seq(Typed({"tool_result"}))
  BY <1>1, OllamaMaps, FlatType
<1>4. Of(x, called) = Flat(CallSent(t), c)
  <2> DEFINE l == [b \in MessageBlocks |-> Of(PlainOf[b], called)]
  <2>1. \A b \in MessageBlocks : l[b] = Of(PlainOf[b], called)
    OBVIOUS
  <2>2. Maps(PlainOf, MessageBlocks, MessageBlocks)
    BY OllamaMaps, TypedSubset
  <2>3. \A b \in WritableBlocks : l[b] = CallSent(t)[b]
    <3>1. SUFFICES ASSUME NEW b \in WritableBlocks PROVE l[b] = CallSent(t)[b]
      OBVIOUS
    <3>2. b \in MessageBlocks /\ (b.type = "tool_use" => b.body # <<>>)
      BY DEF WritableBlocks
    <3>3. /\ PlainOf[b] = IF b.type \in {"text", "tool_use"} /\ b.body # <<>> THEN <<Bare(b)>> ELSE <<>>
          /\ CallSent(t)[b] = IF b.type = "tool_use" THEN <<Bare(b)>> ELSE <<>>
      BY <3>2 DEF PlainOf, CallSent, CallTo
    <3>4. Bare(b) \in MessageBlocks /\ Bare(b).type = b.type
      BY <3>2, BareTyped
    <3>5. /\ Of(<<>>, called) = <<>>
          /\ b.type = "tool_use" => Of(<<Bare(b)>>, called) = <<Bare(b)>>
          /\ b.type # "tool_use" => Of(<<Bare(b)>>, called) = <<>>
      BY <3>4, OfOne
    <3>6. l[b] = Of(PlainOf[b], called)
      BY <2>1, <3>2
    <3> HIDE DEF called, l
    <3>7. QED
      BY <3>2, <3>3, <3>5, <3>6
  <2> HIDE DEF l, c, called
  <2>4. Of(Flat(PlainOf, c), called) = Flat(l, c)
    BY <1>1, <2>1, <2>2, ThenSel
  <2>5. Flat(l, c) = Flat(CallSent(t), c)
    BY <2>3, FlatSame DEF c
  <2>6. QED
    BY <2>4, <2>5
<1>5. z = Flat(ResultSent(t, names), c)
  <2>1. \A b \in MessageBlocks : BareResultOf[b] = ResultSent(t, names)[b]
    BY DEF BareResultOf, ResultSent, ResultTo
  <2> HIDE DEF t, c
  <2>2. QED
    BY <1>1, <2>1, FlatSame
<1>6. /\ x \in Seq(MessageBlocks) /\ y \in Seq(MessageBlocks) /\ z \in Seq(MessageBlocks)
      /\ Of(x, result) = <<>> /\ Of(y, called) = <<>> /\ Of(y, result) = <<>>
      /\ Of(z, called) = <<>> /\ Of(z, result) = z
  <2> HIDE DEF x, y, z
  <2>1. QED
    BY <1>3, OfTyped
<1> HIDE DEF x, y, z, p
<1>7. \A types : Of(p, types) = (Of(x, types) \o Of(y, types)) \o Of(z, types)
  <2>1. x \o y \in Seq(MessageBlocks)
    BY <1>6, ConcatProperties
  <2>2. SUFFICES ASSUME NEW types
                 PROVE  Of(p, types) = (Of(x, types) \o Of(y, types)) \o Of(z, types)
    OBVIOUS
  <2>3. Of((x \o y) \o z, types) = Of(x \o y, types) \o Of(z, types)
    BY <1>6, <2>1, OfPair
  <2>4. Of(x \o y, types) = Of(x, types) \o Of(y, types)
    BY <1>6, OfPair
  <2>5. QED
    BY <1>2, <2>3, <2>4
<1>8. /\ Of(p, called) = (Of(x, called) \o <<>>) \o <<>>
      /\ Of(p, result) = (<<>> \o <<>>) \o z
  BY <1>6, <1>7
<1>9. Of(x, called) \in Seq(MessageBlocks)
  BY <1>6, OfFacts
<1> HIDE DEF called, result
<1>10. Of(p, called) = Of(x, called) /\ Of(p, result) = z
  BY <1>6, <1>8, <1>9, ConcatEmptySeq, EmptySeq
<1>11. QED
  BY <1>2, <1>4, <1>5, <1>10 DEF Told, p, called, result

-----------------------------------------------------------------------------
(* A conversation on the wire, message by message *)

\* What the target can be told.
Sayable(t) == {m \in Sound : t = "ollama" => m.content \in Seq(WritableBlocks)}

\* The function names known after a conversation.
NamesAfter(h) == FoldLeft(GeminiMessage, Nothing, h).names

\* Of a message every target is told all its calls and all its results.
LEMMA AllTold ==
  ASSUME NEW t \in TargetNames, NEW names, NamesTyped(names), NEW m \in Sayable(t)
  PROVE  Told(t, names, m)
<1>1. m \in Sound /\ (t = "ollama" => m.content \in Seq(WritableBlocks))
  BY DEF Sayable
<1>2. t = "anthropic" => Told(t, names, m)
  BY <1>1, AnthropicTold
<1>3. t = "gemini" => Told(t, names, m)
  BY <1>1, GeminiTold
<1>4. t \in {"openai", "responses"} => Told(t, names, m)
  BY <1>1, OpenAITold
<1>5. t = "ollama" => Told(t, names, m)
  BY <1>1, OllamaTold
<1>6. QED
  BY <1>2, <1>3, <1>4, <1>5 DEF TargetNames

\* What can be said is sound.
LEMMA SayableTyped ==
  ASSUME NEW t
  PROVE  /\ Sayable(t) \subseteq Sound /\ Sayable(t) \subseteq Messages
         /\ \A h \in Seq(Sayable(t)) : h \in Seq(Messages)
<1>1. Sayable(t) \subseteq Sound /\ Sayable(t) \subseteq Messages
  BY SoundFacts DEF Sayable
<1>2. QED
  BY <1>1, SeqWider

\* The names that are known, one message at a time.
LEMMA NamesAfterFacts ==
  ASSUME NEW t, NEW h \in Seq(Sayable(t))
  PROVE  /\ NamesAfter(<<>>) = Nothing.names
         /\ NamesTyped(NamesAfter(h))
         /\ \A m \in Sayable(t) :
              NamesAfter(Append(h, m)) = GeminiDone(NamesAfter(h), m.content).names
<1> DEFINE S == Sayable(t)
           T == {s \in Seq(S) : NamesTyped(NamesAfter(s))}
<1>1. NamesAfter(<<>>) = Nothing.names
  BY GeminiFold DEF NamesAfter
<1>2. NamesTyped(Nothing.names)
  BY DEF NamesTyped, FunctionName, Nothing
<1>3. \A s \in Seq(S), m \in S :
        NamesAfter(Append(s, m)) = GeminiDone(NamesAfter(s), m.content).names
  <2>1. SUFFICES ASSUME NEW s \in Seq(S), NEW m \in S
                 PROVE  NamesAfter(Append(s, m)) = GeminiDone(NamesAfter(s), m.content).names
    OBVIOUS
  <2>2. s \in Seq(Messages) /\ m \in Messages
    BY SayableTyped
  <2> DEFINE a == FoldLeft(GeminiMessage, Nothing, s)
  <2>3. FoldLeft(GeminiMessage, Nothing, Append(s, m)) = GeminiMessage(a, m)
    BY <2>2, GeminiFold
  <2>4. \A b : GeminiMessage(b, m).names = GeminiDone(b.names, m.content).names
    BY DEF GeminiMessage, GeminiDone
  <2>5. GeminiMessage(a, m).names = GeminiDone(a.names, m.content).names
    BY <2>4
  <2>6. QED
    BY <2>3, <2>5 DEF NamesAfter
<1>4. <<>> \in T
  BY <1>1, <1>2, EmptySeq
<1>5. ASSUME NEW s \in Seq(S), NEW m \in S, s \in T PROVE Append(s, m) \in T
  <2>1. /\ m \in Sound /\ m.content \in Seq(Typed(KindsOf(m.role)))
        /\ "tool_use" \notin KindsOf(m.role) \/ "tool_result" \notin KindsOf(m.role)
    BY SayableTyped, SoundFacts
  <2>2. NamesTyped(NamesAfter(s))
    BY <1>5
  <2>3. NamesTyped(GeminiDone(NamesAfter(s), m.content).names)
    <3> DEFINE n == NamesAfter(s)
               K == KindsOf(m.role)
               c == m.content
    <3>1. NamesTyped(n) /\ c \in Seq(Typed(K)) /\ ("tool_use" \notin K \/ "tool_result" \notin K)
      BY <2>1, <2>2
    <3> HIDE DEF n, K, c
    <3>2. NamesTyped(GeminiDone(n, c).names)
      BY <3>1, GeminiDoneParts
    <3>3. QED
      BY <3>2 DEF n, c
  <2>4. QED
    BY <1>3, <2>3, AppendProperties
<1>6. \A s \in Seq(S) : s \in T
  <2> HIDE DEF T, S
  <2>1. QED
    BY <1>4, <1>5, SeqInduction, Z3
<1>7. QED
  BY <1>1, <1>3, <1>6

\* But for Gemini, what is sent of a message depends on nothing before it.
LEMMA ConvertedIsFlat ==
  ASSUME NEW t \in TargetNames \ {"gemini"}, NEW h \in Seq(Sayable(t)),
         NEW k, \A m \in Sayable(t) : k[m] = WiresOf(t, <<>>, m)
  PROVE  Converted(t, h) = Flat(k, h)
<1>1. \A i \in 1 .. Len(h) : h[i] \in Sayable(t)
  BY ElementOfSeq
<1>2. \A i \in 1 .. Len(h) : k[h[i]] = WiresOf(t, <<>>, h[i])
  BY <1>1
<1>3. CASE t = "anthropic"
  <2> DEFINE g == [m \in Sayable(t) |-> AnthropicWire(m)]
  <2>1. \A m \in Sayable(t) : k[m] = <<g[m]>> /\ g[m] = AnthropicWire(m)
    BY <1>3 DEF WiresOf
  <2> HIDE DEF g
  <2>2. Flat(k, h) = [i \in 1 .. Len(h) |-> g[h[i]]]
    <3>1. \A m \in Sayable(t) : k[m] = <<g[m]>>
      BY <2>1
    <3>2. QED
      BY <3>1, FlatEach
  <2>3. Converted(t, h) = [i \in 1 .. Len(h) |-> AnthropicWire(h[i])]
    BY <1>3 DEF Converted, AnthropicMessages, AnthropicWire
  <2>4. QED
    BY <1>1, <2>1, <2>2, <2>3
<1>4. CASE t = "openai"
  <2>1. Converted(t, h) = FlattenSeq([i \in 1 .. Len(h) |-> OpenAIMessage(h[i])])
    BY <1>4 DEF Converted
  <2>2. \A i \in 1 .. Len(h) : k[h[i]] = OpenAIMessage(h[i])
    BY <1>2, <1>4 DEF WiresOf
  <2>3. [i \in 1 .. Len(h) |-> k[h[i]]] = [i \in 1 .. Len(h) |-> OpenAIMessage(h[i])]
    BY <2>2
  <2>4. QED
    BY <2>1, <2>3 DEF Flat
<1>5. CASE t = "responses"
  <2>1. Converted(t, h) = FlattenSeq([i \in 1 .. Len(h) |-> ResponsesItems(h[i])])
    BY <1>5 DEF Converted
  <2>2. \A i \in 1 .. Len(h) : k[h[i]] = ResponsesItems(h[i])
    BY <1>2, <1>5 DEF WiresOf
  <2>3. [i \in 1 .. Len(h) |-> k[h[i]]] = [i \in 1 .. Len(h) |-> ResponsesItems(h[i])]
    BY <2>2
  <2>4. QED
    BY <2>1, <2>3 DEF Flat
<1>6. CASE t = "ollama"
  <2>1. Converted(t, h) = FlattenSeq([i \in 1 .. Len(h) |-> OllamaMessage(h[i])])
    BY <1>6 DEF Converted
  <2>2. \A i \in 1 .. Len(h) : k[h[i]] = OllamaMessage(h[i])
    BY <1>2, <1>6 DEF WiresOf
  <2>3. [i \in 1 .. Len(h) |-> k[h[i]]] = [i \in 1 .. Len(h) |-> OllamaMessage(h[i])]
    BY <2>2
  <2>4. QED
    BY <2>1, <2>3 DEF Flat
<1>7. QED
  BY <1>3, <1>4, <1>5, <1>6 DEF TargetNames

\* What is sent, one message at a time, whatever the target.
LEMMA ConvertedStep ==
  ASSUME NEW t \in TargetNames, NEW h \in Seq(Sayable(t)), NEW m \in Sayable(t)
  PROVE  /\ Converted(t, <<>>) = <<>> /\ Converted(t, h) \in Seq(Wires)
         /\ Converted(t, Append(h, m)) = Converted(t, h) \o WiresOf(t, NamesAfter(h), m)
<1> DEFINE S == Sayable(t)
           More(s, e) == Converted(t, Append(s, e)) = Converted(t, s) \o WiresOf(t, NamesAfter(s), e)
<1>1. \A s \in Seq(S), e \in S : WiresOf(t, NamesAfter(s), e) \in Seq(Wires)
  BY AllTold, NamesAfterFacts DEF Told
<1>2. CASE t # "gemini"
  <2> DEFINE k == [e \in S |-> WiresOf(t, <<>>, e)]
  <2>1. \A names : \A e \in S : k[e] = WiresOf(t, names, e)
    BY <1>2 DEF WiresOf, TargetNames
  <2>2. \A e \in S : k[e] = WiresOf(t, <<>>, e) /\ k[e] \in Seq(Wires)
    <3>1. <<>> \in Seq(S)
      BY EmptySeq
    <3>2. QED
      BY <1>1, <2>1, <3>1
  <2> HIDE DEF k, S
  <2>3. \A s \in Seq(S) : Converted(t, s) = Flat(k, s)
    BY <1>2, <2>2, ConvertedIsFlat DEF S
  <2>4. Maps(k, S, Wires)
    BY <2>2 DEF Maps
  <2>5. \A s \in Seq(S), e \in S : More(s, e)
    <3>1. SUFFICES ASSUME NEW s \in Seq(S), NEW e \in S PROVE More(s, e)
      OBVIOUS
    <3>2. Flat(k, Append(s, e)) = Flat(k, s) \o k[e]
      BY <2>4, FlatAppend
    <3>3. Append(s, e) \in Seq(S)
      BY AppendProperties
    <3>4. QED
      BY <2>1, <2>3, <3>2, <3>3
  <2>6. Converted(t, <<>>) = <<>> /\ \A s \in Seq(S) : Converted(t, s) \in Seq(Wires)
    <3>1. <<>> \in Seq(S)
      BY EmptySeq
    <3>2. Flat(k, <<>>) = <<>> /\ \A s \in Seq(S) : Flat(k, s) \in Seq(Wires)
      BY <2>4, FlatNone, FlatType
    <3>3. QED
      BY <2>3, <3>1, <3>2
  <2>7. QED
    BY <2>5, <2>6 DEF S
<1>3. CASE t = "gemini"
  <2> DEFINE F(s) == FoldLeft(GeminiMessage, Nothing, s)
             T == {s \in Seq(S) : Converted(t, s) \in Seq(Wires)}
  <2>1. \A s : Converted(t, s) = F(s).contents
    BY <1>3 DEF Converted, GeminiContents
  <2>2. \A s : NamesAfter(s) = F(s).names
    BY DEF NamesAfter
  <2>3. Converted(t, <<>>) = <<>>
    BY <2>1, GeminiFold DEF Nothing
  <2>4. ASSUME NEW s \in Seq(S), NEW e \in S, Converted(t, s) \in Seq(Wires)
        PROVE  More(s, e)
    <3>1. s \in Seq(Messages) /\ e \in Messages /\ e \in Sound
      BY SayableTyped
    <3>2. F(Append(s, e)) = GeminiMessage(F(s), e)
      BY <3>1, GeminiFold
    <3>3. NamesTyped(NamesAfter(s))
      BY NamesAfterFacts
    <3> DEFINE c == Converted(t, s)
               n == NamesAfter(s)
    <3>4. GeminiMessage([contents |-> c, names |-> n], e).contents = c \o WiresOf("gemini", n, e)
      <4>1. c \in Seq(Wires) /\ NamesTyped(n)
        BY <2>4, <3>3
      <4> HIDE DEF c, n
      <4>2. GeminiMessage([contents |-> c, names |-> n], e)
              = [contents |-> c \o WiresOf("gemini", n, e), names |-> GeminiDone(n, e.content).names]
        BY <3>1, <4>1, GeminiTold
      <4>3. QED
        BY <4>2
    <3>5. \A a : GeminiMessage(a, e).contents
                   = GeminiMessage([contents |-> a.contents, names |-> a.names], e).contents
      BY DEF GeminiMessage
    <3>6. GeminiMessage(F(s), e).contents
            = GeminiMessage([contents |-> F(s).contents, names |-> F(s).names], e).contents
      BY <3>5
    <3>7. c = F(s).contents /\ n = F(s).names /\ Converted(t, Append(s, e)) = F(Append(s, e)).contents
      BY <2>1, <2>2
    <3> HIDE DEF F, c, n
    <3>8. Converted(t, Append(s, e)) = c \o WiresOf("gemini", n, e)
      BY <3>2, <3>4, <3>6, <3>7
    <3>9. QED
      BY <1>3, <3>8 DEF c, n
  <2>5. <<>> \in T
    BY <2>3, EmptySeq
  <2>6. ASSUME NEW s \in Seq(S), NEW e \in S, s \in T PROVE Append(s, e) \in T
    <3>1. Converted(t, s) \in Seq(Wires) /\ WiresOf(t, NamesAfter(s), e) \in Seq(Wires)
      BY <1>1, <2>6
    <3>2. Converted(t, Append(s, e)) = Converted(t, s) \o WiresOf(t, NamesAfter(s), e)
      BY <2>4, <3>1
    <3>3. Converted(t, Append(s, e)) \in Seq(Wires)
      BY <3>1, <3>2, ConcatProperties
    <3>4. QED
      BY <3>3, AppendProperties
  <2>7. \A s \in Seq(S) : s \in T
    <3> HIDE DEF T, S
    <3>1. QED
      BY <2>5, <2>6, SeqInduction, Z3
  <2>8. Converted(t, h) \in Seq(Wires)
    BY <2>7
  <2>9. More(h, m)
    BY <2>4, <2>8
  <2>10. QED
    BY <2>3, <2>8, <2>9
<1>4. QED
  BY <1>2, <1>3

\* The messages of others than the model have no calls.
Asking(t) == {m \in Sayable(t) : m.role # "assistant"}

\* What each of them becomes, with the names that are known.
Wiring(t, known, k) == \A m \in Asking(t) : k[m] = WiresOf(t, known, m)

\* They add to what is sent, each the same wherever it stands among them.
LEMMA ConvertedOnward ==
  ASSUME NEW t \in TargetNames, NEW h \in Seq(Sayable(t)), NEW u \in Seq(Asking(t)),
         NEW k, Wiring(t, NamesAfter(h), k)
  PROVE  /\ h \o u \in Seq(Sayable(t))
         /\ NamesAfter(h \o u) = NamesAfter(h)
         /\ Maps(k, Asking(t), Wires)
         /\ Converted(t, h \o u) = Converted(t, h) \o Flat(k, u)
<1> DEFINE A == Asking(t)
           S == Sayable(t)
           names == NamesAfter(h)
           T == {v \in Seq(A) : /\ NamesAfter(h \o v) = names
                                /\ Converted(t, h \o v) = Converted(t, h) \o Flat(k, v)}
<1>0. \A m \in A : k[m] = WiresOf(t, names, m)
  BY DEF Wiring
<1>1. A \subseteq S /\ \A v \in Seq(A) : v \in Seq(S)
  <2>1. A \subseteq S
    BY DEF Asking
  <2> HIDE DEF A, S
  <2>2. QED
    BY <2>1, SeqWider
<1>2. \A v \in Seq(A) : h \o v \in Seq(S)
  BY <1>1, ConcatProperties
<1>3. Converted(t, h) \in Seq(Wires) /\ NamesTyped(names)
  <2>1. \A m \in S : Converted(t, h) \in Seq(Wires)
    BY ConvertedStep
  <2>2. S # {} => Converted(t, h) \in Seq(Wires)
    BY <2>1
  <2>3. S = {} => h = <<>>
    OBVIOUS
  <2>4. Message("user", <<>>) \in S
    <3>1. <<>> \in Seq(MessageBlocks) /\ <<>> \in Seq(WritableBlocks) /\ \A K : <<>> \in Seq(Typed(K))
      BY EmptySeq
    <3>2. QED
      BY <3>1, MessageTyped DEF Sayable, Sound, Message
  <2>5. QED
    BY <2>2, <2>4, NamesAfterFacts
<1>4. Maps(k, A, Wires)
  <2>1. \A m \in A : WiresOf(t, names, m) \in Seq(Wires)
    BY <1>1, <1>3, AllTold DEF Told
  <2>2. QED
    BY <1>0, <2>1 DEF Maps
<1>5. <<>> \in T
  <2>1. h \o <<>> = h /\ Converted(t, h) \o <<>> = Converted(t, h)
    BY <1>3, ConcatEmptySeq
  <2>2. QED
    BY <2>1, FlatNone, EmptySeq
<1>6. ASSUME NEW v \in Seq(A), NEW e \in A, v \in T PROVE Append(v, e) \in T
  <2> DEFINE s == h \o v
             x == Converted(t, h)
             y == Flat(k, v)
             z == k[e]
  <2>1. s \in Seq(S) /\ e \in S /\ e.role # "assistant" /\ e \in Sound
    BY <1>1, <1>2, SayableTyped DEF Asking
  <2>2. NamesAfter(s) = names /\ Converted(t, s) = x \o y
    BY <1>6
  <2>3. h \o Append(v, e) = Append(s, e)
    <3> HIDE DEF S, A
    <3>1. h \in Seq(S) /\ v \in Seq(S) /\ <<e>> \in Seq(S)
      BY <1>1, <2>1
    <3>2. Append(v, e) = v \o <<e>> /\ Append(s, e) = s \o <<e>>
      BY <2>1, <3>1, AppendIsConcat
    <3>3. (h \o v) \o <<e>> = h \o (v \o <<e>>)
      BY <3>1, ConcatAssociative
    <3>4. QED
      BY <3>2, <3>3
  <2>4. NamesAfter(Append(s, e)) = names
    <3>1. NamesAfter(Append(s, e)) = GeminiDone(NamesAfter(s), e.content).names
      BY <2>1, NamesAfterFacts
    <3>2. e.content \in Seq(Typed(KindsOf(e.role))) /\ "tool_use" \notin KindsOf(e.role)
      BY <2>1, SoundFacts
    <3>3. GeminiDone(names, e.content).names = names
      <4> DEFINE K == KindsOf(e.role)
                 c == e.content
      <4> HIDE DEF K, c, names
      <4>1. NamesTyped(names) /\ c \in Seq(Typed(K)) /\ "tool_use" \notin K
        BY <1>3, <3>2 DEF K, c
      <4>2. GeminiDone(names, c).names = names
        BY <4>1, GeminiDoneParts
      <4>3. QED
        BY <4>2 DEF c
    <3>4. QED
      BY <2>2, <3>1, <3>3
  <2>5. Converted(t, Append(s, e)) = (x \o y) \o z
    <3>1. Converted(t, Append(s, e)) = Converted(t, s) \o WiresOf(t, NamesAfter(s), e)
      BY <2>1, ConvertedStep
    <3>2. z = WiresOf(t, names, e)
      BY <1>0
    <3> HIDE DEF s, x, y, z, names
    <3>3. QED
      BY <2>2, <3>1, <3>2
  <2>6. Flat(k, Append(v, e)) = y \o z
    BY <1>4, FlatAppend
  <2>7. (x \o y) \o z = x \o (y \o z)
    <3>1. x \in Seq(Wires) /\ y \in Seq(Wires) /\ z \in Seq(Wires)
      BY <1>3, <1>4, FlatType DEF Maps
    <3> HIDE DEF x, y, z, T
    <3>2. Associates(Wires)
      BY AllAssociate
    <3>3. QED
      BY <3>1, <3>2, Zenon DEF Associates
  <2>8. Append(v, e) \in Seq(A)
    BY AppendProperties
  <2> HIDE DEF s, y, z, names, A
  <2>9. QED
    BY <2>3, <2>4, <2>5, <2>6, <2>7, <2>8
<1>7. \A v \in Seq(A) : v \in T
  <2> HIDE DEF T, A
  <2>1. QED
    BY <1>5, <1>6, SeqInduction, Z3
<1>8. QED
  BY <1>2, <1>4, <1>7

\* The content of a message.
ContentOf == [m \in Messages |-> m.content]

\* What others than the model say has no calls, and has its results.
LEMMA AskingTold ==
  ASSUME NEW t \in TargetNames, NEW names, NamesTyped(names), NEW u \in Seq(Asking(t)),
         NEW k, \A m \in Asking(t) : k[m] = WiresOf(t, names, m)
  PROVE  /\ Flat(k, u) \in Seq(Wires)
         /\ Of(Flat(PartsOf, Flat(k, u)), {"tool_use"}) = <<>>
         /\ Of(Flat(PartsOf, Flat(k, u)), {"tool_result"})
              = Flat(ResultSent(t, names), Flat(ContentOf, u))
<1> DEFINE A == Asking(t)
           called == {"tool_use"}
           result == {"tool_result"}
           rs == ResultSent(t, names)
           p == [m \in A |-> Flat(PartsOf, k[m])]
           c == [m \in A |-> Of(p[m], called)]
           r == [m \in A |-> Of(p[m], result)]
<1>1. \A m \in A : m \in Sound /\ m \in Sayable(t) /\ m \in Messages /\ m.role # "assistant"
  BY SayableTyped DEF Asking
<1>2. \A m \in A : /\ k[m] \in Seq(Wires) /\ p[m] = Flat(PartsOf, k[m])
                   /\ p[m] \in Seq(MessageBlocks)
                   /\ c[m] = Of(p[m], called) /\ r[m] = Of(p[m], result)
                   /\ c[m] = <<>> /\ r[m] = Flat(rs, ContentOf[m])
                   /\ ContentOf[m] \in Seq(MessageBlocks)
  <2>1. SUFFICES ASSUME NEW m \in A
                 PROVE  /\ k[m] \in Seq(Wires) /\ Flat(PartsOf, k[m]) \in Seq(MessageBlocks)
                        /\ Of(Flat(PartsOf, k[m]), called) = <<>>
                        /\ Of(Flat(PartsOf, k[m]), result) = Flat(rs, ContentOf[m])
                        /\ ContentOf[m] \in Seq(MessageBlocks)
    OBVIOUS
  <2>2. Told(t, names, m) /\ k[m] = WiresOf(t, names, m)
    BY <1>1, AllTold
  <2>3. ContentOf[m] = m.content /\ m.content \in Seq(MessageBlocks)
        /\ m.content \in Seq(Typed(KindsOf(m.role))) /\ "tool_use" \notin KindsOf(m.role)
    BY <1>1, SoundFacts DEF ContentOf
  <2>4. Flat(CallSent(t), m.content) = <<>>
    <3> DEFINE K == KindsOf(m.role)
               x == m.content
    <3>1. x \in Seq(Typed(K)) /\ "tool_use" \notin K
      BY <2>3
    <3> HIDE DEF K, x
    <3>2. Flat(CallSent(t), x) = <<>>
      BY <3>1, NoneSent
    <3>3. QED
      BY <3>2 DEF x
  <2>5. k[m] \in Seq(Wires) /\ Flat(PartsOf, k[m]) \in Seq(MessageBlocks)
    BY <2>2, PartsFacts DEF Told
  <2>6. QED
    BY <2>2, <2>3, <2>4, <2>5 DEF Told
<1> HIDE DEF A, called, result, rs, p, c, r
<1>3. Maps(k, A, Wires) /\ Maps(p, A, MessageBlocks) /\ u \in Seq(A)
  BY <1>2 DEF Maps, A
<1>4. Flat(k, u) \in Seq(Wires)
  BY <1>3, FlatType
<1>5. Flat(PartsOf, Flat(k, u)) = Flat(p, u)
  <2>1. \A m \in A : p[m] = Flat(PartsOf, k[m])
    BY <1>2
  <2>2. QED
    BY <1>3, <2>1, PartsMaps, FlatFlat
<1>6. Of(Flat(p, u), called) = <<>>
  <2>1. \A m \in A : c[m] = Of(p[m], called)
    BY <1>2
  <2>2. \A m \in A : c[m] = <<>>
    BY <1>2
  <2>3. Of(Flat(p, u), called) = Flat(c, u)
    BY <1>3, <2>1, ThenSel
  <2>4. Flat(c, u) = <<>>
    BY <1>3, <2>2, FlatNothing
  <2>5. QED
    BY <2>3, <2>4
<1>7. Of(Flat(p, u), result) = Flat(rs, Flat(ContentOf, u))
  <2>1. \A m \in A : r[m] = Of(p[m], result)
    BY <1>2
  <2>2. \A m \in A : r[m] = Flat(rs, ContentOf[m])
    BY <1>2
  <2>3. Of(Flat(p, u), result) = Flat(r, u)
    BY <1>3, <2>1, ThenSel
  <2>4. Maps(ContentOf, A, MessageBlocks)
    BY <1>2 DEF Maps
  <2>5. Maps(rs, MessageBlocks, MessageBlocks)
    BY SentMaps, TypedSubset DEF rs
  <2>6. Flat(rs, Flat(ContentOf, u)) = Flat(r, u)
    BY <1>3, <2>2, <2>4, <2>5, FlatFlat
  <2>7. QED
    BY <2>3, <2>6
<1>8. QED
  BY <1>4, <1>5, <1>6, <1>7 DEF called, result, rs

\* Messages without results.
Resultless(t) == {m \in Sayable(t) : m.content \in Seq(Typed(ReplayTypes \ {"tool_result"}))}

\* Messages without results put none on the wire.
LEMMA NoResultsYet ==
  ASSUME NEW t \in TargetNames, NEW h \in Seq(Resultless(t))
  PROVE  /\ h \in Seq(Sayable(t)) /\ Converted(t, h) \in Seq(Wires)
         /\ Of(Flat(PartsOf, Converted(t, h)), {"tool_result"}) = <<>>
<1> DEFINE R == Resultless(t)
           S == Sayable(t)
           result == {"tool_result"}
           T == {s \in Seq(R) : /\ Converted(t, s) \in Seq(Wires)
                                /\ Of(Flat(PartsOf, Converted(t, s)), result) = <<>>}
<1>1. R \subseteq S /\ \A s \in Seq(R) : s \in Seq(S)
  <2>1. R \subseteq S
    BY DEF Resultless
  <2> HIDE DEF R, S
  <2>2. QED
    BY <2>1, SeqWider
<1>2. <<>> \in T
  <2>1. Message("user", <<>>) \in S /\ <<>> \in Seq(S)
    <3>1. <<>> \in Seq(MessageBlocks) /\ <<>> \in Seq(WritableBlocks) /\ \A K : <<>> \in Seq(Typed(K))
      BY EmptySeq
    <3>2. Message("user", <<>>) \in S
      BY <3>1, MessageTyped DEF Sayable, Sound, Message
    <3>3. QED
      BY <3>2, EmptySeq
  <2>2. Converted(t, <<>>) = <<>>
    BY <2>1, ConvertedStep
  <2>3. <<>> \in Seq(Wires) /\ Of(Flat(PartsOf, <<>>), result) = <<>>
    BY PartsFacts, OfFacts, EmptySeq
  <2>4. QED
    BY <2>2, <2>3, EmptySeq
<1>3. ASSUME NEW s \in Seq(R), NEW m \in R, s \in T PROVE Append(s, m) \in T
  <2> DEFINE w == WiresOf(t, NamesAfter(s), m)
             x == Converted(t, s)
  <2>1. s \in Seq(S) /\ m \in S /\ m.content \in Seq(Typed(ReplayTypes \ {"tool_result"}))
    BY <1>1 DEF Resultless
  <2>2. Converted(t, Append(s, m)) = x \o w
    BY <2>1, ConvertedStep
  <2>3. Told(t, NamesAfter(s), m)
    BY <2>1, NamesAfterFacts, AllTold
  <2>4. Flat(ResultSent(t, NamesAfter(s)), m.content) = <<>>
    <3> DEFINE K == ReplayTypes \ {"tool_result"}
               c == m.content
    <3>1. c \in Seq(Typed(K)) /\ "tool_result" \notin K
      BY <2>1
    <3> HIDE DEF K, c
    <3>2. Flat(ResultSent(t, NamesAfter(s)), c) = <<>>
      BY <3>1, NoneSent
    <3>3. QED
      BY <3>2 DEF c
  <2>5. w \in Seq(Wires) /\ Of(Flat(PartsOf, w), result) = <<>>
    BY <2>3, <2>4 DEF Told
  <2>6. x \in Seq(Wires) /\ Of(Flat(PartsOf, x), result) = <<>>
    BY <1>3
  <2> HIDE DEF x, w, result
  <2>7. /\ x \o w \in Seq(Wires) /\ Flat(PartsOf, x \o w) = Flat(PartsOf, x) \o Flat(PartsOf, w)
        /\ Flat(PartsOf, x) \in Seq(MessageBlocks) /\ Flat(PartsOf, w) \in Seq(MessageBlocks)
    BY <2>5, <2>6, PartsFacts, ConcatProperties
  <2>8. Of(Flat(PartsOf, x \o w), result)
          = Of(Flat(PartsOf, x), result) \o Of(Flat(PartsOf, w), result)
    BY <2>7, OfPair
  <2>9. <<>> \o <<>> = <<>>
    BY ConcatEmptySeq, EmptySeq
  <2>10. QED
    BY <2>2, <2>5, <2>6, <2>7, <2>8, <2>9, AppendProperties
<1>4. \A s \in Seq(R) : s \in T
  <2> HIDE DEF T, R
  <2>1. QED
    BY <1>2, <1>3, SeqInduction, Z3
<1>5. QED
  BY <1>1, <1>4

\* The conversation with the answer on the wire, in four parts, its calls, and its results.
LEMMA WholeTold ==
  ASSUME NEW t \in TargetNames,
         NEW first \in Seq(Resultless(t)), NEW rest \in Seq(Asking(t)),
         NEW said \in Sayable(t), said.role = "assistant",
         NEW after \in Seq(Asking(t))
  PROVE  LET names == NamesAfter(first)
             known == GeminiDone(names, said.content).names
             h     == (first \o rest) \o <<said>> \o after
             wires == Converted(t, h)
         IN  /\ NamesTyped(names) /\ NamesTyped(known)
             /\ \E x, z \in Seq(Wires) :
                  /\ wires = (x \o WiresOf(t, names, said)) \o z
                  /\ z = Flat([m \in Asking(t) |-> WiresOf(t, known, m)], after)
                  /\ WiresOf(t, names, said) \in Seq(Wires)
                  /\ Of(Flat(PartsOf, WiresOf(t, names, said)), {"tool_use"})
                       = Flat(CallSent(t), said.content)
                  /\ Of(Flat(PartsOf, z), {"tool_use"}) = <<>>
                  /\ first = <<>> \/ first \in Seq(Asking(t)) =>
                       Of(Flat(PartsOf, x), {"tool_use"}) = <<>>
                  /\ Of(Flat(PartsOf, wires), {"tool_use"})
                       = Of(Flat(PartsOf, x), {"tool_use"}) \o Flat(CallSent(t), said.content)
                  /\ Of(Flat(PartsOf, wires), {"tool_result"})
                       = Flat(ResultSent(t, names), Flat(ContentOf, rest))
                           \o Flat(ResultSent(t, known), Flat(ContentOf, after))
<1> DEFINE names == NamesAfter(first)
           known == GeminiDone(names, said.content).names
           A == Asking(t)
           S == Sayable(t)
           before == first \o rest
           upto == Append(before, said)
           k == [m \in A |-> WiresOf(t, names, m)]
           l == [m \in A |-> WiresOf(t, known, m)]
           x1 == Converted(t, first)
           x2 == Flat(k, rest)
           y == WiresOf(t, names, said)
           z == Flat(l, after)
           called == {"tool_use"}
           result == {"tool_result"}
<1>1. first \in Seq(S) /\ x1 \in Seq(Wires) /\ Of(Flat(PartsOf, x1), result) = <<>>
  BY NoResultsYet
<1>2. NamesTyped(names)
  BY <1>1, NamesAfterFacts
<1>3. /\ before \in Seq(S) /\ NamesAfter(before) = names /\ Converted(t, before) = x1 \o x2
  <2>1. Wiring(t, names, k)
    BY DEF Wiring
  <2> DEFINE h == first
  <2>2. h \in Seq(Sayable(t)) /\ names = NamesAfter(h)
    BY <1>1
  <2> HIDE DEF k, names, h
  <2>3. /\ h \o rest \in Seq(Sayable(t)) /\ NamesAfter(h \o rest) = names
        /\ Converted(t, h \o rest) = Converted(t, h) \o Flat(k, rest)
    BY <2>1, <2>2, ConvertedOnward
  <2>4. QED
    BY <2>3 DEF h
<1>4. /\ upto \in Seq(S) /\ NamesAfter(upto) = known /\ Converted(t, upto) = (x1 \o x2) \o y
      /\ NamesTyped(known)
  <2>1. upto \in Seq(S)
    BY <1>3, AppendProperties
  <2>2. NamesAfter(upto) = GeminiDone(NamesAfter(before), said.content).names
    BY <1>3, NamesAfterFacts
  <2>3. Converted(t, upto) = Converted(t, before) \o WiresOf(t, NamesAfter(before), said)
    BY <1>3, ConvertedStep
  <2>4. NamesTyped(NamesAfter(upto))
    BY <2>1, NamesAfterFacts
  <2>5. QED
    BY <1>3, <2>1, <2>2, <2>3, <2>4
<1>5. Converted(t, upto \o after) = ((x1 \o x2) \o y) \o z
  <2>1. Wiring(t, NamesAfter(upto), l)
    BY <1>4 DEF Wiring
  <2> HIDE DEF l, upto
  <2>2. Converted(t, upto \o after) = Converted(t, upto) \o Flat(l, after)
    BY <1>4, <2>1, ConvertedOnward
  <2>3. QED
    BY <1>4, <2>2
<1>6. upto \o after = before \o <<said>> \o after
  <2> HIDE DEF before
  <2>1. Append(before, said) = before \o <<said>>
    BY <1>3, AppendIsConcat
  <2>2. QED
    BY <2>1
<1>7. /\ x2 \in Seq(Wires) /\ Of(Flat(PartsOf, x2), called) = <<>>
      /\ Of(Flat(PartsOf, x2), result) = Flat(ResultSent(t, names), Flat(ContentOf, rest))
  <2>1. \A m \in A : k[m] = WiresOf(t, names, m)
    OBVIOUS
  <2> HIDE DEF k, names
  <2>2. QED
    BY <1>2, <2>1, AskingTold
<1>8. /\ z \in Seq(Wires) /\ Of(Flat(PartsOf, z), called) = <<>>
      /\ Of(Flat(PartsOf, z), result) = Flat(ResultSent(t, known), Flat(ContentOf, after))
  <2>1. \A m \in A : l[m] = WiresOf(t, known, m)
    OBVIOUS
  <2> HIDE DEF l, known
  <2>2. QED
    BY <1>4, <2>1, AskingTold
<1>9. /\ y \in Seq(Wires) /\ Of(Flat(PartsOf, y), called) = Flat(CallSent(t), said.content)
      /\ Of(Flat(PartsOf, y), result) = <<>>
  <2>1. Told(t, names, said)
    BY <1>2, AllTold
  <2>2. Flat(ResultSent(t, names), said.content) = <<>>
    <3> DEFINE K == KindsOf(said.role)
               c == said.content
    <3>1. c \in Seq(Typed(K)) /\ "tool_result" \notin K
      BY SayableTyped, SoundFacts
    <3> HIDE DEF K, c, names
    <3>2. Flat(ResultSent(t, names), c) = <<>>
      BY <3>1, NoneSent
    <3>3. QED
      BY <3>2 DEF c
  <2>3. QED
    BY <2>1, <2>2 DEF Told
<1>10. first = <<>> \/ first \in Seq(A) => Of(Flat(PartsOf, x1), called) = <<>>
  <2>1. SUFFICES ASSUME first \in Seq(A) PROVE Of(Flat(PartsOf, x1), called) = <<>>
    BY EmptySeq
  <2> DEFINE none == <<>>
             start == NamesAfter(none)
             j == [m \in A |-> WiresOf(t, start, m)]
  <2>2. \A m \in A : j[m] = WiresOf(t, start, m)
    OBVIOUS
  <2>3. none \in Seq(S) /\ Converted(t, none) = <<>> /\ none \o first = first
    BY <2>1, <1>1, ConvertedStep, ConcatEmptySeq, EmptySeq
  <2>4. NamesTyped(start)
    BY <2>3, NamesAfterFacts
  <2> HIDE DEF j, none
  <2>5. Converted(t, none \o first) = Converted(t, none) \o Flat(j, first)
    <3>1. Wiring(t, NamesAfter(none), j)
      BY <2>2 DEF Wiring
    <3>2. QED
      BY <2>1, <2>3, <3>1, ConvertedOnward
  <2> HIDE DEF start
  <2>6. Flat(j, first) \in Seq(Wires) /\ Of(Flat(PartsOf, Flat(j, first)), called) = <<>>
    BY <2>1, <2>2, <2>4, AskingTold
  <2>7. x1 = Flat(j, first)
    BY <2>3, <2>5, <2>6, ConcatEmptySeq
  <2>8. QED
    BY <2>6, <2>7
<1> HIDE DEF names, known, x1, x2, y, z, called, result, A, S, k, l
<1> DEFINE x == x1 \o x2
           P(w) == Flat(PartsOf, w)
<1>11. x \in Seq(Wires) /\ x \o y \in Seq(Wires) /\ (x \o y) \o z \in Seq(Wires)
  BY <1>1, <1>7, <1>8, <1>9, ConcatProperties
<1>12. \A types : \A v, w \in Seq(Wires) : Of(P(v \o w), types) = Of(P(v), types) \o Of(P(w), types)
  <2>1. SUFFICES ASSUME NEW v \in Seq(Wires), NEW w \in Seq(Wires), NEW types
                 PROVE  Of(P(v \o w), types) = Of(P(v), types) \o Of(P(w), types)
    OBVIOUS
  <2>2. P(v \o w) = P(v) \o P(w) /\ P(v) \in Seq(MessageBlocks) /\ P(w) \in Seq(MessageBlocks)
    BY PartsFacts
  <2> HIDE DEF P
  <2>3. QED
    BY <2>2, OfPair
<1>13. \A types : \A w \in Seq(Wires) : Of(P(w), types) \in Seq(MessageBlocks)
  BY PartsFacts, OfFacts
<1> HIDE DEF P
<1>14. \A types : /\ Of(P(x), types) = Of(P(x1), types) \o Of(P(x2), types)
                  /\ Of(P((x \o y) \o z), types)
                       = (Of(P(x), types) \o Of(P(y), types)) \o Of(P(z), types)
  <2>1. \A types : Of(P(x), types) = Of(P(x1), types) \o Of(P(x2), types)
    BY <1>1, <1>7, <1>12
  <2> HIDE DEF x
  <2>2. \A types : Of(P(x \o y), types) = Of(P(x), types) \o Of(P(y), types)
    BY <1>9, <1>11, <1>12
  <2>3. \A types : Of(P((x \o y) \o z), types) = Of(P(x \o y), types) \o Of(P(z), types)
    BY <1>8, <1>11, <1>12
  <2>4. QED
    BY <2>1, <2>2, <2>3
<1>15. /\ Of(P(x), called) = Of(P(x1), called)
       /\ Of(P(x), result) = Of(P(x2), result)
  <2>1. /\ Of(P(x), called) = Of(P(x1), called) \o <<>>
        /\ Of(P(x), result) = <<>> \o Of(P(x2), result)
    BY <1>1, <1>7, <1>14 DEF P
  <2>2. Of(P(x1), called) \in Seq(MessageBlocks) /\ Of(P(x2), result) \in Seq(MessageBlocks)
    BY <1>1, <1>7, <1>13
  <2> HIDE DEF x
  <2>3. QED
    BY <2>1, <2>2, ConcatEmptySeq
<1> HIDE DEF x
<1>16. /\ Of(P((x \o y) \o z), called) = Of(P(x), called) \o Of(P(y), called)
       /\ Of(P((x \o y) \o z), result) = Of(P(x), result) \o Of(P(z), result)
  <2> DEFINE xc == Of(P(x), called)
             yc == Of(P(y), called)
             xr == Of(P(x), result)
             zr == Of(P(z), result)
  <2>1. /\ Of(P((x \o y) \o z), called) = (xc \o yc) \o <<>>
        /\ Of(P((x \o y) \o z), result) = (xr \o <<>>) \o zr
    BY <1>8, <1>9, <1>14 DEF P
  <2>2. /\ xc \in Seq(MessageBlocks) /\ yc \in Seq(MessageBlocks) /\ xr \in Seq(MessageBlocks)
    BY <1>9, <1>11, <1>13
  <2> HIDE DEF xc, yc, xr, zr
  <2>3. xc \o yc \in Seq(MessageBlocks) /\ xr \o <<>> = xr
    BY <2>2, ConcatProperties, ConcatEmptySeq
  <2>4. (xc \o yc) \o <<>> = xc \o yc
    BY <2>3, ConcatEmptySeq
  <2>5. QED
    BY <2>1, <2>3, <2>4 DEF xc, yc, xr, zr
<1> DEFINE wires == Converted(t, before \o <<said>> \o after)
<1>17. wires = (x \o y) \o z
  BY <1>5, <1>6 DEF x
<1> HIDE DEF wires
<1>18. /\ Of(P(wires), called) = Of(P(x), called) \o Flat(CallSent(t), said.content)
       /\ Of(P(wires), result)
            = Flat(ResultSent(t, names), Flat(ContentOf, rest))
                \o Flat(ResultSent(t, known), Flat(ContentOf, after))
  BY <1>7, <1>8, <1>9, <1>15, <1>16, <1>17 DEF P
<1>19. first = <<>> \/ first \in Seq(A) => Of(P(x), called) = <<>>
  BY <1>10, <1>15 DEF P
<1>20. x \in Seq(Wires) /\ z \in Seq(Wires)
  BY <1>8, <1>11
<1>21. z = Flat([m \in Asking(t) |-> WiresOf(t, known, m)], after)
  BY DEF z, l, A
<1> HIDE DEF before
<1>22. /\ NamesTyped(names) /\ NamesTyped(known)
       /\ \E u, v \in Seq(Wires) :
            /\ wires = (u \o y) \o v
            /\ v = Flat([m \in Asking(t) |-> WiresOf(t, known, m)], after)
            /\ y \in Seq(Wires)
            /\ Of(P(y), called) = Flat(CallSent(t), said.content)
            /\ Of(P(v), called) = <<>>
            /\ first = <<>> \/ first \in Seq(A) => Of(P(u), called) = <<>>
            /\ Of(P(wires), called) = Of(P(u), called) \o Flat(CallSent(t), said.content)
            /\ Of(P(wires), result)
                 = Flat(ResultSent(t, names), Flat(ContentOf, rest))
                     \o Flat(ResultSent(t, known), Flat(ContentOf, after))
  <2>1. Of(P(y), called) = Flat(CallSent(t), said.content) /\ Of(P(z), called) = <<>>
    BY <1>8, <1>9 DEF P
  <2>2. QED
    BY <1>2, <1>4, <1>9, <1>17, <1>18, <1>19, <1>20, <1>21, <2>1
<1>23. QED
  BY <1>22 DEF P, wires, y, names, known, A, called, result, before

-----------------------------------------------------------------------------
(* The replies *)

\* The type of the results.
Results == {"tool_result"}

\* The forms of a reply with the results rs, or with none.
Formed(rs, after) ==
  \/ after = [i \in 1 .. Len(rs) |-> Message("tool", <<rs[i]>>)]
  \/ after = <<Message("tool", rs)>>
  \/ after = <<Message("user", Append(rs, Words(Said)))>>
  \/ after = <<Message("user", <<Words(Said)>> \o rs)>>

\* One result for each call, which says something or that it is a failure.
Answering(rs, calls) ==
  /\ rs \in Seq(Typed(Results)) /\ Len(rs) = Len(calls)
  /\ \A i \in 1 .. Len(calls) : rs[i].id = calls[i].id
  /\ \A i \in 1 .. Len(calls) : rs[i].failed \/ rs[i].body # <<>>

\* Every reply answers the calls in order and has one of four forms.
LEMMA RepliesFormed ==
  ASSUME NEW content \in Seq(MessageBlocks), NEW after \in Replies(content)
  PROVE  \E rs : Answering(rs, Of(content, {"tool_use"})) /\ Formed(rs, after)
<1> DEFINE calls == Of(content, {"tool_use"})
           Made(text, failed) ==
             [i \in 1 .. Len(calls) |-> ToolResultBlock(calls[i].id, text, failed)]
           Forms(rs) ==
             {[i \in 1 .. Len(rs) |-> Message("tool", <<rs[i]>>)],
              <<Message("tool", rs)>>,
              <<Message("user", Append(rs, Words(Said)))>>,
              <<Message("user", <<Words(Said)>> \o rs)>>}
           next == <<Message("user", <<Words(Said)>>)>>
<1>1. Len(calls) \in Nat /\ \A i \in 1 .. Len(calls) : calls[i] \in MessageBlocks
  <2>1. calls \in Seq(MessageBlocks)
    BY OfFacts
  <2> HIDE DEF calls
  <2>2. QED
    BY <2>1, LenProperties, ElementOfSeq
<1>2. /\ calls = <<>> => after = next
      /\ calls # <<>> => \/ after \in Forms(Made(Said, FALSE))
                         \/ after \in Forms(Made(Said, TRUE))
                         \/ after \in Forms(Made(<<>>, TRUE))
  BY DEF Replies
<1>3. \A rs : after \in Forms(rs) => Formed(rs, after)
  BY DEF Formed
<1>4. ASSUME NEW text \in Strings, NEW failed \in BOOLEAN, failed \/ text # <<>>
      PROVE  Answering(Made(text, failed), calls)
  <2> DEFINE r == Made(text, failed)
             T == Typed(Results)
  <2>1. ASSUME NEW i \in 1 .. Len(calls)
        PROVE  /\ ToolResultBlock(calls[i].id, text, failed) \in T
               /\ ToolResultBlock(calls[i].id, text, failed).id = calls[i].id
               /\ ToolResultBlock(calls[i].id, text, failed).failed = failed
               /\ ToolResultBlock(calls[i].id, text, failed).body = text
    <3>1. calls[i].id \in Nat
      BY <1>1 DEF MessageBlocks
    <3>2. ToolResultBlock(calls[i].id, text, failed) \in MessageBlocks
      BY <3>1, BlocksTyped
    <3>3. \A n, s, f : /\ ToolResultBlock(n, s, f).type = "tool_result"
                       /\ ToolResultBlock(n, s, f).id = n
                       /\ ToolResultBlock(n, s, f).failed = f
                       /\ ToolResultBlock(n, s, f).body = s
      BY DEF ToolResultBlock, Block
    <3>4. QED
      BY <3>2, <3>3 DEF Typed, Results
  <2> HIDE DEF T, calls
  <2>2. r \in Seq(T) /\ Len(r) = Len(calls)
        /\ \A i \in 1 .. Len(calls) : r[i] = ToolResultBlock(calls[i].id, text, failed)
    BY <1>1, <2>1
  <2> HIDE DEF r
  <2>3. QED
    BY <1>4, <2>1, <2>2 DEF Answering, T, r
<1>5. CASE calls = <<>>
  <2> DEFINE none == <<>>
  <2>1. Answering(none, calls)
    <3>1. none \in Seq(Typed(Results)) /\ Len(none) = 0 /\ Len(calls) = 0
      BY <1>5, EmptySeq
    <3> HIDE DEF calls, none
    <3>2. QED
      BY <3>1 DEF Answering
  <2>2. Append(none, Words(Said)) = <<Words(Said)>>
    OBVIOUS
  <2>3. after = <<Message("user", Append(none, Words(Said)))>>
    BY <1>2, <1>5, <2>2
  <2>4. QED
    BY <2>1, <2>3 DEF Formed
<1>6. CASE calls # <<>>
  <2> HIDE DEF Forms, Made, calls
  <2>1. QED
    BY <1>2, <1>3, <1>4, <1>6, Texts DEF calls
<1>7. QED
  BY <1>5, <1>6

\* A message of a tool or of a user that can be a reply.
LEMMA AskingMessage ==
  ASSUME NEW t, NEW role \in {"tool", "user"}, NEW c \in Seq(Typed(KindsOf(role)))
  PROVE  /\ Message(role, c) \in Asking(t)
         /\ ContentOf[Message(role, c)] = c
         /\ <<Message(role, c)>> \in Seq(Asking(t))
         /\ Flat(ContentOf, <<Message(role, c)>>) = c
<1> DEFINE m == Message(role, c)
<1>1. c \in Seq(MessageBlocks)
  BY TypedIn
<1>2. m \in Messages /\ m.role = role /\ m.content = c
  BY <1>1, MessageTyped DEF Message
<1>3. c \in Seq(WritableBlocks)
  <2> DEFINE T == Typed(KindsOf(role))
  <2>1. T \subseteq WritableBlocks
    BY DEF Typed, KindsOf, WritableBlocks
  <2> HIDE DEF T
  <2>2. QED
    BY <2>1, SeqWider DEF T
<1> HIDE DEF m
<1>4. m \in Asking(t)
  BY <1>2, <1>3 DEF Asking, Sayable, Sound
<1>5. ContentOf[m] = c
  BY <1>2 DEF ContentOf
<1>6. Maps(ContentOf, Messages, MessageBlocks)
  BY DEF Maps, ContentOf, Messages
<1>7. Flat(ContentOf, <<m>>) = ContentOf[m]
  BY <1>2, <1>6, FlatOne
<1>8. <<m>> \in Seq(Asking(t))
  BY <1>4
<1>9. QED
  BY <1>4, <1>5, <1>7, <1>8 DEF m

\* A word beside the results of a reply.
LEMMA SaidWord ==
  /\ Words(Said) \in MessageBlocks /\ Words(Said).type = "text"
  /\ \A rs \in Seq(Typed(Results)) :
       LET word == Words(Said)
       IN  /\ Append(rs, word) \in Seq(Typed(KindsOf("user")))
           /\ <<word>> \o rs \in Seq(Typed(KindsOf("user")))
           /\ rs \in Seq(MessageBlocks) /\ rs \in Seq(Typed(KindsOf("user")))
           /\ rs \in Seq(Typed(KindsOf("tool")))
           /\ Of(Append(rs, word), Results) = rs
           /\ Of(<<word>> \o rs, Results) = rs
           /\ Of(rs, Results) = rs
           /\ \A i \in 1 .. Len(rs) : rs[i] \in MessageBlocks /\ rs[i].type = "tool_result"
<1>1. Words(Said) \in MessageBlocks /\ Words(Said).type = "text"
  BY Texts, BlocksTyped DEF Words, Block
<1> DEFINE word == Words(Said)
           U == Typed(KindsOf("user"))
           R == Typed(Results)
<1>2. word \in U /\ R \subseteq U /\ KindsOf("tool") = Results
  BY <1>1 DEF Typed, KindsOf, Results
<1>3. \A b \in R : b \in MessageBlocks /\ b.type = "tool_result"
  BY DEF Typed, Results
<1> HIDE DEF word, U, R
<1>4. SUFFICES ASSUME NEW rs \in Seq(R)
               PROVE  /\ Append(rs, word) \in Seq(U) /\ <<word>> \o rs \in Seq(U)
                      /\ rs \in Seq(MessageBlocks) /\ rs \in Seq(U) /\ rs \in Seq(R)
                      /\ Of(Append(rs, word), Results) = rs
                      /\ Of(<<word>> \o rs, Results) = rs
                      /\ Of(rs, Results) = rs
                      /\ \A i \in 1 .. Len(rs) : rs[i] \in MessageBlocks /\ rs[i].type = "tool_result"
  BY <1>1, <1>2 DEF word, U, R
<1>5. rs \in Seq(U) /\ rs \in Seq(MessageBlocks) /\ \A i \in 1 .. Len(rs) : rs[i] \in R
  <2>1. rs \in Seq(U)
    BY <1>2, SeqWider
  <2>2. rs \in Seq(MessageBlocks)
    BY TypedIn DEF R
  <2>3. QED
    BY <2>1, <2>2, ElementOfSeq
<1>6. <<word>> \in Seq(U) /\ <<word>> \in Seq(MessageBlocks)
  BY <1>1, <1>2 DEF word
<1>7. Append(rs, word) = rs \o <<word>> /\ Append(rs, word) \in Seq(U) /\ <<word>> \o rs \in Seq(U)
  BY <1>2, <1>5, <1>6, AppendIsConcat, AppendProperties, ConcatProperties
<1>8. Of(rs, Results) = rs
  BY OfTyped DEF R
<1>9. Of(<<word>>, Results) = <<>>
  <2>1. word \in MessageBlocks /\ word.type \notin Results
    BY <1>1 DEF word, Results
  <2> HIDE DEF Results
  <2>2. QED
    BY <2>1, OfOne
<1>10. /\ Of(rs \o <<word>>, Results) = rs \o <<>>
       /\ Of(<<word>> \o rs, Results) = <<>> \o rs
  BY <1>5, <1>6, <1>8, <1>9, OfPair
<1>11. rs \o <<>> = rs /\ <<>> \o rs = rs
  BY <1>5, ConcatEmptySeq
<1>12. QED
  BY <1>3, <1>5, <1>7, <1>8, <1>10, <1>11

\* The reply has just these results, and no calls.
LEMMA FormedTold ==
  ASSUME NEW t, NEW rs \in Seq(Typed(Results)), NEW after, Formed(rs, after)
  PROVE  /\ after \in Seq(Asking(t))
         /\ Of(Flat(ContentOf, after), Results) = rs
<1> DEFINE word == Words(Said)
           A == Asking(t)
           R == Typed(Results)
<1>1. /\ word \in MessageBlocks
      /\ Append(rs, word) \in Seq(Typed(KindsOf("user")))
      /\ <<word>> \o rs \in Seq(Typed(KindsOf("user")))
      /\ rs \in Seq(Typed(KindsOf("tool")))
      /\ Of(Append(rs, word), Results) = rs
      /\ Of(<<word>> \o rs, Results) = rs
      /\ Of(rs, Results) = rs
  BY SaidWord
<1> HIDE DEF word
<1>2. CASE after = [i \in 1 .. Len(rs) |-> Message("tool", <<rs[i]>>)]
  <2> DEFINE g == [b \in R |-> Message("tool", <<b>>)]
             k == [b \in R |-> <<g[b]>>]
             l == [b \in R |-> <<b>>]
  <2>1. \A b \in R : /\ g[b] = Message("tool", <<b>>) /\ k[b] = <<g[b]>> /\ l[b] = <<b>>
                     /\ g[b] \in A /\ k[b] \in Seq(A) /\ l[b] = Flat(ContentOf, k[b])
    <3>1. SUFFICES ASSUME NEW b \in R
                   PROVE  /\ Message("tool", <<b>>) \in A /\ <<Message("tool", <<b>>)>> \in Seq(A)
                          /\ Flat(ContentOf, <<Message("tool", <<b>>)>>) = <<b>>
      OBVIOUS
    <3>2. <<b>> \in Seq(Typed(KindsOf("tool")))
      <4>1. KindsOf("tool") = Results /\ <<b>> \in Seq(R)
        BY DEF KindsOf, Results
      <4>2. QED
        BY <4>1
    <3>3. QED
      BY <3>2, AskingMessage
  <2>2. \A i \in 1 .. Len(rs) : rs[i] \in R
    BY ElementOfSeq
  <2> HIDE DEF g, k, l, R, A
  <2>3. Flat(k, rs) = [i \in 1 .. Len(rs) |-> g[rs[i]]]
    <3>1. \A b \in R : k[b] = <<g[b]>>
      BY <2>1
    <3>2. QED
      BY <3>1, FlatEach DEF R
  <2>4. after = Flat(k, rs)
    BY <1>2, <2>1, <2>2, <2>3
  <2>5. Maps(k, R, A)
    BY <2>1 DEF Maps
  <2>6. after \in Seq(A)
    BY <2>4, <2>5, FlatType DEF R
  <2>7. Flat(ContentOf, Flat(k, rs)) = Flat(l, rs)
    <3>1. Maps(ContentOf, A, MessageBlocks)
      <4>1. \A m \in A : m \in Messages
        BY SayableTyped DEF A, Asking
      <4>2. \A m \in Messages : ContentOf[m] \in Seq(MessageBlocks)
        BY DEF ContentOf, Messages
      <4>3. QED
        BY <4>1, <4>2 DEF Maps
    <3>2. \A b \in R : l[b] = Flat(ContentOf, k[b])
      BY <2>1
    <3>3. QED
      BY <2>5, <3>1, <3>2, FlatFlat DEF R
  <2>8. Flat(l, rs) = rs
    <3>1. \A b \in R : l[b] = <<b>>
      BY <2>1
    <3>2. QED
      BY <3>1, FlatAll DEF R
  <2>9. QED
    BY <1>1, <2>4, <2>6, <2>7, <2>8 DEF A
<1>3. CASE after = <<Message("tool", rs)>>
  BY <1>1, <1>3, AskingMessage
<1>4. CASE after = <<Message("user", Append(rs, word))>>
  BY <1>1, <1>4, AskingMessage
<1>5. CASE after = <<Message("user", <<word>> \o rs)>>
  BY <1>1, <1>5, AskingMessage
<1>6. QED
  BY <1>2, <1>3, <1>4, <1>5 DEF Formed, word

-----------------------------------------------------------------------------
(* What stands where on the wire *)

\* Where the elements of two sequences stand.
LEMMA ConcatPlaces ==
  ASSUME NEW A, NEW s \in Seq(A), NEW u \in Seq(A)
  PROVE  /\ s \o u \in Seq(A) /\ Len(s) \in Nat /\ Len(u) \in Nat
         /\ Len(s \o u) = Len(s) + Len(u)
         /\ \A i \in 1 .. Len(s) : (s \o u)[i] = s[i]
         /\ \A i \in 1 .. Len(u) : (s \o u)[Len(s) + i] = u[i]
<1> DEFINE v == s \o u
           m == Len(s)
           n == Len(u)
<1>1. /\ v \in Seq(A) /\ m \in Nat /\ n \in Nat /\ Len(v) = m + n
      /\ \A i \in 1 .. m + n : v[i] = IF i <= m THEN s[i] ELSE u[i - m]
  BY ConcatProperties, LenProperties
<1> HIDE DEF v, m, n
<1>2. \A i \in 1 .. m : v[i] = s[i]
  BY <1>1
<1>3. ASSUME NEW i \in 1 .. n PROVE v[m + i] = u[i]
  <2>1. m + i \in 1 .. m + n /\ ~(m + i <= m) /\ (m + i) - m = i
    BY <1>1
  <2>2. v[m + i] = u[(m + i) - m]
    BY <1>1, <2>1
  <2>3. QED
    BY <2>1, <2>2
<1>4. QED
  BY <1>1, <1>2, <1>3 DEF v, m, n

\* A sequence with elements has a first.
LEMMA FirstOf ==
  ASSUME NEW A, NEW s \in Seq(A), s # <<>>
  PROVE  /\ s[1] \in A /\ Len(s) \in Nat /\ Len(s) >= 1
         /\ \E u \in Seq(A) : s = <<s[1]>> \o u
<1> DEFINE x == s[1]
           u == Tail(s)
           v == <<x>> \o u
           n == Len(s)
<1>1. n \in Nat /\ n >= 1 /\ x \in A
  <2>1. n \in Nat \ {0}
    BY EmptySeq
  <2>2. 1 \in 1 .. n
    BY <2>1
  <2>3. x \in A
    BY <2>2, ElementOfSeq
  <2>4. QED
    BY <2>1, <2>3
<1>2. u \in Seq(A) /\ Len(u) = n - 1 /\ \A i \in 1 .. n - 1 : u[i] = s[i + 1]
  BY HeadTailProperties
<1> HIDE DEF u
<1>3. <<x>> \in Seq(A) /\ Len(<<x>>) = 1
  BY <1>1
<1> HIDE DEF x
<1>4. /\ v \in Seq(A) /\ Len(v) = n
      /\ \A i \in 1 .. 1 : v[i] = x
      /\ \A i \in 1 .. n - 1 : v[1 + i] = u[i]
  <2>1. /\ v \in Seq(A) /\ Len(v) = 1 + Len(u)
        /\ \A i \in 1 .. 1 : v[i] = <<x>>[i]
        /\ \A i \in 1 .. Len(u) : v[1 + i] = u[i]
    BY <1>2, <1>3, ConcatPlaces
  <2>2. \A i \in 1 .. 1 : <<x>>[i] = x
    OBVIOUS
  <2> HIDE DEF v, n
  <2>3. QED
    BY <1>1, <1>2, <2>1, <2>2
<1> HIDE DEF v, n
<1>5. \A i \in 1 .. n : s[i] = v[i]
  <2>1. v[1] = s[1]
    <3>1. 1 \in 1 .. 1
      OBVIOUS
    <3>2. QED
      BY <1>4, <3>1 DEF x
  <2>2. ASSUME NEW i \in 1 .. n, i # 1 PROVE v[i] = s[i]
    <3>1. i - 1 \in 1 .. n - 1 /\ 1 + (i - 1) = i /\ (i - 1) + 1 = i
      BY <1>1, <2>2
    <3>2. v[1 + (i - 1)] = u[i - 1] /\ u[i - 1] = s[(i - 1) + 1]
      BY <1>2, <1>4, <3>1
    <3>3. QED
      BY <3>1, <3>2
  <2>3. QED
    BY <2>1, <2>2
<1>6. s = v
  BY <1>4, <1>5, SeqEqual DEF n
<1>7. QED
  BY <1>1, <1>2, <1>6 DEF x, v, n

\* What the first element gives comes first.
LEMMA FlatFirst ==
  ASSUME NEW A, NEW B, NEW k, Maps(k, A, B), NEW s \in Seq(A), s # <<>>, k[s[1]] # <<>>
  PROVE  /\ Flat(k, s)[1] = k[s[1]][1]
         /\ Len(Flat(k, s)) \in Nat /\ Len(Flat(k, s)) >= 1
<1> DEFINE x == s[1]
           y == k[x]
<1>1. PICK u \in Seq(A) : s = <<x>> \o u
  BY FirstOf
<1>2. x \in A
  BY FirstOf
<1>3. <<x>> \in Seq(A) /\ y \in Seq(B)
  BY <1>2 DEF Maps
<1> HIDE DEF x
<1>4. Flat(k, <<x>> \o u) = Flat(k, <<x>>) \o Flat(k, u)
  <2> DEFINE one == <<x>>
  <2>1. one \in Seq(A)
    BY <1>3
  <2> HIDE DEF one
  <2>2. Flat(k, one \o u) = Flat(k, one) \o Flat(k, u)
    BY <2>1, FlatConcat
  <2>3. QED
    BY <2>2 DEF one
<1>5. Flat(k, <<x>>) = y
  BY <1>2, FlatOne
<1> DEFINE z == Flat(k, u)
<1>6. z \in Seq(B)
  BY FlatType
<1>7. Len(y) \in Nat /\ Len(y) >= 1
  BY <1>3, FirstOf DEF x
<1> HIDE DEF y, z
<1>8. (y \o z)[1] = y[1] /\ Len(y \o z) \in Nat /\ Len(y \o z) >= 1
  <2>1. /\ Len(y \o z) = Len(y) + Len(z) /\ Len(z) \in Nat
        /\ \A i \in 1 .. Len(y) : (y \o z)[i] = y[i]
    BY <1>3, <1>6, ConcatPlaces DEF y
  <2>2. 1 \in 1 .. Len(y)
    BY <1>7
  <2>3. QED
    BY <1>7, <2>1, <2>2
<1>9. Flat(k, s) = y \o z
  BY <1>1, <1>4, <1>5 DEF z
<1>10. QED
  BY <1>8, <1>9 DEF x, y

\* Without a block of a kind there is none in any message.
LEMMA NoneInEach ==
  ASSUME NEW types, NEW s \in Seq(Wires), Of(Flat(PartsOf, s), types) = <<>>
  PROVE  \A i \in 1 .. Len(s) : Of(s[i].parts, types) = <<>>
<1> DEFINE P(u) == Of(Flat(PartsOf, u), types)
           T == {u \in Seq(Wires) :
                   P(u) = <<>> => \A i \in 1 .. Len(u) : Of(u[i].parts, types) = <<>>}
<1>1. <<>> \in T
  <2>1. \A i \in 1 .. Len(<<>>) : FALSE
    OBVIOUS
  <2>2. QED
    BY <2>1, EmptySeq
<1>2. ASSUME NEW u \in Seq(Wires), NEW w \in Wires, u \in T PROVE Append(u, w) \in T
  <2> DEFINE v == Append(u, w)
             n == Len(u)
  <2>1. /\ n \in Nat /\ v \in Seq(Wires) /\ Len(v) = n + 1 /\ v[n + 1] = w
        /\ \A i \in 1 .. n : v[i] = u[i]
    BY AppendedMessages
  <2>2. Flat(PartsOf, v) = Flat(PartsOf, u) \o w.parts
    <3>1. PartsOf[w] = w.parts
      BY DEF PartsOf
    <3>2. Flat(PartsOf, Append(u, w)) = Flat(PartsOf, u) \o PartsOf[w]
      BY PartsMaps, FlatAppend
    <3>3. QED
      BY <3>1, <3>2
  <2>3. P(v) = P(u) \o Of(w.parts, types) /\ P(u) \in Seq(MessageBlocks)
        /\ Of(w.parts, types) \in Seq(MessageBlocks)
    <3>1. w.parts \in Seq(MessageBlocks) /\ Flat(PartsOf, u) \in Seq(MessageBlocks)
      BY PartsFacts DEF Wires
    <3> DEFINE a == Flat(PartsOf, u)
               b == w.parts
    <3> HIDE DEF a, b
    <3>2. /\ Of(a \o b, types) = Of(a, types) \o Of(b, types)
          /\ Of(a, types) \in Seq(MessageBlocks) /\ Of(b, types) \in Seq(MessageBlocks)
      BY <3>1, OfPair, OfFacts DEF a, b
    <3>3. QED
      BY <2>2, <3>2 DEF a, b
  <2> HIDE DEF P, v, n
  <2>4. ASSUME P(v) = <<>> PROVE \A i \in 1 .. n + 1 : Of(v[i].parts, types) = <<>>
    <3>1. P(u) = <<>> /\ Of(w.parts, types) = <<>>
      BY <2>3, <2>4, ConcatSimplifications!concIsEmpty
    <3>2. \A i \in 1 .. n : Of(v[i].parts, types) = <<>>
      BY <1>2, <2>1, <3>1 DEF n
    <3>3. \A i \in 1 .. n + 1 : i \in 1 .. n \/ i = n + 1
      BY <2>1
    <3>4. QED
      BY <2>1, <3>1, <3>2, <3>3
  <2>5. QED
    BY <2>1, <2>4 DEF v
<1>3. \A u \in Seq(Wires) : u \in T
  <2> HIDE DEF T
  <2>1. QED
    BY <1>1, <1>2, SeqInduction, Z3
<1>4. QED
  BY <1>3

\* Gemini is sent at most one wire message for a message.
LEMMA GeminiWires ==
  ASSUME NEW names, NamesTyped(names), NEW m \in Sound
  PROVE  LET parts == Flat(GeminiOf(names), m.content)
         IN  /\ parts \in Seq(MessageBlocks)
             /\ \E role \in Roles :
                  WiresOf("gemini", names, m) = IF parts = <<>> THEN <<>> ELSE <<Wire(role, parts)>>
<1> DEFINE c == m.content
           done == GeminiDone(names, c)
           role == IF m.role = "assistant" THEN "model" ELSE "user"
           K == KindsOf(m.role)
           g == GeminiOf(names)
<1>1. /\ c \in Seq(Typed(K)) /\ c \in Seq(MessageBlocks)
      /\ "tool_use" \notin K \/ "tool_result" \notin K
  BY SoundFacts
<1>2. done.parts = Flat(g, c)
  <2> HIDE DEF c, K, g
  <2>1. GeminiDone(names, c).parts = Flat(GeminiOf(names), c)
    BY <1>1, GeminiDoneParts
  <2>2. QED
    BY <2>1 DEF g
<1>3. WiresOf("gemini", names, m)
        = IF done.parts = <<>> THEN <<>> ELSE Append(<<>>, Wire(role, done.parts))
  BY DEF WiresOf, GeminiMessage, GeminiDone
<1>4. role \in Roles
  BY DEF Roles
<1>5. Flat(g, c) \in Seq(MessageBlocks)
  BY <1>1, GeminiMaps, FlatType
<1>6. \A x : Append(<<>>, x) = <<x>>
  OBVIOUS
<1> HIDE DEF done, role, g, c
<1>7. WiresOf("gemini", names, m)
        = IF Flat(g, c) = <<>> THEN <<>> ELSE <<Wire(role, Flat(g, c))>>
  BY <1>2, <1>3, <1>6
<1>8. QED
  BY <1>4, <1>5, <1>7 DEF g, c

\* Nothing selected of nothing.
LEMMA NoneKept == \A I : Only(<<>>, I) = <<>>
<1>1. SUFFICES ASSUME NEW I PROVE Only(<<>>, I) = <<>>
  OBVIOUS
<1> DEFINE none == <<>>
           k == [x \in {} |-> x]
<1>2. none \in Seq({}) /\ \A i \in 1 .. Len(none) : k[none[i]] = IF i \in I THEN <<none[i]>> ELSE <<>>
  BY EmptySeq
<1> HIDE DEF none, k
<1>3. Only(none, I) = Flat(k, none)
  BY <1>2, OnlyIsFlat
<1>4. Flat(k, <<>>) = <<>>
  BY FlatNone
<1>5. QED
  BY <1>3, <1>4 DEF none

\* For Ollama a turn of the model is one message.
LEMMA OllamaTurn ==
  ASSUME NEW m \in Sound, m.role = "assistant"
  PROVE  \E parts \in Seq(MessageBlocks) :
           OllamaMessage(m) = <<>> \/ OllamaMessage(m) = <<Wire("assistant", parts)>>
<1> DEFINE c == m.content
           written == Written(Of(c, {"text", "tool_use"}))
           images == Sourced(Of(c, {"image"}))
           plain == [i \in 1 .. Len(written) |-> [written[i] EXCEPT !.id = 0, !.signature = <<>>]]
           results == ConvertToolMessage(c)
           one == IF plain \o images = <<>> /\ c # <<>> THEN <<>>
                  ELSE <<Wire("assistant", plain \o images)>>
           last == [i \in 1 .. Len(results) |-> [results[i] EXCEPT !.parts[1].id = 0]]
<1>1. c \in Seq(MessageBlocks) /\ c \in Seq(Typed(BlockTypes)) /\ "tool_result" \notin BlockTypes
  BY SoundFacts DEF KindsOf, BlockTypes
<1>2. Of(c, {"tool_result"}) = <<>>
  <2> DEFINE K == BlockTypes
             types == {"tool_result"}
  <2>1. c \in Seq(Typed(K)) /\ K \cap types = {}
    BY <1>1
  <2> HIDE DEF K, types, c
  <2>2. Of(c, types) = <<>>
    BY <2>1, OfTyped
  <2>3. QED
    BY <2>2 DEF types
<1>3. results = <<>>
  BY <1>2 DEF ConvertToolMessage
<1>4. last = <<>>
  BY <1>3
<1>5. OllamaMessage(m) = one \o last
  BY DEF OllamaMessage
<1>6. plain \o images \in Seq(MessageBlocks)
  <2>1. written \in Seq(MessageBlocks) /\ images \in Seq(MessageBlocks)
    BY <1>1, KeptTypes
  <2> HIDE DEF written, images
  <2>2. Len(written) \in Nat /\ \A i \in 1 .. Len(written) : written[i] \in MessageBlocks
    BY <2>1, LenProperties, ElementOfSeq
  <2>3. \A b \in MessageBlocks : [b EXCEPT !.id = 0, !.signature = <<>>] \in MessageBlocks
    BY NoString DEF MessageBlocks
  <2>4. plain \in Seq(MessageBlocks)
    <3>1. \A i \in 1 .. Len(written) :
            [written[i] EXCEPT !.id = 0, !.signature = <<>>] \in MessageBlocks
      BY <2>2, <2>3
    <3> DEFINE f(i) == [written[i] EXCEPT !.id = 0, !.signature = <<>>]
               n == Len(written)
    <3>2. n \in Nat /\ (\A i \in 1 .. n : f(i) \in MessageBlocks) /\ plain = [i \in 1 .. n |-> f(i)]
      BY <2>2, <3>1
    <3> HIDE DEF f, n, plain
    <3>3. QED
      BY <3>2
  <2> HIDE DEF plain
  <2>5. QED
    BY <2>1, <2>4, ConcatProperties
<1> DEFINE parts == plain \o images
<1>7. one = <<>> \/ one = <<Wire("assistant", parts)>>
  OBVIOUS
<1> HIDE DEF parts, last, one
<1>8. one \o <<>> = one
  <2>1. one \in Seq(Wires)
    <3>1. parts \in Seq(MessageBlocks) /\ "assistant" \in Roles /\ <<>> \in Seq(Wires)
      BY <1>6, EmptySeq DEF parts, Roles
    <3>2. <<Wire("assistant", parts)>> \in Seq(Wires)
      BY <3>1, PartsFacts
    <3>3. QED
      BY <1>7, <3>1, <3>2
  <2>2. QED
    BY <2>1, ConcatEmptySeq
<1>9. QED
  BY <1>4, <1>5, <1>6, <1>7, <1>8 DEF parts

\* The last message that is sent of a turn with calls has a call.
LEMMA LastSays ==
  ASSUME NEW t \in TargetNames, NEW names, NamesTyped(names),
         NEW m \in Sayable(t), m.role = "assistant",
         Of(Flat(PartsOf, WiresOf(t, names, m)), {"tool_use"}) # <<>>
  PROVE  LET y == WiresOf(t, names, m)
         IN  /\ y \in Seq(Wires) /\ Len(y) \in Nat /\ Len(y) >= 1
             /\ Of(y[Len(y)].parts, {"tool_use"}) # <<>>
<1> DEFINE y == WiresOf(t, names, m)
           c == m.content
           called == {"tool_use"}
<1>1. m \in Sound /\ c \in Seq(MessageBlocks) /\ y \in Seq(Wires)
  BY SayableTyped, SoundFacts, AllTold DEF Told
<1>2. \A role \in Roles, parts \in Seq(MessageBlocks) :
        y = <<Wire(role, parts)>> =>
          Len(y) = 1 /\ Of(y[1].parts, called) = Of(Flat(PartsOf, y), called)
  <2>1. SUFFICES ASSUME NEW role \in Roles, NEW parts \in Seq(MessageBlocks), y = <<Wire(role, parts)>>
                 PROVE  Len(y) = 1 /\ y[1].parts = Flat(PartsOf, y)
    OBVIOUS
  <2> DEFINE w == Wire(role, parts)
  <2>2. w.parts = parts /\ Flat(PartsOf, <<w>>) = parts
    BY WireTyped, PartsFacts
  <2>3. y = <<w>>
    BY <2>1
  <2> HIDE DEF y, w
  <2>4. Len(<<w>>) = 1 /\ <<w>>[1] = w
    OBVIOUS
  <2>5. QED
    BY <2>2, <2>3, <2>4
<1>3. y # <<>>
  <2>1. Of(Flat(PartsOf, <<>>), called) = <<>>
    BY PartsFacts, OfFacts
  <2>2. QED
    BY <2>1
<1>4. CASE \E role \in Roles, parts \in Seq(MessageBlocks) : y = <<Wire(role, parts)>>
  <2> HIDE DEF y, called
  <2>1. Len(y) = 1 /\ Of(y[1].parts, called) = Of(Flat(PartsOf, y), called)
    BY <1>2, <1>4
  <2>2. QED
    BY <1>1, <2>1 DEF y, called
<1>5. t # "responses" => \E role \in Roles, parts \in Seq(MessageBlocks) : y = <<Wire(role, parts)>>
  <2>1. CASE t = "anthropic"
    <3> DEFINE parts == [j \in 1 .. Len(c) |-> ConvertBlock(c[j])]
    <3>1. parts \in Seq(MessageBlocks)
      <4>1. Len(c) \in Nat /\ \A j \in 1 .. Len(c) : c[j] \in MessageBlocks
        BY <1>1, LenProperties, ElementOfSeq
      <4>2. \A j \in 1 .. Len(c) : ConvertBlock(c[j]) \in MessageBlocks
        BY <4>1, ConvertedBlock
      <4>3. QED
        BY <4>1, <4>2
    <3>2. y = <<Wire("assistant", parts)>> /\ "assistant" \in Roles
      BY <2>1 DEF WiresOf, AnthropicWire, Roles
    <3>3. QED
      BY <3>1, <3>2
  <2>2. CASE t = "gemini"
    <3> DEFINE parts == Flat(GeminiOf(names), c)
    <3>1. parts \in Seq(MessageBlocks)
          /\ \E role \in Roles : y = IF parts = <<>> THEN <<>> ELSE <<Wire(role, parts)>>
      BY <1>1, <2>2, GeminiWires
    <3> HIDE DEF parts, y
    <3>2. QED
      BY <1>3, <3>1
  <2>3. CASE t = "openai"
    <3> DEFINE parts == AssistantText(c) \o Unsign(Of(c, called))
    <3>1. y = <<Wire("assistant", parts)>> /\ "assistant" \in Roles
      BY <2>3 DEF WiresOf, OpenAIMessage, Roles
    <3>2. parts \in Seq(MessageBlocks)
      <4>1. AssistantText(c) \in Seq(MessageBlocks) /\ Unsign(Of(c, called)) \in Seq(MessageBlocks)
        BY <1>1, AssistantParts
      <4>2. QED
        BY <4>1, ConcatProperties
    <3>3. QED
      BY <3>1, <3>2
  <2>4. CASE t = "ollama"
    <3>1. y = OllamaMessage(m)
      BY <2>4 DEF WiresOf
    <3>2. PICK parts \in Seq(MessageBlocks) :
            OllamaMessage(m) = <<>> \/ OllamaMessage(m) = <<Wire("assistant", parts)>>
      BY <1>1, OllamaTurn
    <3>3. "assistant" \in Roles
      BY DEF Roles
    <3> HIDE DEF y
    <3>4. QED
      BY <1>3, <3>1, <3>2, <3>3
  <2>5. QED
    BY <2>1, <2>2, <2>3, <2>4 DEF TargetNames
<1>6. CASE t = "responses"
  <2> DEFINE text == AssistantText(c)
             calls == Unsign(Of(c, called))
             parts == text \o calls
             n == Len(parts)
  <2>1. text \in Seq(Typed({"text"})) /\ calls \in Seq(Typed({"tool_use"}))
    BY <1>1, AnswerParts
  <2>2. y = [i \in 1 .. Len(parts) |-> Wire("assistant", <<parts[i]>>)]
    BY <1>6 DEF WiresOf, ResponsesItems
  <2>3. Flat(PartsOf, y) = parts
    BY <1>1, <1>6, OpenAIParts DEF WiresOf
  <2> HIDE DEF text, calls, y, n, called
  <2>4. text \in Seq(MessageBlocks) /\ calls \in Seq(MessageBlocks)
    BY <2>1, TypedIn
  <2>5. Of(parts, called) = Of(text, called) \o Of(calls, called) /\ Of(text, called) = <<>>
    <3>1. {"text"} \cap called = {}
      BY DEF called
    <3>2. Of(text, called) = <<>>
      BY <2>1, <3>1, OfTyped
    <3>3. QED
      BY <2>4, <3>2, OfPair
  <2>6. calls # <<>>
    <3>1. Of(<<>>, called) = <<>>
      BY OfFacts
    <3>2. <<>> \o <<>> = <<>>
      BY ConcatEmptySeq, EmptySeq
    <3>3. Of(parts, called) # <<>>
      BY <2>3 DEF y, called
    <3>4. QED
      BY <2>5, <3>1, <3>2, <3>3
  <2>7. /\ Len(calls) \in Nat /\ Len(calls) >= 1 /\ Len(text) \in Nat
        /\ n = Len(text) + Len(calls)
        /\ \A i \in 1 .. Len(calls) : parts[Len(text) + i] = calls[i]
    BY <2>4, <2>6, FirstOf, ConcatPlaces DEF n
  <2>8. parts[n] = calls[Len(calls)] /\ calls[Len(calls)] \in Typed({"tool_use"})
    <3>1. Len(calls) \in 1 .. Len(calls)
      BY <2>7
    <3>2. QED
      BY <2>1, <2>7, <3>1, ElementOfSeq
  <2> DEFINE b == parts[n]
  <2>9. b \in MessageBlocks /\ b.type \in called
    BY <2>8 DEF Typed, called
  <2>10. n \in Nat /\ n >= 1 /\ n \in 1 .. n /\ Len(y) = n /\ y[n] = Wire("assistant", <<b>>)
    <3>1. n \in Nat /\ n >= 1 /\ n \in 1 .. n
      BY <2>7
    <3> HIDE DEF parts
    <3>2. QED
      BY <2>2, <3>1 DEF n
  <2>11. Of(<<b>>, called) = <<b>> /\ Wire("assistant", <<b>>).parts = <<b>>
    BY <2>9, OfOne DEF Wire
  <2>12. <<b>> # <<>>
    OBVIOUS
  <2> HIDE DEF b
  <2>13. QED
    BY <1>1, <2>10, <2>11, <2>12 DEF y, called
<1>7. QED
  BY <1>4, <1>5, <1>6

\* The last wire message with a call is the last one of the answer.
LEMMA LastCallerIs ==
  ASSUME NEW x \in Seq(Wires), NEW y \in Seq(Wires), NEW z \in Seq(Wires),
         Sent = (x \o y) \o z, Len(y) >= 1,
         Of(y[Len(y)].parts, {"tool_use"}) # <<>>,
         Of(Flat(PartsOf, z), {"tool_use"}) = <<>>
  PROVE  /\ LastCaller = Len(x) + Len(y)
         /\ \A i \in 1 .. Len(z) : Sent[LastCaller + i] = z[i]
<1> DEFINE called == {"tool_use"}
           s == Sent
           n == Len(x) + Len(y)
           k == Len(z)
           Q(j) == Of(s[j].parts, called) = <<>>
           IsLast(j) == ~Q(j) /\ \A i \in j + 1 .. Len(s) : Q(i)
<1>1. /\ x \o y \in Seq(Wires) /\ Len(x \o y) = n /\ n \in Nat /\ n >= 1 /\ k \in Nat
      /\ (x \o y)[n] = y[Len(y)]
  <2>1. /\ x \o y \in Seq(Wires) /\ Len(x \o y) = n /\ Len(x) \in Nat /\ Len(y) \in Nat
        /\ \A i \in 1 .. Len(y) : (x \o y)[Len(x) + i] = y[i]
    BY ConcatPlaces
  <2>2. Len(y) \in 1 .. Len(y)
    BY <2>1
  <2>3. k \in Nat
    BY LenProperties
  <2>4. QED
    BY <2>1, <2>2, <2>3
<1> DEFINE p == x \o y
<1>2. /\ s \in Seq(Wires) /\ Len(s) = n + k
      /\ \A i \in 1 .. n : s[i] = p[i]
      /\ \A i \in 1 .. k : s[n + i] = z[i]
  <2>1. p \in Seq(Wires) /\ Len(p) = n /\ s = p \o z
    BY <1>1
  <2> HIDE DEF p, s, n
  <2>2. /\ p \o z \in Seq(Wires) /\ Len(p \o z) = Len(p) + Len(z)
        /\ \A i \in 1 .. Len(p) : (p \o z)[i] = p[i]
        /\ \A i \in 1 .. Len(z) : (p \o z)[Len(p) + i] = z[i]
    <3>1. p \in Seq(Wires)
      BY <2>1
    <3> HIDE <2>1
    <3>2. QED
      BY <3>1, ConcatPlaces
  <2>3. QED
    BY <2>1, <2>2
<1>3. DOMAIN s = 1 .. n + k
  <2>1. DOMAIN s = 1 .. Len(s)
    <3> HIDE DEF s
    <3>1. QED
      BY <1>2, LenProperties
  <2>2. QED
    BY <1>2, <2>1
<1>4. \A i \in 1 .. k : Of(z[i].parts, called) = <<>>
  BY NoneInEach
<1>5. LastCaller = CHOOSE j \in DOMAIN s : IsLast(j)
  BY DEF LastCaller
<1>6. Of(p[n].parts, called) # <<>>
  BY <1>1
<1> HIDE DEF s, called, p, n, k
<1>7. n \in DOMAIN s /\ IsLast(n)
  <2>1. n \in 1 .. n /\ n \in 1 .. n + k
    BY <1>1
  <2>2. ~Q(n)
    BY <1>2, <1>6, <2>1
  <2>3. ASSUME NEW i \in n + 1 .. Len(s) PROVE Q(i)
    <3>1. i - n \in 1 .. k /\ n + (i - n) = i
      BY <1>1, <1>2, <2>3
    <3>2. s[n + (i - n)] = z[i - n]
      BY <1>2, <3>1
    <3>3. QED
      BY <1>4, <3>1, <3>2
  <2>4. QED
    BY <1>3, <2>1, <2>2, <2>3
<1>8. ASSUME NEW j \in DOMAIN s, IsLast(j) PROVE j = n
  <2>1. j \in 1 .. n + k
    BY <1>3
  <2>2. CASE j < n
    <3>1. n \in j + 1 .. Len(s)
      BY <1>1, <1>2, <2>1, <2>2
    <3>2. QED
      BY <1>7, <1>8, <3>1
  <2>3. CASE j > n
    <3>1. j \in n + 1 .. Len(s)
      BY <1>1, <1>2, <2>1, <2>3
    <3>2. QED
      BY <1>7, <1>8, <3>1
  <2>4. QED
    BY <1>1, <2>1, <2>2, <2>3
<1> HIDE DEF IsLast
<1>9. LastCaller = n
  BY <1>5, <1>7, <1>8
<1>10. QED
  BY <1>2, <1>9 DEF s, n, k

-----------------------------------------------------------------------------
(* The results come first *)

\* Messages that begin with a tool message for each result.
Tooled(rs, w) ==
  /\ Len(rs) \in Nat /\ Len(w) >= Len(rs)
  /\ \A i \in 1 .. Len(rs) : w[i].role = "tool"

\* What OpenAI is sent for a reply: a tool message for each result, then the rest.
LEMMA ReplyWires ==
  ASSUME NEW t \in {"openai", "responses"}, NEW known, NEW role \in {"tool", "user"},
         NEW c \in Seq(Typed(KindsOf(role)))
  PROVE  LET y == WiresOf(t, known, Message(role, c))
             r == Of(c, Results)
         IN  /\ y \in Seq(Wires) /\ Len(r) \in Nat
             /\ Len(y) \in Nat /\ Len(y) >= Len(r)
             /\ \A i \in 1 .. Len(r) : y[i].role = "tool"
             /\ role = "tool" => y = ConvertToolMessage(c)
<1> DEFINE m == Message(role, c)
           y == WiresOf(t, known, m)
           r == Of(c, Results)
           tool == ConvertToolMessage(c)
           parts == IF t = "openai" THEN UserParts(Rest(m)) ELSE InputParts(Rest(m))
           last == IF Rest(m) = <<>> THEN <<>> ELSE <<Wire(m.role, parts)>>
<1>1. c \in Seq(MessageBlocks) /\ m \in Messages /\ m.role = role /\ m.content = c
  <2>1. c \in Seq(MessageBlocks)
    BY TypedIn
  <2>2. QED
    BY <2>1, MessageTyped DEF Message
<1>2. r \in Seq(MessageBlocks) /\ Len(r) \in Nat
  <2>1. r \in Seq(MessageBlocks)
    BY <1>1, OfFacts
  <2>2. QED
    BY <2>1, LenProperties
<1>3. tool \in Seq(Wires) /\ Len(tool) = Len(r) /\ \A i \in 1 .. Len(r) : tool[i].role = "tool"
  <2>1. tool \in Seq(Wires) /\ Len(tool) = Len(r)
        /\ \A i \in 1 .. Len(r) : tool[i] = Wire("tool", <<Content(r[i])>>)
    BY <1>1, ResultParts DEF Results
  <2>2. \A p : Wire("tool", p).role = "tool"
    BY DEF Wire
  <2> HIDE DEF tool, r
  <2>3. QED
    BY <2>1, <2>2
<1>4. CASE role = "tool"
  <2>1. y = tool
    BY <1>1, <1>4 DEF WiresOf, OpenAIMessage, ResponsesItems
  <2> HIDE DEF y, tool, r, m
  <2>2. QED
    BY <1>2, <1>3, <2>1 DEF y, tool, r, m
<1>5. CASE role = "user"
  <2>1. y = SplitUserToolResults(m, parts)
    BY <1>1, <1>5 DEF WiresOf, OpenAIMessage, ResponsesItems
  <2>2. y = IF Rest(m) = c THEN <<Wire(m.role, parts)>> ELSE tool \o last
    BY <1>1, <2>1 DEF SplitUserToolResults
  <2>3. parts \in Seq(MessageBlocks)
    <3> DEFINE u == Rest(m)
               K == {"text", "image"}
    <3>1. u \in Seq(MessageBlocks)
      <4> DEFINE others == ReplayTypes \ {"tool_result"}
      <4>1. u = Of(c, others) /\ c \in Seq(MessageBlocks)
        BY <1>1, RestIsOf
      <4> HIDE DEF u, others
      <4>2. \A s \in Seq(MessageBlocks) : Of(s, others) \in Seq(MessageBlocks)
        BY OfFacts
      <4>3. QED
        BY <4>1, <4>2
    <3> HIDE DEF u, K
    <3>2. UserParts(u) \in Seq(Typed(K)) /\ InputParts(u) \in Seq(Typed(K))
      BY <3>1, UserTyped DEF K
    <3>3. UserParts(u) \in Seq(MessageBlocks) /\ InputParts(u) \in Seq(MessageBlocks)
      BY <3>2, TypedIn
    <3>4. QED
      BY <3>3 DEF u
  <2>4. <<Wire(m.role, parts)>> \in Seq(Wires) /\ last \in Seq(Wires)
    <3>1. m.role \in Roles
      BY <1>1 DEF Roles
    <3> HIDE DEF parts, m
    <3>2. <<Wire(m.role, parts)>> \in Seq(Wires)
      BY <2>3, <3>1, PartsFacts
    <3>3. QED
      BY <3>2, EmptySeq
  <2>5. CASE Rest(m) = c
    <3>1. r = <<>>
      <4> DEFINE some == ReplayTypes \ {"tool_result"}
      <4>1. Rest(m) = Of(c, some) /\ some \cap Results = {}
        BY <1>1, RestIsOf DEF Results
      <4> HIDE DEF some, m
      <4>2. Of(Of(c, some), Results) = <<>>
        BY <1>1, <4>1, OfOf
      <4>3. QED
        BY <2>5, <4>1, <4>2
    <3>2. Len(r) = 0
      BY <3>1
    <3>3. y \in Seq(Wires) /\ Len(y) \in Nat
      <4> HIDE DEF parts, m, y
      <4>1. y \in Seq(Wires)
        BY <2>2, <2>4, <2>5
      <4>2. QED
        BY <4>1, LenProperties
    <3> HIDE DEF y, tool, r, m
    <3>4. QED
      BY <1>5, <3>2, <3>3 DEF y, r, m
  <2>6. CASE Rest(m) # c
    <3> HIDE DEF y, tool, r, last, parts, m
    <3>1. y = tool \o last
      BY <2>2, <2>6
    <3>2. /\ tool \o last \in Seq(Wires) /\ Len(tool \o last) = Len(tool) + Len(last)
          /\ Len(last) \in Nat
          /\ \A i \in 1 .. Len(tool) : (tool \o last)[i] = tool[i]
      <4>1. last \in Seq(Wires) /\ tool \in Seq(Wires)
        BY <1>3, <2>4
      <4>2. QED
        BY <4>1, ConcatPlaces
    <3>3. /\ y \in Seq(Wires) /\ Len(y) \in Nat /\ Len(y) >= Len(r)
          /\ \A i \in 1 .. Len(r) : y[i].role = "tool"
      BY <1>2, <1>3, <3>1, <3>2
    <3>4. QED
      BY <1>2, <1>5, <3>3 DEF y, r, m
  <2>7. QED
    BY <2>5, <2>6
<1>6. QED
  BY <1>4, <1>5

\* To OpenAI the results of a reply go ahead of the rest of it.
LEMMA ToolsFirst ==
  ASSUME NEW t \in {"openai", "responses"}, NEW known, NEW rs \in Seq(Typed(Results)),
         NEW after, Formed(rs, after),
         NEW k, Wiring(t, known, k)
  PROVE  Tooled(rs, Flat(k, after))
<1> DEFINE word == Words(Said)
           A == Asking(t)
           R == Typed(Results)
           T == Typed(KindsOf("tool"))
<1>1. /\ word \in MessageBlocks
      /\ Append(rs, word) \in Seq(Typed(KindsOf("user")))
      /\ <<word>> \o rs \in Seq(Typed(KindsOf("user")))
      /\ rs \in Seq(T)
      /\ Of(Append(rs, word), Results) = rs
      /\ Of(<<word>> \o rs, Results) = rs
      /\ Of(rs, Results) = rs
  BY SaidWord
<1>2. \A role \in {"tool", "user"} : \A c \in Seq(Typed(KindsOf(role))) :
        /\ Message(role, c) \in A
        /\ Of(c, Results) = rs =>
             LET y == WiresOf(t, known, Message(role, c))
             IN  y \in Seq(Wires) /\ Len(rs) \in Nat /\ Len(y) >= Len(rs)
                 /\ \A i \in 1 .. Len(rs) : y[i].role = "tool"
  <2>1. SUFFICES ASSUME NEW role \in {"tool", "user"}, NEW c \in Seq(Typed(KindsOf(role)))
                 PROVE  /\ Message(role, c) \in A
                        /\ Of(c, Results) = rs =>
                             LET y == WiresOf(t, known, Message(role, c))
                             IN  y \in Seq(Wires) /\ Len(rs) \in Nat /\ Len(y) >= Len(rs)
                                 /\ \A i \in 1 .. Len(rs) : y[i].role = "tool"
    OBVIOUS
  <2>2. Message(role, c) \in A
    BY AskingMessage
  <2> DEFINE y == WiresOf(t, known, Message(role, c))
             r == Of(c, Results)
  <2>3. /\ y \in Seq(Wires) /\ Len(r) \in Nat /\ Len(y) >= Len(r)
        /\ \A i \in 1 .. Len(r) : y[i].role = "tool"
    BY ReplyWires
  <2> HIDE DEF y, r
  <2>4. QED
    BY <2>2, <2>3 DEF y, r
<1>3. Maps(k, A, Wires) /\ \A m \in A : k[m] = WiresOf(t, known, m)
  <2>1. \A m \in A : WiresOf(t, known, m) \in Seq(Wires)
    <3>1. SUFFICES ASSUME NEW m \in A PROVE WiresOf(t, known, m) \in Seq(Wires)
      OBVIOUS
    <3>2. m \in Sound
      BY DEF Asking, Sayable
    <3>3. OpenAIMessage(m) \in Seq(Wires) /\ ResponsesItems(m) \in Seq(Wires)
      BY <3>2, OpenAIParts
    <3>4. QED
      BY <3>3 DEF WiresOf
  <2>2. QED
    BY <2>1 DEF Maps, Wiring
<1> HIDE DEF word, A, R, T
<1>4. CASE after = [i \in 1 .. Len(rs) |-> Message("tool", <<rs[i]>>)]
  <2> DEFINE g == [b \in R |-> Message("tool", <<b>>)]
             e == [b \in R |-> <<g[b]>>]
             h == [b \in R |-> Wire("tool", <<Content(b)>>)]
             l == [b \in R |-> <<h[b]>>]
  <2>1. \A b \in R : <<b>> \in Seq(T) /\ <<b>> \in Seq(MessageBlocks) /\ Of(<<b>>, Results) = <<b>>
    <3>1. SUFFICES ASSUME NEW b \in R
                   PROVE  <<b>> \in Seq(T) /\ <<b>> \in Seq(MessageBlocks) /\ Of(<<b>>, Results) = <<b>>
      OBVIOUS
    <3>2. b \in MessageBlocks /\ b.type \in Results /\ b \in T
      BY DEF R, T, Typed, KindsOf, Results
    <3>3. QED
      BY <3>2, OfOne
  <2>2. \A b \in R : k[Message("tool", <<b>>)] = <<Wire("tool", <<Content(b)>>)>>
                     /\ Message("tool", <<b>>) \in A
    <3>1. SUFFICES ASSUME NEW b \in R
                   PROVE  k[Message("tool", <<b>>)] = <<Wire("tool", <<Content(b)>>)>>
                          /\ Message("tool", <<b>>) \in A
      OBVIOUS
    <3> DEFINE c == <<b>>
               y == WiresOf(t, known, Message("tool", c))
    <3>2. c \in Seq(T) /\ c \in Seq(MessageBlocks) /\ Of(c, Results) = c /\ Len(c) = 1 /\ c[1] = b
      BY <2>1
    <3> HIDE DEF c
    <3>3. Message("tool", c) \in A
      BY <1>2, <3>2 DEF T
    <3>4. y = ConvertToolMessage(c)
      BY <3>2, ReplyWires DEF T
    <3>5. /\ ConvertToolMessage(c) \in Seq(Wires) /\ Len(ConvertToolMessage(c)) = 1
          /\ ConvertToolMessage(c)[1] = Wire("tool", <<Content(b)>>)
      <4> DEFINE v == ConvertToolMessage(c)
                 q == Of(c, Results)
      <4>1. v \in Seq(Wires) /\ Len(v) = Len(q)
            /\ \A i \in 1 .. Len(q) : v[i] = Wire("tool", <<Content(q[i])>>)
        BY <3>2, ResultParts DEF Results
      <4>2. q = c
        BY <3>2
      <4> HIDE DEF v, q
      <4>3. Len(c) = 1 /\ c[1] = b
        BY <3>2
      <4> HIDE <3>2
      <4>4. Len(q) = 1 /\ q[1] = b /\ 1 \in 1 .. Len(q)
        BY <4>2, <4>3
      <4>5. QED
        BY <4>1, <4>4 DEF v
    <3>6. ConvertToolMessage(c) = <<Wire("tool", <<Content(b)>>)>>
      <4> DEFINE v == ConvertToolMessage(c)
                 w == Wire("tool", <<Content(b)>>)
      <4> HIDE DEF v, w
      <4>1. v \in Seq(Wires) /\ Len(v) = 1 /\ v[1] = w
        BY <3>5 DEF v, w
      <4>2. v = <<w>>
        BY <4>1
      <4>3. QED
        BY <4>2 DEF v, w
    <3>7. k[Message("tool", c)] = y
      BY <1>3, <3>3
    <3>8. QED
      BY <3>3, <3>4, <3>6, <3>7 DEF c
  <2>3. \A b \in R : /\ g[b] = Message("tool", <<b>>) /\ e[b] = <<g[b]>> /\ l[b] = <<h[b]>>
                     /\ h[b] = Wire("tool", <<Content(b)>>)
                     /\ g[b] \in A /\ e[b] \in Seq(A) /\ k[g[b]] = l[b]
    <3>1. \A b \in R : /\ g[b] = Message("tool", <<b>>) /\ e[b] = <<g[b]>> /\ l[b] = <<h[b]>>
                       /\ h[b] = Wire("tool", <<Content(b)>>)
      OBVIOUS
    <3> HIDE DEF g, e, l, h
    <3>2. \A b \in R : g[b] \in A /\ k[g[b]] = l[b]
      BY <2>2, <3>1
    <3>3. \A b \in R : <<g[b]>> \in Seq(A)
      BY <3>2
    <3>4. QED
      BY <3>1, <3>2, <3>3
  <2>4. Len(rs) \in Nat /\ \A i \in 1 .. Len(rs) : rs[i] \in R
    BY ElementOfSeq, LenProperties DEF R
  <2> HIDE DEF g, e, l, h
  <2>5. Flat(e, rs) = [i \in 1 .. Len(rs) |-> g[rs[i]]]
    <3>1. \A b \in R : e[b] = <<g[b]>>
      BY <2>3
    <3>2. QED
      BY <3>1, FlatEach DEF R
  <2>6. after = Flat(e, rs)
    BY <1>4, <2>3, <2>4, <2>5
  <2>7. Maps(e, R, A)
    BY <2>3 DEF Maps
  <2>8. \A b \in R : l[b] = Flat(k, e[b])
    <3>1. SUFFICES ASSUME NEW b \in R PROVE l[b] = Flat(k, e[b])
      OBVIOUS
    <3> DEFINE v == g[b]
    <3>2. v \in A /\ e[b] = <<v>> /\ l[b] = k[v]
      BY <2>3
    <3> HIDE DEF v
    <3>3. Flat(k, <<v>>) = k[v]
      BY <1>3, <3>2, FlatOne
    <3>4. QED
      BY <3>2, <3>3
  <2>9. Flat(k, Flat(e, rs)) = Flat(l, rs)
    BY <1>3, <2>7, <2>8, FlatFlat DEF R
  <2>10. Len(Flat(l, rs)) = Len(rs) /\ \A i \in 1 .. Len(rs) : Flat(l, rs)[i] = h[rs[i]]
    <3>1. \A b \in R : l[b] = <<h[b]>>
      BY <2>3
    <3>2. QED
      BY <3>1, FlatEach DEF R
  <2>11. \A b \in R : h[b].role = "tool"
    <3>1. \A p : Wire("tool", p).role = "tool"
      BY DEF Wire
    <3>2. QED
      BY <2>3, <3>1
  <2>12. QED
    BY <2>4, <2>6, <2>9, <2>10, <2>11 DEF Tooled
<1>5. ASSUME NEW role \in {"tool", "user"}, NEW c \in Seq(Typed(KindsOf(role))), Of(c, Results) = rs,
             after = <<Message(role, c)>>
      PROVE  Tooled(rs, Flat(k, after))
  <2> DEFINE m == Message(role, c)
             y == WiresOf(t, known, m)
  <2>1. /\ m \in A /\ Len(rs) \in Nat /\ Len(y) >= Len(rs)
        /\ \A i \in 1 .. Len(rs) : y[i].role = "tool"
    BY <1>2, <1>5
  <2> HIDE DEF m
  <2>2. Flat(k, <<m>>) = k[m]
    BY <1>3, <2>1, FlatOne
  <2>3. k[m] = y
    BY <1>3, <2>1
  <2>4. after = <<m>>
    BY <1>5 DEF m
  <2>5. QED
    BY <2>1, <2>2, <2>3, <2>4 DEF Tooled
<1>6. CASE after = <<Message("tool", rs)>>
  BY <1>1, <1>5, <1>6 DEF T
<1>7. CASE after = <<Message("user", Append(rs, word))>>
  BY <1>1, <1>5, <1>7
<1>8. CASE after = <<Message("user", <<word>> \o rs)>>
  BY <1>1, <1>5, <1>8
<1>9. QED
  BY <1>4, <1>6, <1>7, <1>8 DEF Formed, word, Tooled

\* A reply with results has a first message, and that a first block.
LEMMA FormedFirst ==
  ASSUME NEW rs \in Seq(Typed(Results)), rs # <<>>, NEW after, Formed(rs, after)
  PROVE  after # <<>> /\ after[1].content # <<>>
<1> DEFINE word == Words(Said)
           n == Len(rs)
<1>1. n \in Nat /\ n >= 1 /\ rs \in Seq(MessageBlocks) /\ word \in MessageBlocks
  BY SaidWord, FirstOf
<1>2. \A r, c : Message(r, c).content = c
  BY DEF Message
<1>3. \A x : <<x>> # <<>> /\ <<x>>[1] = x
  OBVIOUS
<1>4. CASE after = [i \in 1 .. n |-> Message("tool", <<rs[i]>>)]
  <2> HIDE DEF n
  <2>1. 1 \in 1 .. n
    BY <1>1
  <2>2. after[1] = Message("tool", <<rs[1]>>)
    BY <1>4, <2>1
  <2>3. after # <<>>
    BY <1>1, <1>4
  <2>4. after[1].content = <<rs[1]>>
    BY <1>2, <2>2
  <2>5. QED
    BY <2>3, <2>4
<1>5. ASSUME NEW r, NEW c, c # <<>>, after = <<Message(r, c)>>
      PROVE  after # <<>> /\ after[1].content # <<>>
  BY <1>2, <1>3, <1>5
<1>6. Append(rs, word) # <<>> /\ <<word>> \o rs # <<>>
  <2> HIDE DEF word
  <2>1. Append(rs, word) # <<>>
    BY <1>1, AppendProperties
  <2>2. <<word>> \in Seq(MessageBlocks) /\ <<word>> # <<>>
    BY <1>1
  <2> DEFINE one == <<word>>
  <2> HIDE DEF one
  <2>3. one \o rs # <<>>
    <3>1. one \in Seq(MessageBlocks) /\ one # <<>>
      BY <2>2 DEF one
    <3>2. QED
      BY <1>1, <3>1, ConcatSimplifications!concIsEmpty
  <2>4. QED
    BY <2>1, <2>3 DEF one
<1>7. QED
  BY <1>4, <1>5, <1>6 DEF Formed

\* The results of a tool's message come first on the wire of Ollama.
LEMMA OllamaResults ==
  ASSUME NEW m \in Sound, m.role = "tool", m.content # <<>>
  PROVE  /\ OllamaMessage(m) # <<>>
         /\ OllamaMessage(m)[1].parts[1].type = "tool_result"
<1> DEFINE c == m.content
           written == Written(Of(c, {"text", "tool_use"}))
           images == Sourced(Of(c, {"image"}))
           plain == [i \in 1 .. Len(written) |-> [written[i] EXCEPT !.id = 0, !.signature = <<>>]]
           results == ConvertToolMessage(c)
           one == IF plain \o images = <<>> /\ c # <<>> THEN <<>>
                  ELSE <<Wire(m.role, plain \o images)>>
           last == [i \in 1 .. Len(results) |-> [results[i] EXCEPT !.parts[1].id = 0]]
<1>1. c \in Seq(MessageBlocks) /\ c \in Seq(Typed(Results))
  BY SoundFacts DEF KindsOf, Results
<1>2. Of(c, {"text", "tool_use"}) = <<>> /\ Of(c, {"image"}) = <<>> /\ Of(c, Results) = c
  <2> DEFINE T == {"text", "tool_use"}
             I == {"image"}
  <2>1. Results \cap T = {} /\ Results \cap I = {}
    BY DEF Results
  <2> HIDE DEF T, I, c
  <2>2. Of(c, T) = <<>> /\ Of(c, I) = <<>> /\ Of(c, Results) = c
    BY <1>1, <2>1, OfTyped
  <2>3. QED
    BY <2>2 DEF T, I
<1>3. written = <<>> /\ images = <<>>
  BY <1>2, NoneKept DEF Written, Sourced
<1>4. plain \o images = <<>>
  <2>1. plain = <<>>
    <3> HIDE DEF written
    <3>1. Len(written) = 0
      BY <1>3
    <3>2. QED
      BY <3>1
  <2>2. <<>> \o <<>> = <<>>
    BY ConcatEmptySeq, EmptySeq
  <2> HIDE DEF plain, images
  <2>3. QED
    BY <1>3, <2>1, <2>2
<1>5. Len(results) = Len(c) /\ Len(c) \in Nat /\ Len(c) >= 1
      /\ results[1] = Wire("tool", <<Content(c[1])>>) /\ c[1] \in Typed(Results)
  <2> DEFINE q == Of(c, Results)
  <2>1. Len(results) = Len(q) /\ \A i \in 1 .. Len(q) : results[i] = Wire("tool", <<Content(q[i])>>)
    BY <1>1, ResultParts DEF Results
  <2>2. Len(c) \in Nat /\ Len(c) >= 1 /\ c[1] \in Typed(Results)
    <3>1. c # <<>>
      OBVIOUS
    <3> HIDE DEF c
    <3>2. QED
      BY <1>1, <3>1, FirstOf
  <2>3. q = c
    BY <1>2
  <2> HIDE DEF c, results, q
  <2>4. 1 \in 1 .. Len(q)
    BY <2>2, <2>3
  <2>5. QED
    BY <2>1, <2>2, <2>3, <2>4
<1>6. Content(c[1]).type = "tool_result"
  BY <1>5, ContentTyped DEF Typed, Results
<1>7. \A x : x = Wire("tool", <<Content(c[1])>>) => [x EXCEPT !.parts[1].id = 0].parts[1].type = "tool_result"
  <2> DEFINE d == Content(c[1])
  <2>1. d \in MessageBlocks /\ d.type = "tool_result"
    BY <1>5, <1>6, ContentTyped DEF Typed
  <2> HIDE DEF d
  <2>2. [d EXCEPT !.id = 0].type = "tool_result"
    BY <2>1 DEF MessageBlocks
  <2>3. \A x : x = Wire("tool", <<d>>) => x.parts = <<d>> /\ [x EXCEPT !.parts[1].id = 0].parts = <<[d EXCEPT !.id = 0]>>
    BY DEF Wire
  <2>4. \A x : x = Wire("tool", <<d>>) => [x EXCEPT !.parts[1].id = 0].parts[1].type = "tool_result"
    <3> DEFINE f == [d EXCEPT !.id = 0]
    <3> HIDE DEF f
    <3>1. \A u : u = <<f>> => u[1].type = f.type
      OBVIOUS
    <3>2. QED
      BY <2>2, <2>3, <3>1 DEF f
  <2>5. QED
    BY <2>4 DEF d
<1>8. OllamaMessage(m) = one \o last
  BY DEF OllamaMessage
<1>9. one = <<>>
  BY <1>4
<1>10. Len(last) = Len(results) /\ Len(last) >= 1 /\ last[1].parts[1].type = "tool_result"
       /\ last \in Seq({last[i] : i \in 1 .. Len(last)})
  <2> DEFINE f(x) == [x EXCEPT !.parts[1].id = 0]
             n == Len(results)
             r(i) == results[i]
  <2>1. n \in Nat /\ n >= 1 /\ last = [i \in 1 .. n |-> f(r(i))]
    BY <1>5
  <2>2. r(1) = Wire("tool", <<Content(c[1])>>)
    BY <1>5
  <2>3. f(r(1)).parts[1].type = "tool_result"
    BY <1>7, <2>2
  <2> HIDE DEF f, n, r, last
  <2>4. Len(last) = n /\ last[1] = f(r(1))
    BY <2>1
  <2>5. last \in Seq({last[i] : i \in 1 .. Len(last)})
    BY <2>1, <2>4
  <2>6. QED
    BY <2>1, <2>3, <2>4, <2>5 DEF n
<1> HIDE DEF last, one
<1>11. one \o last = last
  BY <1>9, <1>10, ConcatEmptySeq
<1>12. last # <<>>
  BY <1>10
<1>13. QED
  BY <1>8, <1>10, <1>11, <1>12

\* To the others the results of a reply that begins with one go ahead.
LEMMA ResultsNext ==
  ASSUME NEW t \in {"anthropic", "gemini", "ollama"}, NEW known, NamesTyped(known),
         NEW rs \in Seq(Typed(Results)), rs # <<>>, NEW after, Formed(rs, after),
         NEW k, Wiring(t, known, k),
         after[1].content[1].type = "tool_result",
         t = "ollama" => after[1].role = "tool"
  PROVE  /\ Flat(k, after)[1].parts[1].type = "tool_result"
         /\ Len(Flat(k, after)) \in Nat /\ Len(Flat(k, after)) >= 1
<1> DEFINE m == after[1]
           c == m.content
           y == WiresOf(t, known, m)
<1>1. after \in Seq(Asking(t)) /\ after # <<>> /\ c # <<>>
  BY FormedTold, FormedFirst
<1>2. m \in Asking(t)
  BY <1>1, FirstOf
<1>3. m \in Sound /\ c \in Seq(MessageBlocks)
  <2>1. m \in Sound
    BY <1>2 DEF Asking, Sayable
  <2>2. QED
    BY <2>1, SoundFacts
<1>4. c[1] \in MessageBlocks /\ c[1].type = "tool_result" /\ Len(c) \in Nat /\ Len(c) >= 1
  BY <1>1, <1>3, FirstOf
<1>5. y # <<>> /\ y[1].parts[1].type = "tool_result"
  <2>1. CASE t = "anthropic"
    <3> DEFINE parts == [j \in 1 .. Len(c) |-> ConvertBlock(c[j])]
               role == IF m.role = "assistant" THEN "assistant" ELSE "user"
    <3>1. y = <<Wire(role, parts)>>
      BY <2>1 DEF WiresOf, AnthropicWire
    <3>2. parts[1] = ConvertBlock(c[1])
      <4>1. 1 \in 1 .. Len(c)
        BY <1>4
      <4>2. QED
        BY <4>1
    <3>3. parts[1].type = "tool_result"
      BY <1>4, <3>2, ConvertedBlock
    <3> HIDE DEF parts, role, y
    <3>4. QED
      BY <3>1, <3>3 DEF Wire
  <2>2. CASE t = "gemini"
    <3> DEFINE parts == Flat(GeminiOf(known), c)
               g == GeminiOf(known)
    <3>1. parts \in Seq(MessageBlocks)
          /\ \E role \in Roles : y = IF parts = <<>> THEN <<>> ELSE <<Wire(role, parts)>>
      BY <1>3, <2>2, GeminiWires
    <3>2. g[c[1]] = <<GeminiResult(known, c[1])>> /\ GeminiResult(known, c[1]).type = "tool_result"
      <4>1. g[c[1]] = GeminiParts(known, c[1])
        BY <1>4 DEF GeminiOf
      <4>2. QED
        BY <1>4, <4>1, GeminiPart
    <3>3. Flat(g, c)[1] = g[c[1]][1] /\ Len(Flat(g, c)) \in Nat /\ Len(Flat(g, c)) >= 1
      <4>1. Maps(g, MessageBlocks, MessageBlocks)
        BY GeminiMaps
      <4>2. g[c[1]] # <<>>
        BY <3>2
      <4> HIDE DEF g, c
      <4>3. QED
        BY <1>1, <1>3, <4>1, <4>2, FlatFirst
    <3>4. parts # <<>> /\ parts[1].type = "tool_result"
      BY <3>2, <3>3
    <3> HIDE DEF parts, y, g
    <3>5. QED
      BY <3>1, <3>4 DEF Wire
  <2>3. CASE t = "ollama"
    <3>1. y = OllamaMessage(m) /\ m.role = "tool"
      BY <2>3 DEF WiresOf
    <3>2. QED
      BY <1>1, <1>3, <3>1, OllamaResults
  <2>4. QED
    BY <2>1, <2>2, <2>3
<1>6. k[m] = y
  BY <1>2 DEF Wiring
<1>7. Maps(k, Asking(t), Wires)
  <2>1. \A u \in Asking(t) : WiresOf(t, known, u) \in Seq(Wires)
    <3>1. SUFFICES ASSUME NEW u \in Asking(t) PROVE WiresOf(t, known, u) \in Seq(Wires)
      OBVIOUS
    <3>2. u \in Sayable(t) /\ t \in TargetNames
      BY DEF Asking, TargetNames
    <3>3. QED
      BY <3>2, AllTold DEF Told
  <2>2. QED
    BY <2>1 DEF Maps, Wiring
<1> HIDE DEF y
<1>8. /\ Flat(k, after)[1] = k[after[1]][1]
      /\ Len(Flat(k, after)) \in Nat /\ Len(Flat(k, after)) >= 1
  <2>1. k[after[1]] # <<>>
    BY <1>5, <1>6
  <2>2. QED
    BY <1>1, <1>7, <2>1, FlatFirst
<1>9. QED
  BY <1>5, <1>6, <1>8

-----------------------------------------------------------------------------
(* What came before the answer *)

\* The call and the result of an opening.
LEMMA EarlierFacts ==
  /\ EarlierCall \in MessageBlocks /\ EarlierCall.type = "tool_use" /\ EarlierCall.body # <<>>
  /\ EarlierResult \in MessageBlocks /\ EarlierResult.type = "tool_result"
  /\ EarlierResult.id = EarlierCall.id /\ EarlierCall.id \in Nat /\ EarlierCall.name \in Nat
  /\ provider = "gemini" => EarlierCall.id = EarlierCall.name
<1>1. EarlierCall \in MessageBlocks /\ EarlierResult \in MessageBlocks
  BY EarlierTyped
<1>2. \/ EarlierCall = Call(1, 1, Said, Said)
      \/ provider # "gemini" /\ EarlierCall = Call(1, 0, Said, <<>>)
      \/ provider # "gemini" /\ EarlierCall = Call(0, 0, Said, <<>>)
  BY DEF EarlierCall
<1>3. \A id, name, s : /\ Call(id, name, Said, s).type = "tool_use" /\ Call(id, name, Said, s).body = Said
                       /\ Call(id, name, Said, s).id = id /\ Call(id, name, Said, s).name = name
  BY DEF Call, Block
<1>4. \A id, s, f : ToolResultBlock(id, s, f).type = "tool_result" /\ ToolResultBlock(id, s, f).id = id
  BY DEF ToolResultBlock, Block
<1>5. /\ EarlierCall.type = "tool_use" /\ EarlierCall.body = Said
      /\ EarlierCall.id \in Nat /\ EarlierCall.name \in Nat
      /\ provider = "gemini" => EarlierCall.id = EarlierCall.name
  BY <1>2, <1>3
<1>6. EarlierResult.type = "tool_result" /\ EarlierResult.id = EarlierCall.id
  BY <1>4 DEF EarlierResult
<1>7. QED
  BY <1>1, <1>5, <1>6, Texts

\* A question puts no result on the wire.
LEMMA ResultlessMessage ==
  ASSUME NEW t, NEW c \in Seq(Typed({"text", "image", "document"}))
  PROVE  /\ Message("user", c) \in Asking(t)
         /\ Message("user", c) \in Resultless(t)
<1> DEFINE K == {"text", "image", "document"}
           U == Typed(KindsOf("user"))
           N == Typed(ReplayTypes \ {"tool_result"})
<1>1. Typed(K) \subseteq U /\ Typed(K) \subseteq N
  <2>1. K \subseteq KindsOf("user")
    BY DEF KindsOf
  <2>2. K \subseteq ReplayTypes \ {"tool_result"}
    BY DEF ReplayTypes, BlockTypes
  <2> HIDE DEF K
  <2>3. QED
    BY <2>1, <2>2 DEF Typed
<1>2. c \in Seq(U) /\ c \in Seq(N)
  <2> HIDE DEF U, N, K
  <2>1. c \in Seq(Typed(K))
    BY DEF K
  <2>2. QED
    BY <1>1, <2>1, SeqWider
<1>3. Message("user", c) \in Asking(t)
  BY <1>2, AskingMessage
<1>4. Message("user", c).content = c
  BY DEF Message
<1>5. QED
  BY <1>2, <1>3, <1>4 DEF Asking, Resultless

\* The earlier call puts no result on the wire.
LEMMA CallingMessage ==
  ASSUME NEW t
  PROVE  /\ Message("assistant", <<EarlierCall>>) \in Resultless(t)
         /\ Message("assistant", <<EarlierCall>>).content = <<EarlierCall>>
<1> DEFINE b == EarlierCall
           c == <<b>>
           m == Message("assistant", c)
           N == Typed(ReplayTypes \ {"tool_result"})
<1>1. b \in MessageBlocks /\ b.type = "tool_use" /\ b.body # <<>>
  BY EarlierFacts
<1>2. b \in Typed(BlockTypes) /\ b \in N /\ b \in WritableBlocks
  BY <1>1 DEF Typed, BlockTypes, ReplayTypes, WritableBlocks
<1> HIDE DEF b
<1>3. c \in Seq(Typed(BlockTypes)) /\ c \in Seq(N) /\ c \in Seq(WritableBlocks) /\ c \in Seq(MessageBlocks)
  BY <1>1, <1>2
<1> HIDE DEF c
<1>4. m \in Messages /\ m.role = "assistant" /\ m.content = c
  BY <1>3, MessageTyped DEF Message
<1>5. KindsOf("assistant") = BlockTypes
  BY DEF KindsOf
<1> HIDE DEF m
<1>6. m \in Sayable(t)
  BY <1>3, <1>4, <1>5 DEF Sayable, Sound
<1>7. QED
  BY <1>3, <1>4, <1>6 DEF Resultless, m, c, b

\* Sequences written out.
LEMMA Listed ==
  /\ \A x, y : Append(<<x>>, y) = <<x, y>>
  /\ \A x, y, z : <<x, y>> \o <<z>> = <<x, y, z>>
<1>1. ASSUME NEW x, NEW y PROVE Append(<<x>>, y) = <<x, y>>
  <2> DEFINE A == {x, y}
             s == <<x>>
             u == Append(s, y)
             v == <<x, y>>
  <2>1. s \in Seq(A) /\ v \in Seq(A) /\ y \in A /\ Len(s) = 1 /\ s[1] = x
        /\ Len(v) = 2 /\ v[1] = x /\ v[2] = y
    OBVIOUS
  <2> HIDE DEF A, s, v
  <2>2. u \in Seq(A) /\ Len(u) = 2 /\ u[1] = x /\ u[2] = y
    <3>1. s \in Seq(A) /\ y \in A
      BY <2>1
    <3>2. /\ Append(s, y) \in Seq(A) /\ Len(Append(s, y)) = Len(s) + 1
          /\ \A i \in 1 .. Len(s) : Append(s, y)[i] = s[i]
          /\ Append(s, y)[Len(s) + 1] = y
      BY <3>1, AppendedMessages
    <3> HIDE DEF u
    <3>3. 1 \in 1 .. Len(s) /\ Len(s) + 1 = 2
      BY <2>1
    <3>4. QED
      BY <2>1, <3>2, <3>3 DEF u
  <2> HIDE DEF u
  <2>3. \A i \in 1 .. Len(u) : u[i] = v[i]
    BY <2>1, <2>2
  <2>4. u = v
    BY <2>1, <2>2, <2>3, SeqEqual
  <2>5. QED
    BY <2>4 DEF u, s, v
<1>2. ASSUME NEW x, NEW y, NEW z PROVE <<x, y>> \o <<z>> = <<x, y, z>>
  <2> DEFINE A == {x, y, z}
             s == <<x, y>>
             one == <<z>>
             u == s \o one
             v == <<x, y, z>>
  <2>1. s \in Seq(A) /\ one \in Seq(A) /\ v \in Seq(A)
        /\ Len(s) = 2 /\ s[1] = x /\ s[2] = y /\ Len(one) = 1 /\ one[1] = z
        /\ Len(v) = 3 /\ v[1] = x /\ v[2] = y /\ v[3] = z
    OBVIOUS
  <2> HIDE DEF A, s, v, one
  <2>2. u \in Seq(A) /\ Len(u) = 3 /\ (\A i \in 1 .. 2 : u[i] = s[i]) /\ (\A i \in 1 .. 1 : u[2 + i] = one[i])
    <3>1. s \in Seq(A) /\ one \in Seq(A)
      BY <2>1
    <3>2. /\ s \o one \in Seq(A) /\ Len(s \o one) = Len(s) + Len(one)
          /\ \A i \in 1 .. Len(s) : (s \o one)[i] = s[i]
          /\ \A i \in 1 .. Len(one) : (s \o one)[Len(s) + i] = one[i]
      BY <3>1, ConcatPlaces
    <3>3. Len(s) = 2 /\ Len(one) = 1
      BY <2>1
    <3>4. QED
      BY <3>2, <3>3
  <2> HIDE DEF u
  <2>3. \A i \in 1 .. Len(u) : u[i] = v[i]
    <3>1. u[1] = x /\ u[2] = y /\ u[3] = z
      BY <2>1, <2>2
    <3>2. QED
      BY <2>1, <2>2, <3>1
  <2>4. u = v
    BY <2>1, <2>2, <2>3, SeqEqual
  <2>5. QED
    BY <2>4 DEF u, s, v, one
<1>3. QED
  BY <1>1, <1>2

\* A conversation begins without results, and with the result of an earlier call
\* at most, whose call Gemini is told of or needs not be.
OpeningSplit(t, before, first, rest) ==
  /\ first \in Seq(Resultless(t)) /\ rest \in Seq(Asking(t)) /\ before = first \o rest
  /\ Flat(ContentOf, rest) \in {<<>>, <<EarlierResult>>}
  /\ Flat(ContentOf, rest) # <<>> /\ (first \notin Seq(Asking(t)) \/ provider = "gemini") =>
       FunctionName(NamesAfter(first), EarlierCall.id) = EarlierCall.name

\* Every opening falls into what precedes its result and its result.
LEMMA OpeningsSplit ==
  ASSUME NEW t, NEW before \in Openings
  PROVE  \E first, rest : OpeningSplit(t, before, first, rest)
<1> DEFINE question == Message("user", <<Words(Said)>>)
           calling == Message("assistant", <<EarlierCall>>)
           told == Message("tool", <<EarlierResult>>)
           R == Resultless(t)
           A == Asking(t)
           Medias == {Media("image", Inline), Media("image", URL), Media("image", <<>>),
                      Media("document", Inline)}
<1>1. question \in R /\ question \in A
  <2>1. <<Words(Said)>> \in Seq(Typed({"text", "image", "document"}))
    <3>1. Words(Said) \in Typed({"text", "image", "document"})
      BY SaidWord DEF Typed
    <3>2. QED
      BY <3>1
  <2>2. QED
    BY <2>1, ResultlessMessage
<1>2. \A x \in Medias : Message("user", <<Words(<<>>), x>>) \in R /\ Message("user", <<Words(<<>>), x>>) \in A
  <2>1. SUFFICES ASSUME NEW x \in Medias
                 PROVE  <<Words(<<>>), x>> \in Seq(Typed({"text", "image", "document"}))
    BY ResultlessMessage
  <2> DEFINE T == Typed({"text", "image", "document"})
  <2>2. Words(<<>>) \in T
    <3>1. Words(<<>>) \in MessageBlocks /\ Words(<<>>).type = "text"
      BY Texts, BlocksTyped DEF Words, Block
    <3>2. QED
      BY <3>1 DEF Typed
  <2>3. x \in T
    <3>1. PICK type \in {"image", "document"}, d \in {Inline, URL, <<>>} : x = Media(type, d)
      OBVIOUS
    <3>2. d \in Strings
      BY Texts
    <3>3. x \in MessageBlocks
      BY <3>1, <3>2, BlocksTyped
    <3>4. x.type = type
      BY <3>1 DEF Media, Block
    <3>5. QED
      BY <3>3, <3>4 DEF Typed
  <2> HIDE DEF T, Medias
  <2>4. <<Words(<<>>), x>> \in Seq(T)
    BY <2>2, <2>3
  <2>5. QED
    BY <2>4 DEF T
<1>3. calling \in R /\ calling.content = <<EarlierCall>>
  BY CallingMessage
<1>4. told \in A /\ <<told>> \in Seq(A) /\ Flat(ContentOf, <<told>>) = <<EarlierResult>>
  <2> DEFINE c == <<EarlierResult>>
  <2>1. c \in Seq(Typed(KindsOf("tool")))
    <3>1. EarlierResult \in Typed(KindsOf("tool"))
      BY EarlierFacts DEF Typed, KindsOf
    <3>2. QED
      BY <3>1
  <2> HIDE DEF c
  <2>2. Message("tool", c) \in A /\ <<Message("tool", c)>> \in Seq(A) /\ Flat(ContentOf, <<Message("tool", c)>>) = c
    BY <2>1, AskingMessage
  <2>3. QED
    BY <2>2 DEF c
<1>5. FunctionName(NamesAfter(<<question, calling>>), EarlierCall.id) = EarlierCall.name
  <2> DEFINE b == EarlierCall
             s == <<b>>
             nm == [n \in Nat |-> b.name]
             one == <<question>>
             names == NamesAfter(one)
  <2>1. b.type = "tool_use" /\ b.id \in Nat /\ b \in MessageBlocks
    BY EarlierFacts
  <2>2. nm[b.id] = b.name
    BY <2>1
  <2>3. b \in CallsNamed(nm)
    BY <2>1, <2>2 DEF CallsNamed
  <2> HIDE DEF b, nm
  <2>4. s \in Seq(CallsNamed(nm)) /\ 1 \in 1 .. Len(s) /\ s[1] = b
    BY <2>3
  <2> DEFINE i == 1
  <2>5. i \in 1 .. Len(s) /\ s[i] = b /\ s[i].type = "tool_use"
    BY <2>1, <2>4
  <2> HIDE DEF i, s
  <2>6. FunctionName(GeminiDone(names, s).names, s[i].id) = nm[s[i].id]
    <3> HIDE DEF names
    <3>1. QED
      BY <2>4, <2>5, GeminiRemembers
  <2>7. NamesAfter(Append(one, calling)) = GeminiDone(names, s).names
    <3>1. one \in Seq(R)
      BY <1>1
    <3>2. R \subseteq Sayable(t)
      BY DEF Resultless
    <3> HIDE DEF R, one, calling
    <3>3. one \in Seq(Sayable(t)) /\ calling \in Sayable(t)
      BY <1>3, <3>1, <3>2, SeqWider
    <3>4. NamesAfter(Append(one, calling)) = GeminiDone(names, calling.content).names
      BY <3>3, NamesAfterFacts
    <3>5. QED
      BY <1>3, <3>4 DEF s, b
  <2>8. Append(one, calling) = <<question, calling>>
    BY Listed
  <2>9. QED
    BY <2>2, <2>5, <2>6, <2>7, <2>8 DEF b
<1>6. provider = "gemini" => FunctionName(NamesAfter(<<>>), EarlierCall.id) = EarlierCall.name
  <2>1. NamesAfter(<<>>) = Nothing.names
    BY GeminiFold DEF NamesAfter
  <2>2. \A id : FunctionName(Nothing.names, id) = id
    BY DEF FunctionName, Nothing
  <2>3. QED
    BY <2>1, <2>2, EarlierFacts
<1>7. Flat(ContentOf, <<>>) = <<>>
  BY FlatNone
<1>8. \/ before = <<question>>
      \/ \E x \in Medias : before = <<Message("user", <<Words(<<>>), x>>), question>>
      \/ before = <<question, calling, told>>
      \/ before = <<told>>
  BY DEF Openings
<1> HIDE DEF question, calling, told, R, A, Medias
<1>9. ASSUME before \in Seq(R), before \in Seq(A)
      PROVE  OpeningSplit(t, before, before, <<>>)
  <2>1. before \o <<>> = before /\ <<>> \in Seq(A)
    BY <1>9, ConcatEmptySeq, EmptySeq
  <2>2. QED
    BY <1>7, <1>9, <2>1 DEF OpeningSplit, R, A
<1>10. CASE before = <<question>>
  <2>1. before \in Seq(R) /\ before \in Seq(A)
    BY <1>1, <1>10
  <2>2. QED
    BY <1>9, <2>1
<1>11. CASE \E x \in Medias : before = <<Message("user", <<Words(<<>>), x>>), question>>
  <2>1. PICK x \in Medias : before = <<Message("user", <<Words(<<>>), x>>), question>>
    BY <1>11
  <2> DEFINE m == Message("user", <<Words(<<>>), x>>)
  <2>2. m \in R /\ m \in A /\ before = <<m, question>>
    BY <1>2, <2>1
  <2> HIDE DEF m
  <2>3. before \in Seq(R) /\ before \in Seq(A)
    BY <1>1, <2>2
  <2>4. QED
    BY <1>9, <2>3
<1>12. CASE before = <<question, calling, told>>
  <2>1. <<question, calling>> \o <<told>> = <<question, calling, told>>
    BY Listed
  <2>2. <<question, calling>> \in Seq(R)
    BY <1>1, <1>3
  <2>3. OpeningSplit(t, before, <<question, calling>>, <<told>>)
    BY <1>4, <1>5, <1>12, <2>1, <2>2 DEF OpeningSplit, R, A
  <2>4. QED
    BY <2>3
<1>13. CASE before = <<told>>
  <2>1. <<>> \o <<told>> = <<told>> /\ <<>> \in Seq(R) /\ <<>> \in Seq(A)
    <3>1. <<told>> \in Seq(A)
      BY <1>4
    <3>2. QED
      BY <3>1, ConcatEmptySeq, EmptySeq
  <2>2. OpeningSplit(t, before, <<>>, <<told>>)
    BY <1>4, <1>6, <1>13, <2>1 DEF OpeningSplit, R, A
  <2>3. QED
    BY <2>2
<1>14. QED
  BY <1>8, <1>10, <1>11, <1>12, <1>13

-----------------------------------------------------------------------------
(* The functions that the calls of an answer call *)

\* A call calls the function that nm has for its ID.
CallBy(nm, b)  == b.type = "tool_use" => Named(b).name = nm[b.id]

\* The calls of a content, each of the function nm gives for its ID.
CallsBy(nm, s) == \A i \in 1 .. Len(s) : CallBy(nm, s[i])

\* What Named keeps.
LEMMA NamedFacts ==
  ASSUME NEW b \in ContentBlocks
  PROVE  /\ Named(b).type = b.type /\ Named(b).id = b.id /\ Named(b).body = b.body
         /\ b.type = "tool_use" =>
              Named(b).name = IF provider # "ollama_tools" \/ b.body = <<>> THEN b.id
                              ELSE b.body[1][1]
<1> DEFINE name == IF b.type # "tool_use" THEN 0
                   ELSE IF provider # "ollama_tools" \/ b.body = <<>> THEN b.id
                   ELSE b.body[1][1]
<1>1. Named(b) = Block(b.type, b.id, name, b.body, b.data, b.signature, FALSE)
  BY DEF Named
<1> HIDE DEF name
<1>2. /\ Named(b).type = b.type /\ Named(b).id = b.id /\ Named(b).body = b.body
      /\ Named(b).name = name
  BY <1>1 DEF Block
<1>3. QED
  BY <1>2 DEF name

\* Plainly keeps the call.
LEMMA PlainCall ==
  ASSUME NEW nm, NEW b \in ContentBlocks
  PROVE  CallBy(nm, Plainly(b)) <=> CallBy(nm, b)
<1> DEFINE c == Plainly(b)
<1>1. c \in ContentBlocks /\ c.type = b.type /\ c.id = b.id
  BY PlainlyType
<1>2. CASE b.type = "tool_use" /\ b.body = NoArguments(b.id)
  <2>1. c.body = <<>>
    BY <1>2 DEF Plainly, ContentBlocks
  <2>2. b.body[1][1] = b.id /\ b.body # <<>>
    BY <1>2 DEF NoArguments
  <2> HIDE DEF c
  <2>3. Named(c).name = c.id /\ Named(b).name = b.id
    BY <1>1, <1>2, <2>1, <2>2, NamedFacts
  <2>4. QED
    BY <1>1, <2>3 DEF CallBy, c
<1>3. CASE ~(b.type = "tool_use" /\ b.body = NoArguments(b.id))
  BY <1>3 DEF Plainly
<1>4. QED
  BY <1>2, <1>3

\* The functions of calls, one block at a time.
LEMMA CallsByAppend ==
  ASSUME NEW nm, NEW s \in Seq(ContentBlocks), NEW b \in ContentBlocks
  PROVE  CallsBy(nm, Append(s, b)) <=> CallsBy(nm, s) /\ CallBy(nm, b)
<1> DEFINE v == Append(s, b)
           n == Len(s)
<1>1. /\ n \in Nat /\ Len(v) = n + 1 /\ v[n + 1] = b
      /\ \A i \in 1 .. n : v[i] = s[i]
  BY AppendedMessages
<1> HIDE DEF v
<1>2. CallsBy(nm, v) <=> \A i \in 1 .. n + 1 : CallBy(nm, v[i])
  BY <1>1 DEF CallsBy
<1>3. CallsBy(nm, s) <=> \A i \in 1 .. n : CallBy(nm, s[i])
  BY DEF CallsBy
<1> HIDE DEF n
<1>4. (\A i \in 1 .. n + 1 : CallBy(nm, v[i])) <=> (\A i \in 1 .. n : CallBy(nm, v[i])) /\ CallBy(nm, v[n + 1])
  <2> DEFINE Q(i) == CallBy(nm, v[i])
  <2> HIDE DEF Q
  <2>1. (\A i \in 1 .. n + 1 : Q(i)) <=> (\A i \in 1 .. n : Q(i)) /\ Q(n + 1)
    <3>1. \A i \in 1 .. n + 1 : i \in 1 .. n \/ i = n + 1
      BY <1>1
    <3>2. n + 1 \in 1 .. n + 1 /\ \A i \in 1 .. n : i \in 1 .. n + 1
      BY <1>1
    <3>3. QED
      BY <3>1, <3>2
  <2>2. QED
    BY <2>1 DEF Q
<1>5. (\A i \in 1 .. n : CallBy(nm, v[i])) <=> (\A i \in 1 .. n : CallBy(nm, s[i]))
  BY <1>1
<1>6. QED
  BY <1>1, <1>2, <1>3, <1>4, <1>5 DEF v

\* A sequence with elements has a last.
LEMMA AppendedLast ==
  ASSUME NEW A, NEW m \in Seq(A), m # <<>>
  PROVE  \E u \in Seq(A), z \in A : m = Append(u, z)
<1> DEFINE n == Len(m) - 1
           g == [i \in 1 .. n |-> m[i]]
<1>1. Len(m) \in Nat /\ Len(m) >= 1
  BY FirstOf
<1>2. n \in Nat /\ Len(m) = n + 1
  BY <1>1
<1>3. m = [i \in 1 .. n + 1 |-> m[i]] /\ \A i \in 1 .. n + 1 : m[i] \in A
  <2>1. m = [i \in 1 .. Len(m) |-> m[i]] /\ \A i \in 1 .. Len(m) : m[i] \in A
    BY LenProperties, ElementOfSeq
  <2>2. QED
    BY <1>2, <2>1
<1>4. g = [i \in 1 .. n |-> g[i]] /\ \A i \in 1 .. n : g[i] = m[i]
  BY <1>2
<1> HIDE DEF n, g
<1>5. m = Append(g, m[n + 1]) /\ g \in Seq(A)
  <2>1. OneLonger(m, g, n, A)
    BY <1>3, <1>4 DEF OneLonger
  <2>2. QED
    BY <1>2, <2>1, OneMore
<1>6. m[n + 1] \in A
  BY <1>2, <1>3
<1>7. QED
  BY <1>5, <1>6

\* Merging keeps the functions of the calls.
LEMMA MergeCall ==
  ASSUME NEW nm, NEW m \in Seq(ContentBlocks), NEW b \in ContentBlocks
  PROVE  CallsBy(nm, Merge(m, b)) <=> CallsBy(nm, m) /\ CallBy(nm, b)
<1>1. CASE b.type # "text"
  <2>1. Merge(m, b) = Append(m, Plainly(b)) /\ Plainly(b) \in ContentBlocks
    BY <1>1, MergeOther, PlainlyType
  <2>2. QED
    BY <2>1, CallsByAppend, PlainCall
<1>2. CASE b.type = "text" /\ m = <<>>
  <2>1. Merge(m, b) = Append(m, Plainly(b)) /\ Plainly(b) \in ContentBlocks
    BY <1>2, MergeFirst, PlainlyType
  <2>2. QED
    BY <2>1, CallsByAppend, PlainCall
<1>3. CASE b.type = "text" /\ m # <<>>
  <2>1. PICK u \in Seq(ContentBlocks), z \in ContentBlocks : m = Append(u, z)
    BY <1>3, AppendedLast
  <2>2. Merge(m, b) = IF z.type = "text" /\ b.type = "text" THEN Append(u, Grown(z, b))
                      ELSE Append(Append(u, z), Plainly(b))
    BY <2>1, MergeAfter
  <2>3. CASE z.type = "text"
    <3>1. Grown(z, b) \in ContentBlocks /\ Grown(z, b).type = "text"
      BY <2>3, GrownType
    <3>2. CallBy(nm, Grown(z, b)) /\ CallBy(nm, z) /\ CallBy(nm, b)
      BY <1>3, <2>3, <3>1 DEF CallBy
    <3>3. Merge(m, b) = Append(u, Grown(z, b))
      BY <1>3, <2>2, <2>3
    <3>4. CallsBy(nm, Append(u, Grown(z, b))) <=> CallsBy(nm, u) /\ CallBy(nm, Grown(z, b))
      BY <3>1, CallsByAppend
    <3>5. CallsBy(nm, m) <=> CallsBy(nm, u) /\ CallBy(nm, z)
      BY <2>1, CallsByAppend
    <3>6. QED
      BY <3>2, <3>3, <3>4, <3>5
  <2>4. CASE z.type # "text"
    <3>1. Merge(m, b) = Append(m, Plainly(b)) /\ Plainly(b) \in ContentBlocks
      BY <2>1, <2>2, <2>4, PlainlyType
    <3>2. QED
      BY <3>1, CallsByAppend, PlainCall
  <2>5. QED
    BY <2>3, <2>4
<1>4. QED
  BY <1>1, <1>2, <1>3

\* No calls, no functions.
LEMMA CallsByNone == \A nm : CallsBy(nm, <<>>)
<1>1. \A i \in 1 .. Len(<<>>) : FALSE
  OBVIOUS
<1>2. QED
  BY <1>1 DEF CallsBy

\* A merged content calls what the content calls.
LEMMA MergedCalls ==
  ASSUME NEW nm, NEW s \in Seq(ContentBlocks)
  PROVE  CallsBy(nm, Merged(s)) <=> CallsBy(nm, s)
<1> DEFINE T == {u \in Seq(ContentBlocks) : CallsBy(nm, Merged(u)) <=> CallsBy(nm, u)}
<1>1. <<>> \in T
  BY CallsByNone, MergedNone, EmptySeq
<1>2. ASSUME NEW u \in Seq(ContentBlocks), NEW b \in ContentBlocks, u \in T PROVE Append(u, b) \in T
  <2>1. Merged(Append(u, b)) = Merge(Merged(u), b) /\ Merged(u) \in Seq(ContentBlocks)
    BY MergedAppend, MergedType
  <2>2. CallsBy(nm, Merge(Merged(u), b)) <=> CallsBy(nm, Merged(u)) /\ CallBy(nm, b)
    BY <2>1, MergeCall
  <2>3. CallsBy(nm, Append(u, b)) <=> CallsBy(nm, u) /\ CallBy(nm, b)
    BY CallsByAppend
  <2>4. Append(u, b) \in Seq(ContentBlocks)
    BY AppendProperties
  <2>5. QED
    BY <1>2, <2>1, <2>2, <2>3, <2>4
<1>3. \A u \in Seq(ContentBlocks) : u \in T
  <2> HIDE DEF T
  <2>1. QED
    BY <1>1, <1>2, SeqInduction, Z3
<1>4. QED
  BY <1>3

\* The function of a call is its ID, whatever its arguments, but for Ollama's.
Own == [n \in Nat |-> n]

LEMMA OwnCalls ==
  ASSUME provider # "ollama_tools", NEW s \in Seq(ContentBlocks)
  PROVE  CallsBy(Own, s)
<1>1. Len(s) \in Nat /\ \A i \in 1 .. Len(s) : s[i] \in ContentBlocks
  BY LenProperties, ElementOfSeq
<1>2. ASSUME NEW b \in ContentBlocks, b.type = "tool_use" PROVE Named(b).name = Own[b.id]
  <2>1. Named(b).name = b.id
    BY <1>2, NamedFacts
  <2>2. b.id \in Nat
    BY DEF ContentBlocks
  <2>3. QED
    BY <2>1, <2>2 DEF Own
<1>3. QED
  BY <1>1, <1>2 DEF CallsBy, CallBy

\* A sequence of at most one.
LEMMA Short ==
  ASSUME NEW d, d = <<>> \/ \E x : d = <<x>>
  PROVE  Len(d) <= 1 /\ Len(d) \in Nat
<1>1. CASE d = <<>>
  BY <1>1
<1>2. CASE \E x : d = <<x>>
  BY <1>2
<1>3. QED
  BY <1>1, <1>2

\* One call has one function.
LEMMA FewCalls ==
  ASSUME NEW s, Len(s) \in Nat, Len(s) <= 1
  PROVE  \E nm : CallsBy(nm, s)
<1> DEFINE nm == [n \in {s[1].id} |-> Named(s[1]).name]
<1>1. \A i \in 1 .. Len(s) : i = 1
  OBVIOUS
<1>2. nm[s[1].id] = Named(s[1]).name
  OBVIOUS
<1> HIDE DEF nm
<1>3. CallsBy(nm, s)
  BY <1>1, <1>2 DEF CallsBy, CallBy
<1>4. QED
  BY <1>3

\* A call of what is returned calls the function of its ID.
LEMMA CallsAlike ==
  ASSUME AInv, ending # "open", NEW content \in {acc.content, ParseChatResponse}
  PROVE  content \in Seq(ContentBlocks) /\ \E nm : CallsBy(nm, content)
<1> DEFINE c == acc.content
           w == ParseChatResponse
<1>1. Given /\ c \in Seq(ContentBlocks) /\ w \in Seq(ContentBlocks)
  BY ReturnedTyped DEF AInv
<1>2. CASE provider # "ollama_tools"
  BY <1>1, <1>2, OwnCalls
<1>3. CASE provider = "ollama_tools"
  <2>1. w = <<>> \/ \E x : w = <<x>>
    BY <1>3 DEF ParseChatResponse, OllamaContent
  <2>2. Len(w) \in Nat /\ Len(w) <= 1
    <3> HIDE DEF w
    <3>1. QED
      BY <2>1, Short
  <2>3. \E nm : CallsBy(nm, w)
    <3> HIDE DEF w
    <3>1. QED
      BY <2>2, FewCalls
  <2>4. Extends(Merged(c), Merged(w))
    <3>1. ~Strayed
      <4>1. block \in 0 .. Len(answer)
        BY AnswerShape DEF AInv, Arrived, Position
      <4>2. QED
        BY <1>1, <1>3, <4>1, OnlyAnthropicStrays
    <3>2. QED
      BY <1>3, <3>1, PartialIs DEF AInv, KeepsThinking
  <2>5. Merged(c) \in Seq(ContentBlocks)
    BY <1>1, MergedType
  <2> HIDE DEF w
  <2>6. Len(Merged(w)) \in Nat /\ Len(Merged(w)) <= 1
    <3>1. CASE w = <<>>
      <4>1. Len(<<>>) = 0
        OBVIOUS
      <4>2. QED
        BY <3>1, <4>1, MergedNone
    <3>2. CASE \E x : w = <<x>>
      <4>1. PICK x : w = <<x>>
        BY <3>2
      <4>2. x \in ContentBlocks
        <5>1. w # <<>> /\ w[1] = x
          BY <4>1
        <5>2. QED
          BY <1>1, <5>1, FirstOf
      <4>3. Merged(w) = Append(<<>>, Plainly(x))
        BY <4>1, <4>2, OneMerged, MergeFirst
      <4>4. \A y : Append(<<>>, y) = <<y>> /\ Len(<<y>>) = 1
        OBVIOUS
      <4>5. QED
        BY <4>3, <4>4
    <3>3. QED
      BY <2>1, <3>1, <3>2
  <2>7. Len(Merged(c)) \in Nat /\ Len(Merged(c)) <= 1
    <3>1. Len(Merged(c)) \in Nat
      BY <2>5, LenProperties
    <3>2. Len(Merged(c)) <= Len(Merged(w))
      BY <2>4 DEF Extends
    <3>3. QED
      BY <2>6, <3>1, <3>2
  <2> HIDE DEF c
  <2>8. PICK nm : CallsBy(nm, Merged(c))
    BY <2>7, FewCalls
  <2>9. CallsBy(nm, c)
    BY <1>1, <2>8, MergedCalls
  <2>10. QED
    BY <1>1, <2>3, <2>9 DEF c, w
<1>4. QED
  BY <1>2, <1>3

-----------------------------------------------------------------------------
(* The results of the answer's calls *)

\* The answer as a message of the conversation.
LEMMA AnswerMessage ==
  ASSUME NEW content \in Seq(ContentBlocks), NEW nm, CallsBy(nm, content)
  PROVE  LET m == AssistantBlocks(content)
         IN  /\ m \in Sound /\ m.role = "assistant"
             /\ m.content \in Seq(CallsNamed(nm)) /\ m.content \in Seq(MessageBlocks)
<1> DEFINE f(i) == Named(content[i])
           n == Len(content)
           c == [i \in 1 .. n |-> f(i)]
           m == AssistantBlocks(content)
           B == Typed(BlockTypes)
           C == CallsNamed(nm)
<1>1. n \in Nat /\ \A i \in 1 .. n : content[i] \in ContentBlocks
  BY LenProperties, ElementOfSeq
<1>2. ASSUME NEW i \in 1 .. n PROVE f(i) \in B /\ f(i) \in C /\ f(i) \in MessageBlocks
  <2> DEFINE b == content[i]
  <2>1. b \in ContentBlocks /\ CallBy(nm, b)
    BY <1>1 DEF CallsBy
  <2> HIDE DEF b
  <2>2. Named(b) \in MessageBlocks /\ Named(b).type = b.type /\ Named(b).id = b.id
    BY <2>1, NamedTyped, NamedFacts
  <2>3. b.type \in BlockTypes
    BY <2>1 DEF ContentBlocks
  <2>4. b.type = "tool_use" => Named(b).name = nm[b.id]
    BY <2>1 DEF CallBy
  <2>5. QED
    BY <2>2, <2>3, <2>4 DEF b, Typed, CallsNamed
<1>3. m = Message("assistant", c)
  BY DEF AssistantBlocks
<1> HIDE DEF f, n, m, B, C
<1>4. c \in Seq(B) /\ c \in Seq(C) /\ c \in Seq(MessageBlocks)
  BY <1>1, <1>2
<1> HIDE DEF c
<1>5. m \in Messages /\ m.role = "assistant" /\ m.content = c
  BY <1>3, <1>4, MessageTyped DEF Message
<1>6. KindsOf("assistant") = BlockTypes
  BY DEF KindsOf
<1>7. QED
  BY <1>4, <1>5, <1>6 DEF Sound, m, B, C

\* The contents of a conversation, as Flat.
LEMMA ContentsFlat ==
  ASSUME NEW h \in Seq(Messages)
  PROVE  Contents(h) = Flat(ContentOf, h)
<1>1. \A i \in 1 .. Len(h) : h[i] \in Messages
  BY ElementOfSeq
<1>2. \A i \in 1 .. Len(h) : ContentOf[h[i]] = h[i].content
  BY <1>1 DEF ContentOf
<1>3. [i \in 1 .. Len(h) |-> h[i].content] = [i \in 1 .. Len(h) |-> ContentOf[h[i]]]
  BY <1>2
<1>4. QED
  BY <1>3 DEF Contents, Flat

\* A block of the answer is a block of the conversation.
LEMMA WithinContents ==
  ASSUME NEW before \in Seq(Messages), NEW said \in Messages, NEW after \in Seq(Messages),
         NEW i \in 1 .. Len(said.content)
  PROVE  \E j \in DOMAIN Contents(before \o <<said>> \o after) :
           Contents(before \o <<said>> \o after)[j] = said.content[i]
<1> DEFINE one == <<said>>
           p == before \o one
           h == p \o after
           b == Flat(ContentOf, before)
           c == said.content
           a == Flat(ContentOf, after)
           d == b \o c
           whole == d \o a
<1>1. one \in Seq(Messages) /\ p \in Seq(Messages) /\ h \in Seq(Messages)
  <2>1. one \in Seq(Messages)
    OBVIOUS
  <2> HIDE DEF one
  <2>2. p \in Seq(Messages)
    BY <2>1, ConcatProperties
  <2> HIDE DEF p
  <2>3. QED
    BY <2>1, <2>2, ConcatProperties
<1>2. Maps(ContentOf, Messages, MessageBlocks)
  BY DEF Maps, ContentOf, Messages
<1>3. Flat(ContentOf, one) = c
  BY <1>2, FlatOne DEF ContentOf
<1>4. Flat(ContentOf, p) = d /\ Flat(ContentOf, h) = Flat(ContentOf, p) \o a
  <2> HIDE DEF one, c
  <2>0. Joins(ContentOf, Messages)
    BY <1>2, FlatJoins
  <2>1. Flat(ContentOf, before \o one) = Flat(ContentOf, before) \o Flat(ContentOf, one)
    BY <1>1, <2>0 DEF Joins
  <2>2. Flat(ContentOf, p) = d
    BY <1>3, <2>1
  <2> HIDE DEF p
  <2>3. Flat(ContentOf, p \o after) = Flat(ContentOf, p) \o Flat(ContentOf, after)
    BY <1>1, <2>0 DEF Joins
  <2>4. QED
    BY <2>2, <2>3
<1>5. Contents(h) = whole
  BY <1>1, <1>4, ContentsFlat
<1>6. b \in Seq(MessageBlocks) /\ c \in Seq(MessageBlocks) /\ a \in Seq(MessageBlocks)
  BY <1>2, FlatType DEF Messages
<1> HIDE DEF b, c, a, h
<1>7. /\ d \in Seq(MessageBlocks) /\ Len(b) \in Nat /\ Len(c) \in Nat /\ Len(d) = Len(b) + Len(c)
      /\ \A k \in 1 .. Len(c) : d[Len(b) + k] = c[k]
  BY <1>6, ConcatPlaces
<1> HIDE DEF d
<1>8. /\ whole \in Seq(MessageBlocks) /\ Len(whole) = Len(d) + Len(a) /\ Len(a) \in Nat
      /\ \A k \in 1 .. Len(d) : whole[k] = d[k]
  <2>1. d \in Seq(MessageBlocks) /\ a \in Seq(MessageBlocks)
    BY <1>6, <1>7
  <2>2. QED
    BY <2>1, ConcatPlaces
<1> HIDE DEF whole
<1> DEFINE j == Len(b) + i
<1>9. i \in 1 .. Len(c)
  BY DEF c
<1>10. j \in 1 .. Len(d) /\ j \in 1 .. Len(whole) /\ d[j] = c[i]
  BY <1>7, <1>8, <1>9
<1>11. DOMAIN whole = 1 .. Len(whole)
  BY <1>8, LenProperties
<1> HIDE DEF j
<1>12. j \in DOMAIN whole /\ whole[j] = c[i]
  BY <1>8, <1>10, <1>11
<1>13. QED
  BY <1>5, <1>12 DEF h, c

\* The end of a sequence of which it was said.
LEMMA LatestOf ==
  ASSUME NEW A, NEW p \in Seq(A), NEW q \in Seq(A)
  PROVE  /\ Len(q) \in Nat /\ Len(p) \in Nat /\ Len(p \o q) = Len(p) + Len(q)
         /\ \A i \in 1 .. Len(q) : Latest(p \o q, Len(q))[i] = q[i]
<1> DEFINE s == p \o q
           m == Len(p)
           n == Len(q)
           u == SubSeq(s, m + 1, m + n)
<1>1. /\ s \in Seq(A) /\ m \in Nat /\ n \in Nat /\ Len(s) = m + n
      /\ \A i \in 1 .. n : s[m + i] = q[i]
  BY ConcatPlaces
<1>2. (m + n) - n + 1 = m + 1
  BY <1>1
<1>3. Latest(s, n) = u
  BY <1>1, <1>2 DEF Latest
<1> HIDE DEF s, m, n
<1>4. ASSUME NEW i \in 1 .. n PROVE u[i] = s[m + i]
  <2>1. m + 1 \in 1 .. Len(s) + 1 /\ m + n \in m .. Len(s) /\ (m + n) - (m + 1) + 1 = n
        /\ (m + 1) + i - 1 = m + i
    BY <1>1
  <2>2. u[i] = s[(m + 1) + i - 1]
    BY <1>1, <2>1, SubSeqProperties
  <2>3. QED
    BY <2>1, <2>2
<1>5. QED
  BY <1>1, <1>3, <1>4 DEF s, m, n

\* The results of the reply stand for the calls of the answer, in order.
LEMMA CallsPaired ==
  ASSUME NEW t \in TargetNames, NEW names, NEW nm,
         NEW c \in Seq(MessageBlocks), c \in Seq(CallsNamed(nm)),
         NEW known, known = GeminiDone(names, c).names, NamesTyped(known),
         NEW f \in Seq(MessageBlocks), Answering(Of(f, Results), Of(c, {"tool_use"}))
  PROVE  LET n == Len(Of(c, {"tool_use"}))
             qc == Flat(CallSent(t), c)
             qr == Flat(ResultSent(t, known), f)
         IN  /\ qc \in Seq(MessageBlocks) /\ qr \in Seq(MessageBlocks)
             /\ n \in Nat /\ Len(qc) = n /\ Len(qr) = n
             /\ \A i \in 1 .. n : /\ t = "gemini" => qr[i].name = qc[i].name
                                  /\ t \notin {"gemini", "ollama"} => qr[i].id = qc[i].id
<1> DEFINE called == {"tool_use"}
           r == Of(c, called)
           rs == Of(f, Results)
           n == Len(r)
           ks == CallSent(t)
           kr == ResultSent(t, known)
           qc == Flat(ks, c)
           qr == Flat(kr, f)
           gc == [b \in MessageBlocks |-> CallTo(t, b)]
           gr == [b \in MessageBlocks |-> ResultTo(t, known, b)]
<1>1. qc \in Seq(MessageBlocks) /\ qr \in Seq(MessageBlocks)
  <2>1. Maps(ks, MessageBlocks, Typed(called)) /\ Maps(kr, MessageBlocks, Typed(Results))
    BY SentMaps DEF Results
  <2> HIDE DEF ks, kr
  <2>2. qc \in Seq(Typed(called)) /\ qr \in Seq(Typed(Results))
    BY <2>1, FlatType
  <2>3. QED
    BY <2>2, TypedIn
<1>2. /\ \A b \in MessageBlocks : ks[b] = IF b.type \in called THEN <<gc[b]>> ELSE <<>>
      /\ \A b \in MessageBlocks : kr[b] = IF b.type \in Results THEN <<gr[b]>> ELSE <<>>
      /\ \A b \in MessageBlocks : gc[b] = CallTo(t, b) /\ gr[b] = ResultTo(t, known, b)
  BY DEF CallSent, ResultSent, Results
<1> HIDE DEF gc, gr, ks, kr, called
<1>3. /\ Len(qc) = n /\ n \in Nat
      /\ \A i \in 1 .. n : qc[i] = gc[r[i]] /\ r[i] \in Typed(called) /\ r[i] \in MessageBlocks
  <2>1. \A b \in MessageBlocks : ks[b] = IF b.type \in called THEN <<gc[b]>> ELSE <<>>
    BY <1>2
  <2>2. Each(called, gc, ks, c)
    BY <2>1, EachIs
  <2>3. QED
    BY <2>2 DEF Each
<1>4. /\ Len(qr) = Len(rs) /\ Len(rs) \in Nat
      /\ \A i \in 1 .. Len(rs) : qr[i] = gr[rs[i]] /\ rs[i] \in MessageBlocks
  <2>1. \A b \in MessageBlocks : kr[b] = IF b.type \in Results THEN <<gr[b]>> ELSE <<>>
    BY <1>2
  <2>2. Each(Results, gr, kr, f)
    BY <2>1, EachIs
  <2>3. QED
    BY <2>2 DEF Each
<1>5. Len(rs) = n /\ \A i \in 1 .. n : rs[i].id = r[i].id
  BY DEF Answering, called
<1>6. \A i \in 1 .. n : \E j \in 1 .. Len(c) : c[j] = r[i]
  <2> DEFINE S == {c[j] : j \in 1 .. Len(c)}
  <2>1. c \in Seq(S)
    <3>1. Len(c) \in Nat /\ c = [j \in 1 .. Len(c) |-> c[j]]
      BY LenProperties
    <3>2. \A j \in 1 .. Len(c) : c[j] \in S
      OBVIOUS
    <3> HIDE DEF S
    <3>3. QED
      BY <3>1, <3>2
  <2> HIDE DEF S
  <2>2. r \in Seq(S)
    BY <2>1, KeptTypes
  <2>3. \A i \in 1 .. n : r[i] \in S
    <3> HIDE DEF r
    <3>1. QED
      BY <2>2, ElementOfSeq DEF n
  <2>4. QED
    BY <2>3 DEF S
<1> HIDE DEF r, rs, n, qc, qr
<1>7. ASSUME NEW i \in 1 .. n
      PROVE  /\ t = "gemini" => qr[i].name = qc[i].name
             /\ t \notin {"gemini", "ollama"} => qr[i].id = qc[i].id
  <2> DEFINE a == r[i]
             b == rs[i]
  <2>1. /\ a \in MessageBlocks /\ a.type = "tool_use" /\ b \in MessageBlocks /\ b.id = a.id
        /\ qc[i] = CallTo(t, a) /\ qr[i] = ResultTo(t, known, b)
    BY <1>2, <1>3, <1>4, <1>5 DEF Typed, called
  <2>2. PICK j \in 1 .. Len(c) : c[j] = a
    BY <1>6
  <2>3. FunctionName(known, a.id) = a.name
    <3>1. c[j] \in CallsNamed(nm)
      BY ElementOfSeq
    <3>2. a.name = nm[a.id]
      BY <2>1, <2>2, <3>1 DEF CallsNamed
    <3>3. FunctionName(GeminiDone(names, c).names, c[j].id) = nm[c[j].id]
      BY <2>1, <2>2, GeminiRemembers
    <3>4. QED
      BY <2>2, <3>2, <3>3
  <2> HIDE DEF a, b
  <2>4. /\ CallTo(t, a).name = a.name
        /\ t \notin {"gemini", "ollama"} => CallTo(t, a).id = a.id
        /\ t \notin {"gemini", "ollama"} => ResultTo(t, known, b).id = b.id
        /\ t = "gemini" => ResultTo(t, known, b).name = FunctionName(known, b.id)
    <3>1. a \in MessageBlocks /\ b \in MessageBlocks
      BY <2>1
    <3>2. /\ CallTo(t, a).name = a.name
          /\ t \notin {"gemini", "ollama"} => CallTo(t, a).id = a.id
      BY <3>1, SentTyped
    <3>3. /\ t \notin {"gemini", "ollama"} => ResultTo(t, known, b).id = b.id
          /\ t = "gemini" => ResultTo(t, known, b).name = FunctionName(known, b.id)
      BY <3>1, SentTyped
    <3>4. QED
      BY <3>2, <3>3
  <2>5. QED
    BY <2>1, <2>3, <2>4
<1>8. QED
  BY <1>1, <1>3, <1>4, <1>5, <1>7 DEF qc, qr, n, r, rs, ks, kr, called

\* The earlier result stands for the earlier call.
LEMMA EarlierPaired ==
  ASSUME NEW t \in TargetNames, NEW names, NamesTyped(names), NEW f \in {<<>>, <<EarlierResult>>}
  PROVE  LET pr == Flat(ResultSent(t, names), f)
             b  == EarlierResult
         IN  /\ pr \in Seq(MessageBlocks)
             /\ f = <<>> => pr = <<>>
             /\ f # <<>> =>
                  /\ Len(pr) = 1
                  /\ t \notin {"gemini", "ollama"} => pr[1].id = EarlierCall.id
                  /\ t = "gemini" => pr[1].name = FunctionName(names, EarlierCall.id)
<1> DEFINE k == ResultSent(t, names)
           b == EarlierResult
           pr == Flat(k, f)
<1>1. b \in MessageBlocks /\ b.type = "tool_result" /\ b.id = EarlierCall.id
  BY EarlierFacts
<1>2. Maps(k, MessageBlocks, MessageBlocks)
  <2> DEFINE R == {"tool_result"}
  <2>1. Maps(k, MessageBlocks, Typed(R))
    BY SentMaps
  <2> HIDE DEF k, R
  <2>2. QED
    BY <2>1, TypedSubset
<1>3. k[b] = <<ResultTo(t, names, b)>>
  BY <1>1 DEF ResultSent
<1>4. CASE f = <<>>
  <2>1. pr = <<>>
    BY <1>4, FlatNone
  <2>2. <<>> \in Seq(MessageBlocks)
    BY EmptySeq
  <2>3. QED
    BY <1>4, <2>1, <2>2
<1>5. CASE f = <<b>>
  <2>1. pr = <<ResultTo(t, names, b)>>
    <3> HIDE DEF k, b
    <3>1. Flat(k, <<b>>) = k[b]
      BY <1>1, <1>2, FlatOne
    <3>2. QED
      BY <1>3, <1>5, <3>1
  <2> HIDE DEF b, k
  <2>2. /\ ResultTo(t, names, b) \in MessageBlocks
        /\ t \notin {"gemini", "ollama"} => ResultTo(t, names, b).id = b.id
        /\ t = "gemini" => ResultTo(t, names, b).name = FunctionName(names, b.id)
    BY <1>1, SentTyped
  <2> DEFINE x == ResultTo(t, names, b)
  <2> HIDE DEF x
  <2>3. Len(<<x>>) = 1 /\ <<x>>[1] = x /\ (x \in MessageBlocks => <<x>> \in Seq(MessageBlocks)) /\ <<b>> # <<>>
    OBVIOUS
  <2>4. QED
    BY <1>1, <1>5, <2>1, <2>2, <2>3 DEF x, k, b
<1>6. QED
  BY <1>4, <1>5

\* Where the results of the answer's calls stand.
LEMMA RepliesAdjacent ==
  ASSUME target \in TargetNames,
         NEW x \in Seq(Wires), NEW y \in Seq(Wires), NEW z \in Seq(Wires),
         Sent = (x \o y) \o z, Len(y) >= 1,
         Of(y[Len(y)].parts, {"tool_use"}) # <<>>,
         Of(Flat(PartsOf, z), {"tool_use"}) = <<>>,
         NEW known, NamesTyped(known),
         NEW rs \in Seq(Typed(Results)), rs # <<>>, NEW after, Formed(rs, after),
         NEW k, Wiring(target, known, k),
         z = Flat(k, after), history[turn + 1] = after[1]
  PROVE  Adjacent(Len(rs))
<1>1. \A i \in 1 .. Len(z) : Sent[LastCaller + i] = z[i]
  BY LastCallerIs
<1>2. Wiring(target, known, k)
  OBVIOUS
<1>3. z = Flat(k, after)
  OBVIOUS
<1>4. Len(z) \in Nat
  BY LenProperties
<1>5. CASE target \in {"openai", "responses"}
  <2> DEFINE t == target
  <2>1. t \in {"openai", "responses"} /\ Wiring(t, known, k)
    BY <1>2, <1>5
  <2> HIDE DEF t
  <2>2. Tooled(rs, Flat(k, after))
    BY <2>1, ToolsFirst
  <2>3. \A i \in 1 .. Len(rs) : i \in 1 .. Len(z) /\ z[i].role = "tool"
    BY <1>3, <1>4, <2>2 DEF Tooled
  <2>4. \A i \in 1 .. Len(rs) : Sent[LastCaller + i].role = "tool"
    BY <1>1, <2>3
  <2>5. QED
    BY <1>5, <2>4 DEF Adjacent
<1>6. CASE target \in {"anthropic", "gemini", "ollama"}
  <2>1. SUFFICES ASSUME history[turn + 1].content[1].type = "tool_result",
                        target = "ollama" => history[turn + 1].role = "tool"
                 PROVE  Sent[LastCaller + 1].parts[1].type = "tool_result"
    BY <1>6 DEF Adjacent
  <2> DEFINE t == target
  <2>2. /\ t \in {"anthropic", "gemini", "ollama"} /\ Wiring(t, known, k)
        /\ after[1].content[1].type = "tool_result"
        /\ t = "ollama" => after[1].role = "tool"
    BY <1>2, <1>6, <2>1
  <2> HIDE DEF t
  <2>3. /\ Flat(k, after)[1].parts[1].type = "tool_result"
        /\ Len(Flat(k, after)) \in Nat /\ Len(Flat(k, after)) >= 1
    BY <2>2, ResultsNext
  <2>4. 1 \in 1 .. Len(z) /\ z[1].parts[1].type = "tool_result"
    BY <1>3, <2>3
  <2>5. Sent[LastCaller + 1] = z[1]
    BY <1>1, <2>4
  <2>6. QED
    BY <2>4, <2>5
<1>7. QED
  BY <1>5, <1>6 DEF TargetNames

\* Where RInv holds, the results are paired.
LEMMA Paired ==
  ASSUME RInv
  PROVE  ResultsPaired
<1> SUFFICES ASSUME Accepted, ~Unwritable
             PROVE  LET calls   == Of(SentParts, {"tool_use"})
                        results == Of(SentParts, {"tool_result"})
                        n       == Len(Of(history[turn].content, {"tool_use"}))
                    IN  /\ Len(calls) >= n /\ Len(results) >= n
                        /\ \A i \in 1 .. n : Refers(Latest(results, n)[i], Latest(calls, n)[i])
                        /\ Len(results) > n /\ (Len(calls) > n \/ provider = "gemini") =>
                             Refers(results[1], EarlierCall)
                        /\ n > 0 => Adjacent(n)
  BY DEF ResultsPaired
<1> DEFINE t == target
           called == {"tool_use"}
<1>1. RInv /\ AInv /\ target # "none"
  BY DEF RInv, Accepted
<1>2. t \in TargetNames
  BY <1>1, HistoryTyped, ReplayAssumption DEF TargetNames
<1>3. PICK before \in Openings, content \in {acc.content, ParseChatResponse} :
        \E after \in Replies(AssistantBlocks(content).content) :
          /\ history = before \o <<AssistantBlocks(content)>> \o after
          /\ turn = Len(before) + 1
  BY <1>1 DEF RInv, Conversed
<1>4. PICK after \in Replies(AssistantBlocks(content).content) :
        /\ history = before \o <<AssistantBlocks(content)>> \o after
        /\ turn = Len(before) + 1
  BY <1>3
<1>5. ending # "open"
  BY <1>1 DEF RInv, Conversed
<1>6. content \in Seq(ContentBlocks) /\ \E nm : CallsBy(nm, content)
  BY <1>1, <1>5, CallsAlike
<1>7. PICK nm : CallsBy(nm, content)
  BY <1>6
<1> DEFINE said == AssistantBlocks(content)
           c == said.content
           r == Of(c, called)
           n == Len(r)
<1>8. /\ said \in Sound /\ said.role = "assistant"
      /\ c \in Seq(CallsNamed(nm)) /\ c \in Seq(MessageBlocks)
  BY <1>6, <1>7, AnswerMessage
<1>9. PICK rs : Answering(rs, r) /\ Formed(rs, after)
  BY <1>4, <1>8, RepliesFormed
<1>10. rs \in Seq(Typed(Results)) /\ Len(rs) = n
  BY <1>9 DEF Answering
<1>11. after \in Seq(Asking(t)) /\ Of(Flat(ContentOf, after), Results) = rs
  BY <1>9, <1>10, FormedTold
<1>12. PICK first, rest : OpeningSplit(t, before, first, rest)
  BY OpeningsSplit
<1>13. /\ first \in Seq(Resultless(t)) /\ rest \in Seq(Asking(t)) /\ before = first \o rest
       /\ Flat(ContentOf, rest) \in {<<>>, <<EarlierResult>>}
       /\ Flat(ContentOf, rest) # <<>> /\ (first \notin Seq(Asking(t)) \/ provider = "gemini") =>
            FunctionName(NamesAfter(first), EarlierCall.id) = EarlierCall.name
  BY <1>12 DEF OpeningSplit
<1>14. /\ before \in Seq(Messages) /\ after \in Seq(Messages) /\ said \in Messages
       /\ after \in Seq(Sayable(t))
  <2>1. before \in Seq(Messages)
    BY OpeningsTyped
  <2>2. Asking(t) \subseteq Sayable(t)
    BY DEF Asking
  <2> HIDE DEF t
  <2>3. after \in Seq(Sayable(t))
    BY <1>11, <2>2, SeqWider
  <2>4. after \in Seq(Messages)
    BY <2>3, SayableTyped
  <2>5. QED
    BY <1>8, <2>1, <2>3, <2>4 DEF Sound
<1> HIDE DEF said
<1>15. history = (before \o <<said>>) \o after /\ turn = Len(before) + 1
  BY <1>4 DEF said
<1>16. said \in Sayable(t)
  <2>1. ASSUME t = "ollama" PROVE c \in Seq(WritableBlocks)
    <3>1. ASSUME NEW i \in 1 .. Len(c) PROVE c[i] \in WritableBlocks
      <4>1. PICK j \in DOMAIN Contents(history) : Contents(history)[j] = c[i]
        BY <1>14, <1>15, WithinContents
      <4>2. c[i].type = "tool_use" => c[i].body # <<>>
        BY <2>1, <4>1 DEF Unwritable
      <4>3. c[i] \in MessageBlocks
        BY <1>8, ElementOfSeq
      <4>4. QED
        BY <4>2, <4>3 DEF WritableBlocks
    <3> HIDE DEF c
    <3>2. Len(c) \in Nat /\ c = [i \in 1 .. Len(c) |-> c[i]]
      BY <1>8, LenProperties
    <3>3. QED
      BY <3>1, <3>2
  <2>2. QED
    BY <1>8, <2>1 DEF Sayable
<1> DEFINE names == NamesAfter(first)
           known == GeminiDone(names, c).names
           y == WiresOf(t, names, said)
           k == [m \in Asking(t) |-> WiresOf(t, known, m)]
           f == Flat(ContentOf, after)
           e == Flat(ContentOf, rest)
           qc == Flat(CallSent(t), c)
           qr == Flat(ResultSent(t, known), f)
           pr == Flat(ResultSent(t, names), e)
<1>17. history[turn] = said /\ (after # <<>> => history[turn + 1] = after[1])
  <2> DEFINE one == <<said>>
             p == before \o one
             m == Len(before)
  <2>1. one \in Seq(Messages) /\ Len(one) = 1 /\ one[1] = said
    BY <1>14
  <2> HIDE DEF one
  <2>2. /\ p \in Seq(Messages) /\ m \in Nat /\ Len(p) = m + 1
        /\ \A i \in 1 .. 1 : p[m + i] = one[i]
    <3>1. /\ before \o one \in Seq(Messages) /\ Len(before) \in Nat
          /\ Len(before \o one) = Len(before) + Len(one)
          /\ \A i \in 1 .. Len(one) : (before \o one)[Len(before) + i] = one[i]
      <4>1. before \in Seq(Messages) /\ one \in Seq(Messages)
        BY <1>14, <2>1
      <4>2. QED
        BY <4>1, ConcatPlaces
    <3>2. QED
      BY <2>1, <3>1
  <2>3. p[m + 1] = said
    BY <2>1, <2>2
  <2> HIDE DEF p, m
  <2>4. /\ Len(after) \in Nat
        /\ \A i \in 1 .. Len(p) : (p \o after)[i] = p[i]
        /\ \A i \in 1 .. Len(after) : (p \o after)[Len(p) + i] = after[i]
    BY <1>14, <2>2, ConcatPlaces
  <2>5. history = p \o after /\ turn = m + 1
    BY <1>15 DEF p, m, one
  <2>6. m + 1 \in 1 .. Len(p) /\ Len(p) + 1 = turn + 1
    BY <2>2, <2>5
  <2>7. history[turn] = said
    BY <2>3, <2>4, <2>5, <2>6
  <2>8. ASSUME after # <<>> PROVE 1 \in 1 .. Len(after)
    BY <1>14, <2>8, FirstOf
  <2>9. QED
    BY <2>4, <2>5, <2>6, <2>7, <2>8
<1> DEFINE wires == Converted(t, history)
<1>18. /\ NamesTyped(names) /\ NamesTyped(known)
       /\ \E x, z \in Seq(Wires) :
            /\ wires = (x \o y) \o z
            /\ z = Flat(k, after)
            /\ y \in Seq(Wires)
            /\ Of(Flat(PartsOf, y), called) = qc
            /\ Of(Flat(PartsOf, z), called) = <<>>
            /\ first = <<>> \/ first \in Seq(Asking(t)) =>
                 Of(Flat(PartsOf, x), called) = <<>>
            /\ Of(Flat(PartsOf, wires), called) = Of(Flat(PartsOf, x), called) \o qc
            /\ Of(Flat(PartsOf, wires), Results) = pr \o qr
  <2> HIDE DEF t
  <2>1. history = (first \o rest) \o <<said>> \o after
    BY <1>13, <1>15
  <2>2. said.role = "assistant"
    BY <1>8 DEF said
  <2>3. /\ first \in Seq(Resultless(t)) /\ rest \in Seq(Asking(t)) /\ after \in Seq(Asking(t))
        /\ said \in Sayable(t) /\ t \in TargetNames
    BY <1>2, <1>11, <1>13, <1>16
  <2> DEFINE h == (first \o rest) \o <<said>> \o after
  <2>4. /\ NamesTyped(names) /\ NamesTyped(known)
        /\ \E x, z \in Seq(Wires) :
             /\ Converted(t, h) = (x \o y) \o z
             /\ z = Flat(k, after)
             /\ y \in Seq(Wires)
             /\ Of(Flat(PartsOf, y), {"tool_use"}) = qc
             /\ Of(Flat(PartsOf, z), {"tool_use"}) = <<>>
             /\ first = <<>> \/ first \in Seq(Asking(t)) =>
                  Of(Flat(PartsOf, x), {"tool_use"}) = <<>>
             /\ Of(Flat(PartsOf, Converted(t, h)), {"tool_use"})
                  = Of(Flat(PartsOf, x), {"tool_use"}) \o qc
             /\ Of(Flat(PartsOf, Converted(t, h)), {"tool_result"}) = pr \o qr
    BY <2>2, <2>3, WholeTold
  <2>5. wires = Converted(t, h)
    BY <2>1
  <2> HIDE DEF h, names, known, y, k, qc, pr, qr, wires
  <2>6. QED
    BY <2>4, <2>5 DEF Results
<1>19. PICK x \in Seq(Wires), z \in Seq(Wires) :
            /\ wires = (x \o y) \o z
            /\ z = Flat(k, after)
            /\ y \in Seq(Wires)
            /\ Of(Flat(PartsOf, y), called) = qc
            /\ Of(Flat(PartsOf, z), called) = <<>>
            /\ first = <<>> \/ first \in Seq(Asking(t)) =>
                 Of(Flat(PartsOf, x), called) = <<>>
            /\ Of(Flat(PartsOf, wires), called) = Of(Flat(PartsOf, x), called) \o qc
            /\ Of(Flat(PartsOf, wires), Results) = pr \o qr
  BY <1>18
<1> DEFINE px == Of(Flat(PartsOf, x), called)
<1>20. SentParts = Flat(PartsOf, wires)
  <2>1. Sent = wires
    BY DEF Sent
  <2>2. wires \in Seq(Wires)
    <3> HIDE DEF wires, y
    <3>1. x \o y \in Seq(Wires)
      BY <1>19, ConcatProperties
    <3>2. QED
      BY <1>19, <3>1, ConcatProperties
  <2> HIDE DEF wires
  <2>3. \A i \in 1 .. Len(wires) : PartsOf[wires[i]] = wires[i].parts
    BY <2>2, ElementOfSeq DEF PartsOf
  <2>4. QED
    BY <2>1, <2>3 DEF SentParts, Flat
<1>21. /\ qc \in Seq(MessageBlocks) /\ qr \in Seq(MessageBlocks)
       /\ n \in Nat /\ Len(qc) = n /\ Len(qr) = n
       /\ \A i \in 1 .. n : /\ t = "gemini" => qr[i].name = qc[i].name
                            /\ t \notin {"gemini", "ollama"} => qr[i].id = qc[i].id
  <2>1. f \in Seq(MessageBlocks)
    <3>1. Maps(ContentOf, Messages, MessageBlocks)
      BY DEF Maps, ContentOf, Messages
    <3>2. QED
      BY <1>14, <3>1, FlatType
  <2>2. Answering(Of(f, Results), r) /\ NamesTyped(known) /\ known = GeminiDone(names, c).names
    BY <1>9, <1>11, <1>18
  <2>3. c \in Seq(MessageBlocks) /\ c \in Seq(CallsNamed(nm))
    BY <1>8 DEF said
  <2> HIDE DEF t, f, c, known, names
  <2>4. QED
    BY <1>2, <2>1, <2>2, <2>3, CallsPaired
<1>22. /\ pr \in Seq(MessageBlocks)
       /\ e = <<>> => pr = <<>>
       /\ e # <<>> =>
            /\ Len(pr) = 1
            /\ t \notin {"gemini", "ollama"} => pr[1].id = EarlierCall.id
            /\ t = "gemini" => pr[1].name = FunctionName(names, EarlierCall.id)
  <2>1. e \in {<<>>, <<EarlierResult>>} /\ NamesTyped(names)
    BY <1>13, <1>18
  <2> HIDE DEF t, e, names
  <2>2. QED
    BY <1>2, <2>1, EarlierPaired
<1>23. px \in Seq(MessageBlocks)
  BY PartsFacts, OfFacts
<1> DEFINE calls == Of(SentParts, called)
           results == Of(SentParts, Results)
<1>24. calls = px \o qc /\ results = pr \o qr
  BY <1>19, <1>20
<1>25. \A b : Refers(b, EarlierCall) <=>
              /\ t = "gemini" => b.name = EarlierCall.name
              /\ t \notin {"gemini", "ollama"} => b.id = EarlierCall.id
  BY DEF Refers
<1>26. \A b, d : (t = "gemini" => b.name = d.name) /\ (t \notin {"gemini", "ollama"} => b.id = d.id)
                  => Refers(b, d)
  BY DEF Refers
<1>27. n > 0 => Adjacent(n)
  <2>1. SUFFICES ASSUME n > 0 PROVE Adjacent(n)
    OBVIOUS
  <2>2. rs # <<>> /\ qc # <<>>
    <3>1. Len(<<>>) = 0
      OBVIOUS
    <3> HIDE DEF n, qc
    <3>2. QED
      BY <1>10, <1>21, <2>1, <3>1
  <2>3. after # <<>>
    BY <1>9, <1>10, <2>2, FormedFirst
  <2>4. /\ Len(y) \in Nat /\ Len(y) >= 1 /\ Of(y[Len(y)].parts, called) # <<>>
    <3>1. said.role = "assistant" /\ Of(Flat(PartsOf, y), called) # <<>>
      BY <1>8, <1>19, <2>2 DEF said
    <3> HIDE DEF t, names
    <3>2. QED
      BY <1>2, <1>16, <1>18, <3>1, LastSays
  <2>5. Sent = (x \o y) \o z
    BY <1>19 DEF Sent
  <2>6. Adjacent(Len(rs))
    <3>1. Of(y[Len(y)].parts, {"tool_use"}) # <<>> /\ Of(Flat(PartsOf, z), {"tool_use"}) = <<>>
      BY <1>19, <2>4
    <3>2. z = Flat(k, after) /\ Wiring(target, known, k)
      BY <1>19 DEF Wiring
    <3>3. y \in Seq(Wires) /\ target \in TargetNames /\ NamesTyped(known) /\ history[turn + 1] = after[1]
      BY <1>2, <1>17, <1>18, <1>19, <2>3
    <3> HIDE DEF y, k, known
    <3>4. QED
      BY <1>9, <1>10, <2>2, <2>4, <2>5, <3>1, <3>2, <3>3, RepliesAdjacent
  <2>7. QED
    BY <1>10, <2>6
<1> HIDE DEF qc, qr, pr, px, e, f, names, known, n
<1>28. /\ Len(px) \in Nat /\ Len(calls) = Len(px) + n
       /\ \A i \in 1 .. n : Latest(calls, n)[i] = qc[i]
  <2>1. /\ Len(qc) \in Nat /\ Len(px) \in Nat /\ Len(px \o qc) = Len(px) + Len(qc)
        /\ \A i \in 1 .. Len(qc) : Latest(px \o qc, Len(qc))[i] = qc[i]
    <3>1. px \in Seq(MessageBlocks) /\ qc \in Seq(MessageBlocks)
      BY <1>21, <1>23
    <3> HIDE <1>21, <1>23
    <3>2. QED
      BY <3>1, LatestOf
  <2> HIDE DEF calls
  <2>2. QED
    BY <1>21, <1>24, <2>1
<1>29. /\ Len(pr) \in Nat /\ Len(results) = Len(pr) + n
       /\ \A i \in 1 .. n : Latest(results, n)[i] = qr[i]
       /\ \A i \in 1 .. Len(pr) : results[i] = pr[i]
  <2>1. /\ Len(qr) \in Nat /\ Len(pr) \in Nat /\ Len(pr \o qr) = Len(pr) + Len(qr)
        /\ \A i \in 1 .. Len(qr) : Latest(pr \o qr, Len(qr))[i] = qr[i]
    <3>1. pr \in Seq(MessageBlocks) /\ qr \in Seq(MessageBlocks)
      BY <1>21, <1>22
    <3>2. QED
      BY <3>1, LatestOf
  <2>2. \A i \in 1 .. Len(pr) : (pr \o qr)[i] = pr[i]
    BY <1>21, <1>22, ConcatPlaces
  <2> HIDE DEF results
  <2>3. QED
    BY <1>21, <1>24, <2>1, <2>2
<1>30. Len(calls) >= n /\ Len(results) >= n
  <2> HIDE DEF calls, results
  <2>1. QED
    BY <1>21, <1>28, <1>29
<1>31. \A i \in 1 .. n : Refers(Latest(results, n)[i], Latest(calls, n)[i])
  <2> HIDE DEF calls, results, t
  <2>1. QED
    BY <1>21, <1>26, <1>28, <1>29
<1>32. ASSUME Len(results) > n, Len(calls) > n \/ provider = "gemini"
       PROVE  Refers(results[1], EarlierCall)
  <2> HIDE DEF calls, results
  <2>1. Len(pr) >= 1
    BY <1>21, <1>29, <1>32
  <2>2. e # <<>>
    <3>1. Len(<<>>) = 0
      OBVIOUS
    <3>2. QED
      BY <1>22, <2>1, <3>1
  <2>3. Len(pr) = 1 /\ results[1] = pr[1]
    <3>1. 1 \in 1 .. Len(pr)
      BY <1>29, <2>1
    <3>2. QED
      BY <1>22, <1>29, <2>2, <3>1
  <2>4. first \notin Seq(Asking(t)) \/ provider = "gemini"
    <3>1. CASE Len(calls) > n
      <4>1. Len(px) > 0
        BY <1>21, <1>28, <3>1
      <4>2. px # <<>>
        <5>1. Len(<<>>) = 0
          OBVIOUS
        <5>2. QED
          BY <4>1, <5>1
      <4>3. QED
        BY <1>19, <4>2 DEF px
    <3>2. QED
      BY <1>32, <3>1
  <2>5. FunctionName(names, EarlierCall.id) = EarlierCall.name
    BY <1>13, <2>2, <2>4 DEF e, names
  <2> HIDE DEF t
  <2>6. QED
    BY <1>22, <1>25, <2>2, <2>3, <2>5
<1>33. n = Len(Of(history[turn].content, {"tool_use"}))
  BY <1>17 DEF n
<1>34. QED
  BY <1>27, <1>30, <1>31, <1>32, <1>33 DEF Results

\* Each call of an answer that is replied to gets its result, under the name by
\* which the provider tells calls apart and next to the calls, however the answer
\* was cut into pieces, whatever came before it, and with any number of blocks.
THEOREM ResultsFollowCalls == ReplaySpec => []ResultsPaired
<1>1. RInv => ResultsPaired
  BY Paired
<1>2. QED
  BY <1>1, RInvHolds, PTL

-----------------------------------------------------------------------------
(* What a conversation says, seen block by block *)

\* The text of a block.
Texting == [b \in MessageBlocks |-> IF b.type = "text" THEN b.body ELSE <<>>]

\* The call that a block is.
Calling == [b \in MessageBlocks |-> IF b.type = "tool_use" THEN <<Meaning(b)>> ELSE <<>>]

\* The image or the document that a block has.
Showing ==
  [b \in MessageBlocks |->
     IF b.type \in {"image", "document"} /\ b.data # <<>> THEN <<Meaning(b)>> ELSE <<>>]

\* What a result says.
Outcome(b, body) == [failed |-> b.failed, body |-> body]

\* The result that a block is.
Telling ==
  [b \in MessageBlocks |-> IF b.type = "tool_result" THEN <<Outcome(b, b.body)>> ELSE <<>>]

\* The result that t is to be told of.
ToTell(t) ==
  [b \in MessageBlocks |->
     IF b.type = "tool_result"
     THEN <<Outcome(b, IF t = "anthropic" THEN b.body ELSE Content(b).body)>> ELSE <<>>]

\* The types of the model's thinking, which is not seen but by Anthropic.
Thoughts == {"thinking", "redacted_thinking"}

\* Nothing of any block.
Unseen == [b \in MessageBlocks |-> <<>>]

Outcomes == [failed : BOOLEAN, body : Strings]

\* The meaning of a block is a block of its type.
LEMMA MeaningTyped ==
  ASSUME NEW b \in MessageBlocks
  PROVE  /\ Meaning(b) \in MessageBlocks /\ Meaning(b).type = b.type
         /\ Meaning(b).name = b.name /\ Meaning(b).data = b.data /\ Meaning(b).failed = b.failed
         /\ Meaning(b).id = IF target \in {"gemini", "ollama"} THEN 0 ELSE b.id
         /\ Meaning(b).body = IF b.type = "tool_use" /\ b.body = NoArguments(b.name)
                              THEN <<>> ELSE b.body
         /\ Meaning(b).signature = IF b.type = "tool_use" /\ target # "gemini"
                                   THEN <<>> ELSE b.signature
<1> DEFINE id == IF target \in {"gemini", "ollama"} THEN 0 ELSE b.id
           body == IF b.type = "tool_use" /\ b.body = NoArguments(b.name) THEN <<>> ELSE b.body
           signature == IF b.type = "tool_use" /\ target # "gemini" THEN <<>> ELSE b.signature
<1>1. id \in Nat /\ body \in Strings /\ signature \in Strings
  BY Texts DEF MessageBlocks
<1>2. Meaning(b) = [b EXCEPT !.id = id, !.body = body, !.signature = signature]
  BY DEF Meaning
<1> HIDE DEF id, body, signature
<1>3. /\ Meaning(b) \in MessageBlocks /\ Meaning(b).type = b.type
      /\ Meaning(b).name = b.name /\ Meaning(b).data = b.data /\ Meaning(b).failed = b.failed
      /\ Meaning(b).id = id /\ Meaning(b).body = body /\ Meaning(b).signature = signature
  BY <1>1, <1>2 DEF MessageBlocks
<1>4. QED
  BY <1>3 DEF id, body, signature

\* What each way of looking at a block gives.
LEMMA SeenMaps ==
  /\ Maps(Texting, MessageBlocks, Nat \X Nat)
  /\ Maps(Calling, MessageBlocks, MessageBlocks)
  /\ Maps(Showing, MessageBlocks, MessageBlocks)
  /\ Maps(Telling, MessageBlocks, Outcomes)
  /\ \A t : Maps(ToTell(t), MessageBlocks, Outcomes)
  /\ \A B : Maps(Unseen, MessageBlocks, B)
<1>1. Maps(Texting, MessageBlocks, Nat \X Nat)
  <2>1. SUFFICES ASSUME NEW b \in MessageBlocks PROVE Texting[b] \in Seq(Nat \X Nat)
    BY DEF Maps
  <2>2. b.body \in Seq(Nat \X Nat) /\ <<>> \in Seq(Nat \X Nat)
    BY EmptySeq DEF MessageBlocks, Strings
  <2>3. Texting[b] \in {b.body, <<>>}
    BY DEF Texting
  <2>4. QED
    BY <2>2, <2>3
<1>2. /\ Maps(Calling, MessageBlocks, MessageBlocks)
      /\ Maps(Showing, MessageBlocks, MessageBlocks)
  <2>1. SUFFICES ASSUME NEW b \in MessageBlocks
                 PROVE  Calling[b] \in Seq(MessageBlocks) /\ Showing[b] \in Seq(MessageBlocks)
    BY DEF Maps
  <2>2. <<Meaning(b)>> \in Seq(MessageBlocks) /\ <<>> \in Seq(MessageBlocks)
    BY MeaningTyped, OneBlock
  <2>3. Calling[b] \in {<<Meaning(b)>>, <<>>} /\ Showing[b] \in {<<Meaning(b)>>, <<>>}
    BY DEF Calling, Showing
  <2>4. QED
    BY <2>2, <2>3
<1>3. /\ Maps(Telling, MessageBlocks, Outcomes)
      /\ \A t : Maps(ToTell(t), MessageBlocks, Outcomes)
  <2>1. SUFFICES ASSUME NEW b \in MessageBlocks, NEW t
                 PROVE  Telling[b] \in Seq(Outcomes) /\ ToTell(t)[b] \in Seq(Outcomes)
    BY DEF Maps
  <2>2. \A body \in Strings : Outcome(b, body) \in Outcomes
    BY DEF Outcome, Outcomes, MessageBlocks
  <2>3. b.body \in Strings /\ Content(b).body \in Strings
    BY ContentTyped DEF MessageBlocks
  <2>4. \A x \in Outcomes : <<x>> \in Seq(Outcomes)
    OBVIOUS
  <2>5. <<Outcome(b, b.body)>> \in Seq(Outcomes) /\ <<Outcome(b, Content(b).body)>> \in Seq(Outcomes)
        /\ <<>> \in Seq(Outcomes)
    BY <2>2, <2>3, <2>4, EmptySeq
  <2>6. /\ Telling[b] \in {<<Outcome(b, b.body)>>, <<>>}
        /\ ToTell(t)[b] \in {<<Outcome(b, b.body)>>, <<Outcome(b, Content(b).body)>>, <<>>}
    BY DEF Telling, ToTell
  <2>7. QED
    BY <2>5, <2>6
<1>4. \A B : Maps(Unseen, MessageBlocks, B)
  BY EmptySeq DEF Maps, Unseen
<1>5. QED
  BY <1>1, <1>2, <1>3, <1>4

\* Texts, calls and media of some blocks, as Flat.
LEMMA SeenIsFlat ==
  ASSUME NEW c \in Seq(MessageBlocks)
  PROVE  /\ TextOf(c) = Flat(Texting, c)
         /\ CallsOf(c) = Flat(Calling, c)
         /\ MediaOf(c) = Flat(Showing, c)
<1>1. TextOf(c) = Flat(Texting, c)
  <2> DEFINE r == Of(c, {"text"})
             k == [b \in MessageBlocks |-> b.body]
  <2>1. r \in Seq(MessageBlocks)
    BY OfFacts
  <2>2. Flat(k, r) = Flat(Texting, c)
    <3>1. Maps(k, MessageBlocks, Nat \X Nat)
      BY DEF Maps, MessageBlocks, Strings
    <3>2. \A b \in MessageBlocks : Texting[b] = IF b.type \in {"text"} THEN k[b] ELSE <<>>
      BY DEF Texting
    <3> HIDE DEF k
    <3>3. QED
      BY <3>1, <3>2, SelThen
  <2>3. TextOf(c) = FlattenSeq([i \in 1 .. Len(r) |-> r[i].body])
    BY DEF TextOf, Joined, Words, Block
  <2> HIDE DEF r
  <2>4. \A i \in 1 .. Len(r) : k[r[i]] = r[i].body
    <3>1. \A i \in 1 .. Len(r) : r[i] \in MessageBlocks
      BY <2>1, ElementOfSeq
    <3>2. QED
      BY <3>1
  <2> HIDE DEF k
  <2>5. [i \in 1 .. Len(r) |-> r[i].body] = [i \in 1 .. Len(r) |-> k[r[i]]]
    BY <2>4
  <2>6. QED
    BY <2>2, <2>3, <2>5 DEF Flat
<1> DEFINE g == [b \in MessageBlocks |-> Meaning(b)]
<1>2. CallsOf(c) = Flat(Calling, c)
  <2> DEFINE called == {"tool_use"}
             k == Calling
             r == Of(c, called)
  <2>1. \A b \in MessageBlocks : k[b] = IF b.type \in called THEN <<g[b]>> ELSE <<>>
    BY DEF Calling
  <2> HIDE DEF g, k, called
  <2>2. /\ Flat(k, c) = [i \in 1 .. Len(r) |-> g[r[i]]]
        /\ \A i \in 1 .. Len(r) : r[i] \in MessageBlocks
    <3>1. Each(called, g, k, c)
      BY <2>1, EachIs
    <3>2. QED
      BY <3>1 DEF Each
  <2> HIDE DEF r
  <2>3. \A i \in 1 .. Len(r) : g[r[i]] = Meaning(r[i])
    BY <2>2 DEF g
  <2>4. Meanings(r) = [i \in 1 .. Len(r) |-> g[r[i]]]
    BY <2>3 DEF Meanings
  <2>5. QED
    BY <2>2, <2>4 DEF CallsOf, r, called, k
<1>3. MediaOf(c) = Flat(Showing, c)
  <2> DEFINE M == {"image", "document"}
             s == Of(c, M)
             r == Sourced(s)
             k == [b \in MessageBlocks |-> IF HasSource(b) THEN <<b>> ELSE <<>>]
             l == [b \in MessageBlocks |-> IF b.type \in M THEN k[b] ELSE <<>>]
             e == [b \in MessageBlocks |-> <<g[b]>>]
  <2>1. s \in Seq(MessageBlocks)
    BY OfFacts
  <2>2. r = Flat(k, s)
    <3>1. \A b \in MessageBlocks : k[b] = IF HasSource(b) THEN <<b>> ELSE <<>>
      OBVIOUS
    <3> HIDE DEF k, s
    <3> DEFINE w == [b \in MessageBlocks |-> IF b.body # <<>> THEN <<b>> ELSE <<>>]
    <3>2. \A b \in MessageBlocks : w[b] = IF b.body # <<>> THEN <<b>> ELSE <<>>
      OBVIOUS
    <3> HIDE DEF w
    <3>3. QED
      BY <2>1, <3>1, <3>2, KeptIsFlat
  <2>3. Maps(k, MessageBlocks, MessageBlocks) /\ Maps(l, MessageBlocks, MessageBlocks)
    <3>1. SUFFICES ASSUME NEW b \in MessageBlocks
                   PROVE  k[b] \in Seq(MessageBlocks) /\ l[b] \in Seq(MessageBlocks)
      BY DEF Maps
    <3>2. <<b>> \in Seq(MessageBlocks) /\ <<>> \in Seq(MessageBlocks)
      BY OneBlock
    <3>3. k[b] \in {<<b>>, <<>>} /\ l[b] \in {<<b>>, <<>>}
      OBVIOUS
    <3>4. QED
      BY <3>2, <3>3
  <2>4. Flat(k, s) = Flat(l, c)
    <3>1. \A b \in MessageBlocks : l[b] = IF b.type \in M THEN k[b] ELSE <<>>
      OBVIOUS
    <3> HIDE DEF k, l, M
    <3>2. QED
      BY <2>3, <3>1, SelThen
  <2>5. \A b \in MessageBlocks : Showing[b] = Flat(e, l[b])
    <3>1. SUFFICES ASSUME NEW b \in MessageBlocks PROVE Showing[b] = Flat(e, l[b])
      OBVIOUS
    <3>2. Maps(e, MessageBlocks, MessageBlocks) /\ e[b] = <<Meaning(b)>>
      BY MeaningTyped, OneBlock DEF Maps
    <3>3. l[b] = IF b.type \in M /\ b.data # <<>> THEN <<b>> ELSE <<>>
      BY DEF HasSource
    <3>4. Showing[b] = IF b.type \in M /\ b.data # <<>> THEN <<Meaning(b)>> ELSE <<>>
      BY DEF Showing
    <3> HIDE DEF e, l, M
    <3>5. Flat(e, <<b>>) = e[b] /\ Flat(e, <<>>) = <<>>
      BY <3>2, FlatOne, FlatNone
    <3>6. QED
      BY <3>2, <3>3, <3>4, <3>5
  <2>6. Maps(e, MessageBlocks, MessageBlocks)
    BY MeaningTyped, OneBlock DEF Maps
  <2>7. r \in Seq(MessageBlocks)
    BY <2>2, <2>4, <2>3, FlatType
  <2>8. Flat(e, r) = [i \in 1 .. Len(r) |-> g[r[i]]]
    <3>1. \A b \in MessageBlocks : e[b] = <<g[b]>>
      OBVIOUS
    <3> HIDE DEF e, g, r
    <3>2. QED
      BY <2>7, <3>1, FlatEach
  <2>9. Meanings(r) = Flat(e, r)
    <3>1. \A i \in 1 .. Len(r) : r[i] \in MessageBlocks
      BY <2>7, ElementOfSeq
    <3> HIDE DEF r, e
    <3>2. \A i \in 1 .. Len(r) : g[r[i]] = Meaning(r[i])
      BY <3>1
    <3> HIDE DEF g
    <3>3. QED
      BY <2>8, <3>2 DEF Meanings
  <2>10. Flat(e, Flat(l, c)) = Flat(Showing, c)
    <3> HIDE DEF e, l
    <3>1. QED
      BY <2>3, <2>5, <2>6, FlatFlat
  <2>11. MediaOf(c) = Meanings(r)
    BY DEF MediaOf
  <2>12. QED
    BY <2>2, <2>4, <2>9, <2>10, <2>11
<1>4. QED
  BY <1>1, <1>2, <1>3

-----------------------------------------------------------------------------
(* What a target is told of a conversation, seen message by message *)

\* A medium has a source only, and a result says something or that it is a
\* failure; there is no document where t would refuse it.
Clear(t) ==
  {b \in MessageBlocks :
     /\ b.type \in {"image", "document"} => b.name = 0 /\ b.signature = <<>>
     /\ b.type = "tool_result" => b.failed \/ b.body # <<>>
     /\ b.type = "document" => t \notin {"openai", "responses", "ollama"}}

\* A message of such blocks.
Speakable(t) == {m \in Sayable(t) : m.content \in Seq(Clear(t))}

\* What f sees of a message on the wire is what g sees of the message.
Kept(t, f, g) ==
  \A names : NamesTyped(names) => \A m \in Speakable(t) :
    Flat(f, Flat(PartsOf, WiresOf(t, names, m))) = Flat(g, m.content)

\* What can be spoken is sayable.
LEMMA SpeakableTyped ==
  ASSUME NEW t
  PROVE  /\ Clear(t) \subseteq MessageBlocks
         /\ \A c \in Seq(Clear(t)) : c \in Seq(MessageBlocks)
         /\ \A m \in Speakable(t) : /\ m \in Sayable(t) /\ m \in Sound /\ m \in Messages
                                    /\ m.content \in Seq(Clear(t))
                                    /\ m.content \in Seq(MessageBlocks)
         /\ \A h \in Seq(Speakable(t)) : h \in Seq(Sayable(t)) /\ h \in Seq(Messages)
<1>1. Clear(t) \subseteq MessageBlocks
  BY DEF Clear
<1>2. \A c \in Seq(Clear(t)) : c \in Seq(MessageBlocks)
  <2> DEFINE C == Clear(t)
  <2> HIDE DEF C
  <2>1. QED
    BY <1>1, SeqWider DEF C
<1>3. \A m \in Speakable(t) : m \in Sayable(t) /\ m \in Sound /\ m \in Messages /\ m.content \in Seq(Clear(t))
  BY SayableTyped DEF Speakable
<1>4. \A h \in Seq(Speakable(t)) : h \in Seq(Sayable(t)) /\ h \in Seq(Messages)
  <2>1. Speakable(t) \subseteq Sayable(t)
    BY DEF Speakable
  <2> DEFINE P == Speakable(t)
             S == Sayable(t)
  <2> HIDE DEF P, S
  <2>2. \A h \in Seq(P) : h \in Seq(S)
    BY <2>1, SeqWider DEF P, S
  <2>3. \A h \in Seq(S) : h \in Seq(Messages)
    BY SayableTyped DEF S
  <2>4. QED
    BY <2>2, <2>3 DEF P, S
<1>5. QED
  BY <1>1, <1>2, <1>3, <1>4

\* So it is of the whole conversation.
LEMMA KeptOfAll ==
  ASSUME NEW t \in TargetNames, NEW B, NEW f, Maps(f, MessageBlocks, B),
         NEW g, Maps(g, MessageBlocks, B), Kept(t, f, g), NEW h \in Seq(Speakable(t))
  PROVE  Flat(f, Flat(PartsOf, Converted(t, h))) = Flat(g, Flat(ContentOf, h))
<1> DEFINE M == Speakable(t)
           S == Sayable(t)
           Says(s) == Flat(f, Flat(PartsOf, Converted(t, s))) = Flat(g, Flat(ContentOf, s))
           T == {s \in Seq(M) : Says(s)}
<1>1. \A s \in Seq(M) : s \in Seq(S) /\ s \in Seq(Messages)
  BY SpeakableTyped
<1>2. Maps(ContentOf, Messages, MessageBlocks)
  BY DEF Maps, ContentOf, Messages
<1>3. ASSUME NEW m \in M PROVE m \in S /\ m \in Messages /\ m.content \in Seq(MessageBlocks)
  BY <1>3, SpeakableTyped
<1>4. Says(<<>>)
  <2>1. Message("user", <<>>) \in S /\ <<>> \in Seq(S)
    <3>1. <<>> \in Seq(MessageBlocks) /\ <<>> \in Seq(WritableBlocks) /\ \A K : <<>> \in Seq(Typed(K))
      BY EmptySeq
    <3>2. Message("user", <<>>) \in S
      BY <3>1, MessageTyped DEF Sayable, Sound, Message
    <3>3. QED
      BY <3>2, EmptySeq
  <2>2. Converted(t, <<>>) = <<>>
    BY <2>1, ConvertedStep
  <2>3. Flat(PartsOf, <<>>) = <<>> /\ Flat(ContentOf, <<>>) = <<>>
        /\ Flat(f, <<>>) = <<>> /\ Flat(g, <<>>) = <<>>
    BY FlatNone
  <2>4. QED
    BY <2>2, <2>3
<1>5. ASSUME NEW s \in Seq(M), NEW m \in M, s \in T PROVE Append(s, m) \in T
  <2> DEFINE names == NamesAfter(s)
             w == WiresOf(t, names, m)
             x == Converted(t, s)
             p == Flat(PartsOf, x)
             q == Flat(PartsOf, w)
             c == Flat(ContentOf, s)
  <2>1. /\ s \in Seq(S) /\ s \in Seq(Messages) /\ m \in S /\ m \in Messages
        /\ m.content \in Seq(MessageBlocks)
    BY <1>1, <1>3
  <2>2. NamesTyped(names) /\ x \in Seq(Wires) /\ Converted(t, Append(s, m)) = x \o w
    BY <2>1, NamesAfterFacts, ConvertedStep
  <2>3. Told(t, names, m)
    BY <2>1, <2>2, AllTold
  <2>4. w \in Seq(Wires)
    BY <2>3 DEF Told
  <2>5. Flat(f, q) = Flat(g, m.content)
    <3>1. m \in Speakable(t) /\ NamesTyped(names)
      BY <2>2
    <3> HIDE DEF names
    <3>2. QED
      BY <3>1 DEF Kept
  <2>6. Flat(f, p) = Flat(g, c)
    BY <1>5
  <2>7. Flat(ContentOf, Append(s, m)) = c \o m.content
    <3>1. Flat(ContentOf, Append(s, m)) = Flat(ContentOf, s) \o ContentOf[m]
      BY <1>2, <2>1, FlatAppend
    <3>2. ContentOf[m] = m.content
      BY <2>1 DEF ContentOf
    <3>3. QED
      BY <3>1, <3>2
  <2>8. c \in Seq(MessageBlocks)
    BY <1>2, <2>1, FlatType
  <2> HIDE DEF x, w, names, c
  <2>9. /\ Flat(PartsOf, x \o w) = p \o q
        /\ p \in Seq(MessageBlocks) /\ q \in Seq(MessageBlocks)
    BY <2>2, <2>4, PartsFacts
  <2> HIDE DEF p, q
  <2>10. Flat(f, p \o q) = Flat(f, p) \o Flat(f, q)
    <3>1. Joins(f, MessageBlocks)
      BY FlatJoins
    <3>2. QED
      BY <2>9, <3>1 DEF Joins
  <2>11. Flat(g, c \o m.content) = Flat(g, c) \o Flat(g, m.content)
    <3>1. Joins(g, MessageBlocks)
      BY FlatJoins
    <3>2. QED
      BY <2>1, <2>8, <3>1 DEF Joins
  <2>12. Says(Append(s, m))
    BY <2>2, <2>5, <2>6, <2>7, <2>9, <2>10, <2>11
  <2> HIDE DEF Says, M
  <2>13. QED
    BY <2>12, AppendProperties
<1>6. \A s \in Seq(M) : s \in T
  <2>1. <<>> \in T
    <3> HIDE DEF Says
    <3>1. QED
      BY <1>4, EmptySeq
  <2> HIDE DEF T, M
  <2>2. QED
    BY <1>5, <2>1, SeqInduction, Z3
<1>7. Says(h)
  <2> HIDE DEF Says
  <2>1. QED
    BY <1>6
<1>8. QED
  BY <1>7

\* A block is its fields.
LEMMA SameBlock ==
  ASSUME NEW x \in MessageBlocks, NEW y \in MessageBlocks,
         x.type = y.type, x.id = y.id, x.name = y.name, x.body = y.body, x.data = y.data,
         x.signature = y.signature, x.failed = y.failed
  PROVE  x = y
BY DEF MessageBlocks

\* A call means to the target what it meant, and a result says what it is to say.
LEMMA SentMeans ==
  ASSUME NEW t \in TargetNames, NEW names, NamesTyped(names), NEW b \in MessageBlocks
  PROVE  /\ t = target /\ b.type = "tool_use" => Meaning(CallTo(t, b)) = Meaning(b)
         /\ b.type = "tool_result" =>
              /\ ResultTo(t, names, b).failed = b.failed
              /\ ResultTo(t, names, b).body = IF t = "anthropic" THEN b.body ELSE Content(b).body
<1>1. ASSUME t = target, b.type = "tool_use" PROVE Meaning(CallTo(t, b)) = Meaning(b)
  <2> DEFINE x == CallTo(t, b)
             id == IF target \in {"gemini", "ollama"} THEN 0 ELSE b.id
  <2>1. /\ x \in MessageBlocks /\ x.type = b.type /\ x.name = b.name
        /\ target \notin {"gemini", "ollama"} => x.id = b.id
    BY <1>1, SentTyped
  <2>2. x.body = b.body /\ x.data = b.data /\ x.failed = b.failed
        /\ (target = "gemini" => x.signature = b.signature)
    BY <1>1 DEF CallTo, FunctionCall, Bare, MessageBlocks
  <2> HIDE DEF x
  <2>3. /\ Meaning(x) \in MessageBlocks /\ Meaning(x).type = x.type
        /\ Meaning(x).name = x.name /\ Meaning(x).data = x.data /\ Meaning(x).failed = x.failed
        /\ Meaning(x).id = IF target \in {"gemini", "ollama"} THEN 0 ELSE x.id
        /\ Meaning(x).body = IF x.type = "tool_use" /\ x.body = NoArguments(x.name)
                             THEN <<>> ELSE x.body
        /\ Meaning(x).signature = IF x.type = "tool_use" /\ target # "gemini"
                                  THEN <<>> ELSE x.signature
    BY <2>1, MeaningTyped
  <2>4. /\ Meaning(b) \in MessageBlocks /\ Meaning(b).type = b.type
        /\ Meaning(b).name = b.name /\ Meaning(b).data = b.data /\ Meaning(b).failed = b.failed
        /\ Meaning(b).id = IF target \in {"gemini", "ollama"} THEN 0 ELSE b.id
        /\ Meaning(b).body = IF b.type = "tool_use" /\ b.body = NoArguments(b.name)
                             THEN <<>> ELSE b.body
        /\ Meaning(b).signature = IF b.type = "tool_use" /\ target # "gemini"
                                  THEN <<>> ELSE b.signature
    BY MeaningTyped
  <2> DEFINE y == Meaning(x)
             z == Meaning(b)
  <2>5. /\ y \in MessageBlocks /\ z \in MessageBlocks
        /\ y.type = z.type /\ y.id = z.id /\ y.name = z.name /\ y.body = z.body
        /\ y.data = z.data /\ y.signature = z.signature /\ y.failed = z.failed
    BY <1>1, <2>1, <2>2, <2>3, <2>4
  <2> HIDE DEF y, z
  <2>6. y = z
    BY <2>5, SameBlock
  <2>7. QED
    BY <2>6 DEF x, y, z
<1>2. ASSUME b.type = "tool_result"
      PROVE  /\ ResultTo(t, names, b).failed = b.failed
             /\ ResultTo(t, names, b).body = IF t = "anthropic" THEN b.body ELSE Content(b).body
  <2> DEFINE x == Content(b)
  <2>1. x \in MessageBlocks /\ x.failed = b.failed
    BY ContentTyped
  <2>2. ConvertBlock(b).body = b.body /\ ConvertBlock(b).failed = b.failed
    BY ConvertedBlock
  <2> HIDE DEF x
  <2>3. \A n, i : /\ [x EXCEPT !.id = i, !.name = n].failed = x.failed
                  /\ [x EXCEPT !.id = i, !.name = n].body = x.body
                  /\ [x EXCEPT !.id = i].failed = x.failed
                  /\ [x EXCEPT !.id = i].body = x.body
    BY <2>1 DEF MessageBlocks
  <2>4. CASE t = "gemini"
    BY <2>1, <2>3, <2>4 DEF ResultTo, GeminiResult, x
  <2>5. CASE t = "ollama"
    BY <2>1, <2>3, <2>5 DEF ResultTo, BareResult, x
  <2>6. CASE t = "anthropic"
    BY <2>2, <2>6 DEF ResultTo
  <2>7. CASE t \notin {"gemini", "ollama", "anthropic"}
    BY <2>1, <2>7 DEF ResultTo, x
  <2>8. QED
    BY <2>4, <2>5, <2>6, <2>7
<1>3. QED
  BY <1>1, <1>2

\* What is seen of some types only is seen of the blocks of these types.
LEMMA SeenOfTypes ==
  ASSUME NEW f, NEW B, Maps(f, MessageBlocks, B), NEW types, NEW s \in Seq(MessageBlocks),
         \A b \in MessageBlocks : b.type \notin types => f[b] = <<>>
  PROVE  Flat(f, Of(s, types)) = Flat(f, s)
<1>1. \A b \in MessageBlocks : f[b] = IF b.type \in types THEN f[b] ELSE <<>>
  OBVIOUS
<1>2. QED
  BY <1>1, SelThen

\* Each call and each result of a message is told.
LEMMA CallsKept ==
  ASSUME NEW t \in TargetNames
  PROVE  /\ t = target => Kept(t, Calling, Calling)
         /\ Kept(t, Telling, ToTell(t))
<1> SUFFICES ASSUME NEW names, NamesTyped(names), NEW m \in Speakable(t)
             PROVE  LET p == Flat(PartsOf, WiresOf(t, names, m))
                    IN  /\ t = target => Flat(Calling, p) = Flat(Calling, m.content)
                        /\ Flat(Telling, p) = Flat(ToTell(t), m.content)
  BY DEF Kept
<1> DEFINE called == {"tool_use"}
           result == {"tool_result"}
           w == WiresOf(t, names, m)
           p == Flat(PartsOf, w)
           c == m.content
           j == CallSent(t)
           k == ResultSent(t, names)
<1>1. /\ w \in Seq(Wires)
      /\ Of(p, called) = Flat(j, c)
      /\ Of(p, result) = Flat(k, c)
  <2>1. Told(t, names, m)
    BY SpeakableTyped, AllTold
  <2>2. QED
    BY <2>1 DEF Told
<1>2. c \in Seq(MessageBlocks)
  BY SpeakableTyped
<1>3. Maps(j, MessageBlocks, MessageBlocks) /\ Maps(k, MessageBlocks, MessageBlocks)
  BY SentMaps, TypedSubset
<1>4. \A b \in MessageBlocks :
         /\ j[b] = IF b.type = "tool_use" THEN <<CallTo(t, b)>> ELSE <<>>
         /\ k[b] = IF b.type = "tool_result" THEN <<ResultTo(t, names, b)>> ELSE <<>>
         /\ CallTo(t, b) \in MessageBlocks /\ CallTo(t, b).type = b.type
         /\ ResultTo(t, names, b) \in MessageBlocks /\ ResultTo(t, names, b).type = b.type
  BY SentTyped DEF CallSent, ResultSent
<1> HIDE DEF w, c, j, k
<1>5. p \in Seq(MessageBlocks)
  BY <1>1, PartsFacts
<1> HIDE DEF p
<1>6. ASSUME t = target PROVE Flat(Calling, p) = Flat(Calling, c)
  <2>1. \A b \in MessageBlocks : Calling[b] = Flat(Calling, j[b])
    <3>1. SUFFICES ASSUME NEW b \in MessageBlocks PROVE Calling[b] = Flat(Calling, j[b])
      OBVIOUS
    <3> DEFINE x == CallTo(t, b)
    <3>2. /\ x \in MessageBlocks /\ x.type = b.type
          /\ j[b] = IF b.type = "tool_use" THEN <<x>> ELSE <<>>
      BY <1>4
    <3>3. b.type = "tool_use" => Meaning(x) = Meaning(b)
      BY <1>6, SentMeans
    <3> HIDE DEF x
    <3>4. Flat(Calling, <<x>>) = Calling[x] /\ Flat(Calling, <<>>) = <<>>
      BY <3>2, SeenMaps, FlatOne, FlatNone
    <3>5. /\ Calling[b] = IF b.type = "tool_use" THEN <<Meaning(b)>> ELSE <<>>
          /\ Calling[x] = IF x.type = "tool_use" THEN <<Meaning(x)>> ELSE <<>>
      BY <3>2 DEF Calling
    <3>6. QED
      BY <3>2, <3>3, <3>4, <3>5
  <2>2. Flat(Calling, Flat(j, c)) = Flat(Calling, c)
    BY <1>2, <1>3, <2>1, SeenMaps, FlatFlat
  <2>3. Flat(Calling, Of(p, called)) = Flat(Calling, p)
    <3>1. \A b \in MessageBlocks : b.type \notin called => Calling[b] = <<>>
      BY DEF Calling
    <3> HIDE DEF called
    <3>2. QED
      BY <1>5, <3>1, SeenMaps, SeenOfTypes
  <2>4. QED
    BY <1>1, <2>2, <2>3
<1>7. Flat(Telling, p) = Flat(ToTell(t), c)
  <2>1. \A b \in MessageBlocks : ToTell(t)[b] = Flat(Telling, k[b])
    <3>1. SUFFICES ASSUME NEW b \in MessageBlocks PROVE ToTell(t)[b] = Flat(Telling, k[b])
      OBVIOUS
    <3> DEFINE x == ResultTo(t, names, b)
               told == IF t = "anthropic" THEN b.body ELSE Content(b).body
    <3>2. /\ x \in MessageBlocks /\ x.type = b.type
          /\ k[b] = IF b.type = "tool_result" THEN <<x>> ELSE <<>>
      BY <1>4
    <3>3. b.type = "tool_result" => x.failed = b.failed /\ x.body = told
      BY SentMeans
    <3>4. ToTell(t)[b] = IF b.type = "tool_result" THEN <<Outcome(b, told)>> ELSE <<>>
      BY DEF ToTell
    <3> HIDE DEF x, told
    <3>5. Flat(Telling, <<x>>) = Telling[x] /\ Flat(Telling, <<>>) = <<>>
      BY <3>2, SeenMaps, FlatOne, FlatNone
    <3>6. Telling[x] = IF x.type = "tool_result" THEN <<Outcome(x, x.body)>> ELSE <<>>
      BY <3>2 DEF Telling
    <3>7. b.type = "tool_result" => Outcome(x, x.body) = Outcome(b, told)
      BY <3>3 DEF Outcome
    <3>8. QED
      BY <3>2, <3>4, <3>5, <3>6, <3>7
  <2>2. Flat(Telling, Flat(k, c)) = Flat(ToTell(t), c)
    BY <1>2, <1>3, <2>1, SeenMaps, FlatFlat
  <2>3. Flat(Telling, Of(p, result)) = Flat(Telling, p)
    <3>1. \A b \in MessageBlocks : b.type \notin result => Telling[b] = <<>>
      BY DEF Telling
    <3> HIDE DEF result
    <3>2. QED
      BY <1>5, <3>1, SeenMaps, SeenOfTypes
  <2>4. QED
    BY <1>1, <2>2, <2>3
<1>8. QED
  BY <1>6, <1>7 DEF p, w, c

\* What is seen of Typed blocks: of some types nothing.
LEMMA SeesTypes ==
  /\ \A b \in MessageBlocks :
       /\ b.type # "text" => Texting[b] = <<>>
       /\ b.type \notin {"image", "document"} => Showing[b] = <<>>
       /\ b.type \notin Thoughts => Sel(Thoughts)[b] = <<>>
       /\ b.type = "text" => Texting[b] = b.body
       /\ b.type \in {"image", "document"} =>
            Showing[b] = IF b.data # <<>> THEN <<Meaning(b)>> ELSE <<>>
  /\ \A types, s : s \in Seq(Typed(types)) =>
       /\ "text" \notin types => Flat(Texting, s) = <<>>
       /\ types \cap {"image", "document"} = {} => Flat(Showing, s) = <<>>
       /\ types \cap Thoughts = {} => Flat(Sel(Thoughts), s) = <<>>
<1>1. \A b \in MessageBlocks :
       /\ b.type # "text" => Texting[b] = <<>>
       /\ b.type \notin {"image", "document"} => Showing[b] = <<>>
       /\ b.type \notin Thoughts => Sel(Thoughts)[b] = <<>>
       /\ b.type = "text" => Texting[b] = b.body
       /\ b.type \in {"image", "document"} =>
            Showing[b] = IF b.data # <<>> THEN <<Meaning(b)>> ELSE <<>>
  BY DEF Texting, Showing, Sel
<1>2. ASSUME NEW types, NEW s \in Seq(Typed(types))
      PROVE  /\ "text" \notin types => Flat(Texting, s) = <<>>
             /\ types \cap {"image", "document"} = {} => Flat(Showing, s) = <<>>
             /\ types \cap Thoughts = {} => Flat(Sel(Thoughts), s) = <<>>
  <2>1. \A b \in Typed(types) : b \in MessageBlocks /\ b.type \in types
    BY DEF Typed
  <2>2. ASSUME "text" \notin types PROVE Flat(Texting, s) = <<>>
    <3>1. \A b \in Typed(types) : Texting[b] = <<>>
      BY <1>1, <2>1, <2>2
    <3>2. QED
      BY <3>1, FlatNothing
  <2>3. ASSUME types \cap {"image", "document"} = {} PROVE Flat(Showing, s) = <<>>
    <3>1. \A b \in Typed(types) : Showing[b] = <<>>
      BY <1>1, <2>1, <2>3
    <3>2. QED
      BY <3>1, FlatNothing
  <2>4. ASSUME types \cap Thoughts = {} PROVE Flat(Sel(Thoughts), s) = <<>>
    <3>1. \A b \in Typed(types) : Sel(Thoughts)[b] = <<>>
      BY <1>1, <2>1, <2>4
    <3>2. QED
      BY <3>1, FlatNothing
  <2>5. QED
    BY <2>2, <2>3, <2>4
<1>3. QED
  BY <1>1, <1>2

\* What is seen after the blocks of some message were replaced.
LEMMA SeenThrough ==
  ASSUME NEW t, NEW c \in Seq(Clear(t)), NEW k, Maps(k, MessageBlocks, MessageBlocks),
         NEW f, NEW B, Maps(f, MessageBlocks, B),
         NEW g, \A b \in Clear(t) : g[b] = Flat(f, k[b])
  PROVE  Flat(f, Flat(k, c)) = Flat(g, c)
<1>1. Maps(k, Clear(t), MessageBlocks)
  BY SpeakableTyped DEF Maps
<1>2. QED
  BY <1>1, FlatFlat

\* Nothing is seen.
LEMMA UnseenNone ==
  ASSUME NEW c \in Seq(MessageBlocks)
  PROVE  Flat(Unseen, c) = <<>>
<1>1. \A b \in MessageBlocks : Unseen[b] = <<>>
  BY DEF Unseen
<1>2. QED
  BY <1>1, FlatNothing

\* Of a message Anthropic is told the texts and the media.
LEMMA AnthropicKeeps ==
  Kept("anthropic", Texting, Texting) /\ Kept("anthropic", Showing, Showing)
<1> DEFINE t == "anthropic"
<1> SUFFICES ASSUME NEW names, NamesTyped(names), NEW m \in Speakable(t)
             PROVE  LET p == Flat(PartsOf, WiresOf(t, names, m))
                    IN  /\ Flat(Texting, p) = Flat(Texting, m.content)
                        /\ Flat(Showing, p) = Flat(Showing, m.content)
  BY DEF Kept
<1> DEFINE c == m.content
           g == [b \in MessageBlocks |-> ConvertBlock(b)]
           k == [b \in MessageBlocks |-> <<g[b]>>]
           p == Flat(PartsOf, WiresOf(t, names, m))
<1>1. c \in Seq(Clear(t)) /\ c \in Seq(MessageBlocks) /\ m \in Sound
  BY SpeakableTyped
<1>2. Maps(k, MessageBlocks, MessageBlocks)
  BY ConvertedBlock, OneBlock DEF Maps
<1>3. p = Flat(k, c)
  <2> DEFINE parts == [j \in 1 .. Len(c) |-> ConvertBlock(c[j])]
             role == IF m.role = "assistant" THEN "assistant" ELSE "user"
  <2>1. parts = Flat(k, c)
    <3>1. \A b \in MessageBlocks : k[b] = <<g[b]>>
      OBVIOUS
    <3>2. \A j \in 1 .. Len(c) : c[j] \in MessageBlocks
      BY <1>1, ElementOfSeq
    <3>3. \A j \in 1 .. Len(c) : g[c[j]] = ConvertBlock(c[j])
      BY <3>2
    <3> HIDE DEF k, g, c
    <3>4. Flat(k, c) = [j \in 1 .. Len(c) |-> g[c[j]]]
      BY <1>1, <3>1, FlatEach
    <3>5. QED
      BY <3>3, <3>4
  <2>2. WiresOf(t, names, m) = <<Wire(role, parts)>> /\ role \in Roles
    BY DEF WiresOf, AnthropicWire, Roles
  <2> HIDE DEF parts, role, k
  <2>3. parts \in Seq(MessageBlocks)
    BY <1>1, <1>2, <2>1, FlatType
  <2>4. QED
    BY <2>1, <2>2, <2>3, PartsFacts
<1> DEFINE C == Clear(t)
<1>4. \A b \in C : Texting[b] = Flat(Texting, k[b]) /\ Showing[b] = Flat(Showing, k[b])
  <2>1. SUFFICES ASSUME NEW b \in C
                 PROVE  Texting[b] = Flat(Texting, k[b]) /\ Showing[b] = Flat(Showing, k[b])
    OBVIOUS
  <2> DEFINE x == ConvertBlock(b)
  <2>2. b \in MessageBlocks /\ (b.type \in {"image", "document"} => b.name = 0)
    BY DEF Clear
  <2>3. x \in MessageBlocks /\ x.type = b.type /\ x.body = b.body /\ k[b] = <<x>>
    BY <2>2, ConvertedBlock
  <2>4. b.type \in {"image", "document"} => x = b
    BY <2>2 DEF ConvertBlock, MessageBlocks
  <2> HIDE DEF x, k, C
  <2>5. Flat(Texting, <<x>>) = Texting[x] /\ Flat(Showing, <<x>>) = Showing[x]
    BY <2>3, SeenMaps, FlatOne
  <2>6. Texting[x] = Texting[b]
    BY <2>2, <2>3, SeesTypes
  <2>7. Showing[x] = Showing[b]
    BY <2>2, <2>3, <2>4, SeesTypes
  <2>8. QED
    BY <2>3, <2>5, <2>6, <2>7
<1> HIDE DEF k, c, p, t
<1>5. Flat(Texting, Flat(k, c)) = Flat(Texting, c) /\ Flat(Showing, Flat(k, c)) = Flat(Showing, c)
  BY <1>1, <1>2, <1>4, SeenMaps, SeenThrough
<1>6. QED
  BY <1>3, <1>5 DEF p, c

\* Of a message Gemini is told the texts and the media, and no thinking.
LEMMA GeminiKeeps ==
  /\ Kept("gemini", Texting, Texting) /\ Kept("gemini", Showing, Showing)
  /\ Kept("gemini", Sel(Thoughts), Unseen)
<1> DEFINE t == "gemini"
           f == Sel(Thoughts)
<1> SUFFICES ASSUME NEW names, NamesTyped(names), NEW m \in Speakable(t)
             PROVE  LET p == Flat(PartsOf, WiresOf(t, names, m))
                    IN  /\ Flat(Texting, p) = Flat(Texting, m.content)
                        /\ Flat(Showing, p) = Flat(Showing, m.content)
                        /\ Flat(f, p) = Flat(Unseen, m.content)
  BY DEF Kept
<1> DEFINE c == m.content
           k == GeminiOf(names)
           p == Flat(PartsOf, WiresOf(t, names, m))
           C == Clear(t)
<1>1. c \in Seq(C) /\ c \in Seq(MessageBlocks) /\ m \in Sound
  BY SpeakableTyped
<1>2. Maps(k, MessageBlocks, MessageBlocks)
  BY GeminiMaps
<1>3. p = Flat(k, c)
  BY <1>1, GeminiTold
<1>4. \A b \in C : /\ Texting[b] = Flat(Texting, k[b]) /\ Showing[b] = Flat(Showing, k[b])
                   /\ Unseen[b] = Flat(f, k[b])
  <2>1. SUFFICES ASSUME NEW b \in C
                 PROVE  /\ Texting[b] = Flat(Texting, k[b]) /\ Showing[b] = Flat(Showing, k[b])
                        /\ <<>> = Flat(f, k[b])
    BY DEF Unseen, Clear
  <2>2. b \in MessageBlocks
    BY DEF Clear
  <2>3. /\ b.type = "tool_use" => k[b] = <<FunctionCall(b)>>
        /\ b.type = "tool_result" => k[b] = <<GeminiResult(names, b)>>
        /\ b.type = "text" => k[b] = IF b.body = <<>> THEN <<>> ELSE <<b>>
        /\ b.type \in {"image", "document"} => k[b] = IF b.data # <<>> THEN <<b>> ELSE <<>>
        /\ b.type \notin {"tool_use", "tool_result", "text", "image", "document"} => k[b] = <<>>
    BY <2>2 DEF GeminiOf, GeminiParts, HasSource, GeminiResult
  <2>4. /\ FunctionCall(b) \in MessageBlocks /\ FunctionCall(b).type = b.type
        /\ GeminiResult(names, b) \in MessageBlocks /\ GeminiResult(names, b).type = b.type
    BY <2>2, GeminiPart
  <2>5. \A x \in MessageBlocks : /\ Flat(Texting, <<x>>) = Texting[x] /\ Flat(Showing, <<x>>) = Showing[x]
                                 /\ Flat(f, <<x>>) = f[x]
    <3>1. /\ Maps(Texting, MessageBlocks, Nat \X Nat)
          /\ Maps(Showing, MessageBlocks, MessageBlocks)
      BY SeenMaps
    <3>2. Maps(f, MessageBlocks, MessageBlocks)
      BY SelMaps
    <3> HIDE DEF f
    <3>3. \A x \in MessageBlocks : Flat(Texting, <<x>>) = Texting[x]
      BY <3>1, FlatOne, Zenon
    <3>4. \A x \in MessageBlocks : Flat(Showing, <<x>>) = Showing[x]
      BY <3>1, FlatOne, Zenon
    <3>5. \A x \in MessageBlocks : Flat(f, <<x>>) = f[x]
      BY <3>2, FlatOne, Zenon
    <3>6. QED
      BY <3>3, <3>4, <3>5
  <2>6. Flat(Texting, <<>>) = <<>> /\ Flat(Showing, <<>>) = <<>> /\ Flat(f, <<>>) = <<>>
    BY FlatNone
  <2>7. \A x \in MessageBlocks :
          /\ x.type # "text" => Texting[x] = <<>>
          /\ x.type \notin {"image", "document"} => Showing[x] = <<>>
          /\ x.type \notin Thoughts => f[x] = <<>>
          /\ x.type = "text" => Texting[x] = x.body
          /\ x.type \in {"image", "document"} =>
               Showing[x] = IF x.data # <<>> THEN <<Meaning(x)>> ELSE <<>>
    BY SeesTypes
  <2> HIDE DEF k, f, C
  <2>8. CASE b.type = "text"
    BY <2>2, <2>3, <2>5, <2>6, <2>7, <2>8 DEF Thoughts
  <2>9. CASE b.type \in {"image", "document"}
    BY <2>2, <2>3, <2>5, <2>6, <2>7, <2>9 DEF Thoughts
  <2>10. CASE b.type = "tool_use"
    BY <2>2, <2>3, <2>4, <2>5, <2>7, <2>10 DEF Thoughts
  <2>11. CASE b.type = "tool_result"
    BY <2>2, <2>3, <2>4, <2>5, <2>7, <2>11 DEF Thoughts
  <2>12. CASE b.type \notin {"tool_use", "tool_result", "text", "image", "document"}
    BY <2>2, <2>3, <2>6, <2>7, <2>12
  <2>13. QED
    BY <2>8, <2>9, <2>10, <2>11, <2>12
<1>5. Maps(f, MessageBlocks, MessageBlocks)
  BY SelMaps
<1> HIDE DEF k, c, p, t, f
<1>6. /\ Flat(Texting, Flat(k, c)) = Flat(Texting, c) /\ Flat(Showing, Flat(k, c)) = Flat(Showing, c)
  BY <1>1, <1>2, <1>4, SeenMaps, SeenThrough
<1>7. Flat(f, Flat(k, c)) = Flat(Unseen, c)
  BY <1>1, <1>2, <1>4, <1>5, SeenThrough
<1>8. QED
  BY <1>3, <1>6, <1>7 DEF p, c

\* What is seen of three lists, one after the other.
LEMMA SeenThree ==
  ASSUME NEW f, NEW B, Maps(f, MessageBlocks, B),
         NEW x \in Seq(MessageBlocks), NEW y \in Seq(MessageBlocks), NEW z \in Seq(MessageBlocks)
  PROVE  /\ Flat(f, (x \o y) \o z) = (Flat(f, x) \o Flat(f, y)) \o Flat(f, z)
         /\ Flat(f, x) \in Seq(B) /\ Flat(f, y) \in Seq(B) /\ Flat(f, z) \in Seq(B)
<1>1. Joins(f, MessageBlocks)
  BY FlatJoins
<1>2. x \o y \in Seq(MessageBlocks) /\ (x \o y) \o z \in Seq(MessageBlocks)
  OBVIOUS
<1>3. Flat(f, x) \in Seq(B) /\ Flat(f, y) \in Seq(B) /\ Flat(f, z) \in Seq(B)
  BY FlatType
<1>4. Flat(f, x \o y) = Flat(f, x) \o Flat(f, y)
  BY <1>1 DEF Joins
<1>5. Flat(f, (x \o y) \o z) = Flat(f, x \o y) \o Flat(f, z)
  BY <1>1, <1>2 DEF Joins
<1>6. QED
  BY <1>3, <1>4, <1>5

\* Nothing before or after a sequence.
LEMMA NoneBeside ==
  ASSUME NEW B, NEW s \in Seq(B)
  PROVE  s \o <<>> = s /\ <<>> \o s = s
OBVIOUS

\* Of a message Ollama is told the texts and the images, and no thinking.
LEMMA OllamaKeeps ==
  /\ Kept("ollama", Texting, Texting) /\ Kept("ollama", Showing, Showing)
  /\ Kept("ollama", Sel(Thoughts), Unseen)
<1> DEFINE t == "ollama"
           f == Sel(Thoughts)
<1> SUFFICES ASSUME NEW names, NamesTyped(names), NEW m \in Speakable(t)
             PROVE  LET p == Flat(PartsOf, WiresOf(t, names, m))
                    IN  /\ Flat(Texting, p) = Flat(Texting, m.content)
                        /\ Flat(Showing, p) = Flat(Showing, m.content)
                        /\ Flat(f, p) = Flat(Unseen, m.content)
  BY DEF Kept
<1> DEFINE c == m.content
           p == Flat(PartsOf, WiresOf(t, names, m))
           C == Clear(t)
           x == Flat(PlainOf, c)
           y == Flat(ImagesOf, c)
           z == Flat(BareResultOf, c)
<1>1. c \in Seq(C) /\ c \in Seq(MessageBlocks) /\ m \in Messages
  BY SpeakableTyped
<1>2. p = (x \o y) \o z
  BY <1>1, OllamaParts DEF WiresOf
<1>3. /\ x \in Seq(Typed({"text", "tool_use"})) /\ y \in Seq(Typed({"image"}))
      /\ z \in Seq(Typed({"tool_result"}))
  BY <1>1, OllamaMaps, FlatType
<1>4. x \in Seq(MessageBlocks) /\ y \in Seq(MessageBlocks) /\ z \in Seq(MessageBlocks)
  BY <1>3, TypedIn
<1>5. /\ Flat(Texting, y) = <<>> /\ Flat(Texting, z) = <<>>
      /\ Flat(Showing, x) = <<>> /\ Flat(Showing, z) = <<>>
      /\ Flat(f, x) = <<>> /\ Flat(f, y) = <<>> /\ Flat(f, z) = <<>>
  <2>1. /\ "text" \notin {"image"} /\ "text" \notin {"tool_result"}
        /\ {"text", "tool_use"} \cap {"image", "document"} = {}
        /\ {"tool_result"} \cap {"image", "document"} = {}
        /\ {"text", "tool_use"} \cap Thoughts = {} /\ {"image"} \cap Thoughts = {}
        /\ {"tool_result"} \cap Thoughts = {}
    BY DEF Thoughts
  <2> HIDE DEF x, y, z, c
  <2>2. QED
    BY <1>3, <2>1, SeesTypes
<1>6. \A b \in C : /\ Texting[b] = Flat(Texting, PlainOf[b])
                   /\ Showing[b] = Flat(Showing, ImagesOf[b])
  <2>1. SUFFICES ASSUME NEW b \in C
                 PROVE  /\ Texting[b] = Flat(Texting, PlainOf[b])
                        /\ Showing[b] = Flat(Showing, ImagesOf[b])
    OBVIOUS
  <2>2. b \in MessageBlocks /\ b.type # "document"
    BY DEF Clear
  <2>3. /\ PlainOf[b] = IF b.type \in {"text", "tool_use"} /\ b.body # <<>> THEN <<Bare(b)>> ELSE <<>>
        /\ ImagesOf[b] = IF b.type = "image" /\ b.data # <<>> THEN <<b>> ELSE <<>>
    BY <2>2 DEF PlainOf, ImagesOf
  <2> DEFINE e == Bare(b)
  <2>4. e \in MessageBlocks /\ e.type = b.type
    BY <2>2, BareTyped
  <2>5. e.body = b.body
    BY <2>2 DEF Bare, MessageBlocks
  <2> HIDE DEF e
  <2>6. /\ Flat(Texting, <<e>>) = Texting[e] /\ Flat(Texting, <<>>) = <<>>
        /\ Flat(Showing, <<b>>) = Showing[b] /\ Flat(Showing, <<>>) = <<>>
    BY <2>2, <2>4, SeenMaps, FlatOne, FlatNone
  <2>7. /\ b.type # "text" => Texting[b] = <<>> /\ Texting[e] = <<>>
        /\ b.type = "text" => Texting[b] = b.body /\ Texting[e] = b.body
        /\ b.type # "image" => Showing[b] = <<>>
        /\ b.data = <<>> => Showing[b] = <<>>
    BY <2>2, <2>4, <2>5, SeesTypes
  <2>8. Texting[b] = Flat(Texting, PlainOf[b])
    BY <2>3, <2>6, <2>7 DEF e
  <2>9. Showing[b] = Flat(Showing, ImagesOf[b])
    BY <2>3, <2>6, <2>7
  <2>10. QED
    BY <2>8, <2>9
<1>7. Maps(PlainOf, MessageBlocks, MessageBlocks) /\ Maps(ImagesOf, MessageBlocks, MessageBlocks)
  BY OllamaMaps, TypedSubset
<1> HIDE DEF x, y, z, c, p, f
<1>8. Flat(Texting, Flat(PlainOf, c)) = Flat(Texting, c)
  BY <1>1, <1>6, <1>7, SeenMaps, SeenThrough
<1>9. Flat(Showing, Flat(ImagesOf, c)) = Flat(Showing, c)
  BY <1>1, <1>6, <1>7, SeenMaps, SeenThrough
<1>10. Flat(Texting, p) = Flat(Texting, c)
  <2>1. Flat(Texting, p) = (Flat(Texting, x) \o Flat(Texting, y)) \o Flat(Texting, z)
        /\ Flat(Texting, x) \in Seq(Nat \X Nat)
    <3>1. Maps(Texting, MessageBlocks, Nat \X Nat)
      BY SeenMaps
    <3>2. /\ Flat(Texting, (x \o y) \o z) = (Flat(Texting, x) \o Flat(Texting, y)) \o Flat(Texting, z)
          /\ Flat(Texting, x) \in Seq(Nat \X Nat)
      BY <1>4, <3>1, SeenThree, Zenon
    <3>3. QED
      BY <1>2, <3>2
  <2>2. QED
    BY <1>5, <1>8, <2>1, NoneBeside DEF x
<1>11. Flat(Showing, p) = Flat(Showing, c)
  <2>1. Flat(Showing, p) = (Flat(Showing, x) \o Flat(Showing, y)) \o Flat(Showing, z)
        /\ Flat(Showing, y) \in Seq(MessageBlocks)
    <3>1. Maps(Showing, MessageBlocks, MessageBlocks)
      BY SeenMaps
    <3>2. /\ Flat(Showing, (x \o y) \o z) = (Flat(Showing, x) \o Flat(Showing, y)) \o Flat(Showing, z)
          /\ Flat(Showing, y) \in Seq(MessageBlocks)
      BY <1>4, <3>1, SeenThree, Zenon
    <3>3. QED
      BY <1>2, <3>2
  <2>2. QED
    BY <1>5, <1>9, <2>1, NoneBeside DEF y
<1>12. Flat(f, p) = Flat(Unseen, c)
  <2>1. Maps(f, MessageBlocks, MessageBlocks)
    BY SelMaps DEF f
  <2>2. Flat(f, (x \o y) \o z) = (Flat(f, x) \o Flat(f, y)) \o Flat(f, z)
    BY <1>4, <2>1, SeenThree, Zenon
  <2>3. Flat(Unseen, c) = <<>>
    BY <1>1, UnseenNone
  <2>4. QED
    BY <1>2, <1>5, <2>2, <2>3
<1>13. QED
  BY <1>10, <1>11, <1>12 DEF p, c

\* What is seen of two lists, one after the other.
LEMMA SeenTwo ==
  ASSUME NEW f, NEW B, Maps(f, MessageBlocks, B),
         NEW x \in Seq(MessageBlocks), NEW y \in Seq(MessageBlocks)
  PROVE  Flat(f, x \o y) = Flat(f, x) \o Flat(f, y) /\ Flat(f, x) \in Seq(B) /\ Flat(f, y) \in Seq(B)
<1>1. Joins(f, MessageBlocks)
  BY FlatJoins
<1>2. Flat(f, x) \in Seq(B) /\ Flat(f, y) \in Seq(B)
  BY FlatType
<1>3. QED
  BY <1>1, <1>2 DEF Joins

\* An image that a block has.
Picturing == [b \in MessageBlocks |-> IF b.type = "image" THEN Showing[b] ELSE <<>>]

\* Without documents what is shown are the images.
LEMMA PicturesShown ==
  ASSUME NEW t \in {"openai", "responses"}, NEW c \in Seq(Clear(t))
  PROVE  /\ Flat(Showing, c) = Flat(Picturing, c)
         /\ \A types : /\ Of(c, types) \in Seq(Clear(t))
                       /\ "image" \in types => Flat(Showing, Of(c, types)) = Flat(Showing, c)
<1> DEFINE C == Clear(t)
<1>1. \A b \in C : Showing[b] = Picturing[b]
  BY DEF Clear, Picturing, Showing
<1>2. Maps(Picturing, MessageBlocks, MessageBlocks)
  <2>1. SUFFICES ASSUME NEW b \in MessageBlocks PROVE Picturing[b] \in Seq(MessageBlocks)
    BY DEF Maps
  <2>2. Showing[b] \in Seq(MessageBlocks) /\ <<>> \in Seq(MessageBlocks)
    BY SeenMaps, EmptySeq DEF Maps
  <2>3. Picturing[b] \in {Showing[b], <<>>}
    BY DEF Picturing
  <2>4. QED
    BY <2>2, <2>3
<1>3. c \in Seq(MessageBlocks)
  BY SpeakableTyped
<1> HIDE DEF C
<1>4. \A s \in Seq(C) : Flat(Showing, s) = Flat(Picturing, s)
  BY <1>1, FlatSame
<1>5. ASSUME NEW types PROVE Of(c, types) \in Seq(C)
  BY OnlyType DEF Of, C
<1>6. ASSUME NEW types, "image" \in types PROVE Flat(Showing, Of(c, types)) = Flat(Showing, c)
  <2>1. \A b \in MessageBlocks : b.type \notin types => Picturing[b] = <<>>
    BY <1>6 DEF Picturing
  <2>2. Flat(Picturing, Of(c, types)) = Flat(Picturing, c)
    BY <1>2, <1>3, <2>1, SeenOfTypes
  <2>3. QED
    BY <1>4, <1>5, <2>2 DEF C
<1>7. QED
  BY <1>4, <1>5, <1>6 DEF C

\* What has no source shows nothing.
LEMMA SourcedSeen ==
  ASSUME NEW s \in Seq(MessageBlocks)
  PROVE  /\ Flat(Texting, Sourced(s)) = Flat(Texting, s)
         /\ Flat(Showing, Sourced(s)) = Flat(Showing, s)
<1> DEFINE k == [b \in MessageBlocks |-> IF b.body # <<>> THEN <<b>> ELSE <<>>]
           l == [b \in MessageBlocks |-> IF HasSource(b) THEN <<b>> ELSE <<>>]
<1>1. \A b \in MessageBlocks : /\ k[b] = IF b.body # <<>> THEN <<b>> ELSE <<>>
                               /\ l[b] = IF HasSource(b) THEN <<b>> ELSE <<>>
  OBVIOUS
<1> HIDE DEF k, l
<1>2. Sourced(s) = Flat(l, s)
  BY <1>1, KeptIsFlat
<1>3. Maps(l, MessageBlocks, MessageBlocks)
  <2>1. SUFFICES ASSUME NEW b \in MessageBlocks PROVE l[b] \in Seq(MessageBlocks)
    BY DEF Maps
  <2>2. <<b>> \in Seq(MessageBlocks) /\ <<>> \in Seq(MessageBlocks)
    BY OneBlock
  <2>3. l[b] \in {<<b>>, <<>>}
    BY <1>1
  <2>4. QED
    BY <2>2, <2>3
<1>4. ASSUME NEW b \in MessageBlocks
      PROVE  Texting[b] = Flat(Texting, l[b]) /\ Showing[b] = Flat(Showing, l[b])
  <2>1. /\ Flat(Texting, <<b>>) = Texting[b] /\ Flat(Texting, <<>>) = <<>>
        /\ Flat(Showing, <<b>>) = Showing[b] /\ Flat(Showing, <<>>) = <<>>
    BY SeenMaps, FlatOne, FlatNone
  <2>2. CASE HasSource(b)
    BY <1>1, <2>1, <2>2
  <2>3. CASE ~HasSource(b)
    <3>1. b.type \in {"image", "document"} /\ b.data = <<>>
      BY <2>3 DEF HasSource
    <3>2. Texting[b] = <<>> /\ Showing[b] = <<>>
      BY <3>1, SeesTypes
    <3>3. QED
      BY <1>1, <2>1, <2>3, <3>2
  <2>4. QED
    BY <2>2, <2>3
<1>5. QED
  BY <1>2, <1>3, <1>4, SeenMaps, FlatFlat

\* The text of a joined text, and what a text shows.
LEMMA JoinedSeen ==
  ASSUME NEW c \in Seq(MessageBlocks)
  PROVE  /\ Flat(Texting, <<Joined(c)>>) = Flat(Texting, c)
         /\ Flat(Showing, <<Joined(c)>>) = <<>>
         /\ Flat(Texting, AssistantText(c)) = Flat(Texting, c)
<1> DEFINE x == Joined(c)
<1>1. x \in MessageBlocks /\ x.type = "text"
  BY JoinedText DEF Typed
<1>2. x.body = Flat(Texting, c)
  BY SeenIsFlat DEF TextOf
<1>3. AssistantText(c) = IF Of(c, {"text"}) = <<>> THEN <<>> ELSE <<x>>
  BY DEF AssistantText
<1> HIDE DEF x
<1>4. Flat(Texting, <<x>>) = Texting[x] /\ Flat(Showing, <<x>>) = Showing[x] /\ Flat(Texting, <<>>) = <<>>
  BY <1>1, SeenMaps, FlatOne, FlatNone
<1>5. Texting[x] = x.body /\ Showing[x] = <<>>
  BY <1>1, SeesTypes
<1>6. Flat(Texting, Of(c, {"text"})) = Flat(Texting, c)
  <2>1. \A b \in MessageBlocks : b.type \notin {"text"} => Texting[b] = <<>>
    BY SeesTypes
  <2>2. QED
    BY <2>1, SeenMaps, SeenOfTypes
<1>7. QED
  BY <1>2, <1>3, <1>4, <1>5, <1>6 DEF x

\* The text and the images of the rest of a message of the user.
LEMMA UserSeen ==
  ASSUME NEW t \in {"openai", "responses"}, NEW r \in Seq(Clear(t)),
         NEW parts \in {UserParts(r), InputParts(r)}
  PROVE  /\ Flat(Texting, parts) = Flat(Texting, r)
         /\ Flat(Showing, parts) = Flat(Showing, r)
<1> DEFINE o == Of(r, {"text", "image"})
<1>1. r \in Seq(MessageBlocks)
  BY SpeakableTyped
<1>2. o \in Seq(MessageBlocks) /\ Flat(Showing, o) = Flat(Showing, r)
      /\ Flat(Showing, Of(r, {"image"})) = Flat(Showing, r)
  <2>1. "image" \in {"text", "image"} /\ "image" \in {"image"}
    OBVIOUS
  <2>2. QED
    BY <1>1, <2>1, OfFacts, PicturesShown
<1>3. Flat(Texting, o) = Flat(Texting, r)
  <2>1. \A b \in MessageBlocks : b.type \notin {"text", "image"} => Texting[b] = <<>>
    BY SeesTypes
  <2>2. QED
    BY <1>1, <2>1, SeenMaps, SeenOfTypes
<1>4. \/ parts = Sourced(o)
      \/ parts = <<Joined(r)>> /\ Of(r, {"image"}) = <<>>
  BY DEF UserParts, InputParts
<1> HIDE DEF o
<1>5. CASE parts = Sourced(o)
  BY <1>2, <1>3, <1>5, SourcedSeen
<1>6. CASE parts = <<Joined(r)>> /\ Of(r, {"image"}) = <<>>
  BY <1>1, <1>2, <1>6, JoinedSeen, FlatNone
<1>7. QED
  BY <1>4, <1>5, <1>6

\* Of a message the OpenAI APIs are told the texts and the images, and no thinking.
LEMMA OpenAIKeeps ==
  ASSUME NEW t \in {"openai", "responses"}
  PROVE  /\ Kept(t, Texting, Texting) /\ Kept(t, Showing, Showing)
         /\ Kept(t, Sel(Thoughts), Unseen)
<1> DEFINE f == Sel(Thoughts)
<1> SUFFICES ASSUME NEW names, NamesTyped(names), NEW m \in Speakable(t)
             PROVE  LET p == Flat(PartsOf, WiresOf(t, names, m))
                    IN  /\ Flat(Texting, p) = Flat(Texting, m.content)
                        /\ Flat(Showing, p) = Flat(Showing, m.content)
                        /\ Flat(f, p) = Flat(Unseen, m.content)
  BY DEF Kept
<1> DEFINE c == m.content
           r == Rest(m)
           p == Flat(PartsOf, WiresOf(t, names, m))
           a == AssistantText(c)
           u == Unsign(Of(c, {"tool_use"}))
           q == Flat(ResultOf, c)
           parts == IF t = "openai" THEN UserParts(r) ELSE InputParts(r)
           rest == Remaining(m, parts)
<1>1. /\ c \in Seq(Clear(t)) /\ c \in Seq(MessageBlocks) /\ m \in Messages /\ m \in Sound
      /\ m.role \in {"user", "assistant", "tool"} /\ c \in Seq(Typed(KindsOf(m.role)))
  BY SpeakableTyped, SoundFacts
<1>2. /\ m.role = "assistant" => p = a \o u
      /\ m.role = "tool" => p = q
      /\ m.role = "user" => p = q \o rest
  BY <1>1, OpenAIParts DEF WiresOf
<1>3. /\ a \in Seq(Typed({"text"})) /\ u \in Seq(Typed({"tool_use"}))
      /\ q \in Seq(Typed({"tool_result"}))
  BY <1>1, AnswerParts, ResultMaps, FlatType
<1>4. a \in Seq(MessageBlocks) /\ u \in Seq(MessageBlocks) /\ q \in Seq(MessageBlocks)
  BY <1>3, TypedIn
<1>5. /\ Flat(Showing, a) = <<>> /\ Flat(f, a) = <<>>
      /\ Flat(Texting, u) = <<>> /\ Flat(Showing, u) = <<>> /\ Flat(f, u) = <<>>
      /\ Flat(Texting, q) = <<>> /\ Flat(Showing, q) = <<>> /\ Flat(f, q) = <<>>
  <2>1. /\ {"text"} \cap {"image", "document"} = {} /\ {"text"} \cap Thoughts = {}
        /\ "text" \notin {"tool_use"} /\ {"tool_use"} \cap {"image", "document"} = {}
        /\ {"tool_use"} \cap Thoughts = {}
        /\ "text" \notin {"tool_result"} /\ {"tool_result"} \cap {"image", "document"} = {}
        /\ {"tool_result"} \cap Thoughts = {}
    BY DEF Thoughts
  <2> HIDE DEF a, u, q, c
  <2>2. QED
    BY <1>3, <2>1, SeesTypes
<1>6. Flat(Texting, a) = Flat(Texting, c)
  BY <1>1, JoinedSeen
<1>7. Flat(Unseen, c) = <<>>
  BY <1>1, UnseenNone
<1>8. Maps(f, MessageBlocks, MessageBlocks)
  BY SelMaps
<1>9. CASE m.role = "assistant"
  <2>1. Flat(Showing, c) = <<>>
    <3>1. BlockTypes \cap {"image", "document"} = {} /\ c \in Seq(Typed(BlockTypes))
      BY <1>1, <1>9 DEF BlockTypes, KindsOf
    <3> HIDE DEF c
    <3>2. QED
      BY <3>1, SeesTypes
  <2> HIDE DEF a, u, c, p, f
  <2>2. /\ Flat(Texting, a \o u) = Flat(Texting, a) \o Flat(Texting, u)
        /\ Flat(Texting, a) \in Seq(Nat \X Nat)
    BY <1>4, SeenMaps, SeenTwo
  <2>3. Flat(Showing, a \o u) = Flat(Showing, a) \o Flat(Showing, u)
    BY <1>4, SeenMaps, SeenTwo
  <2>4. Flat(f, a \o u) = Flat(f, a) \o Flat(f, u)
    BY <1>4, <1>8, SeenTwo
  <2>5. Flat(Texting, a) \o <<>> = Flat(Texting, a) /\ <<>> \o <<>> = <<>>
    BY <2>2
  <2>6. QED
    BY <1>2, <1>5, <1>6, <1>7, <1>9, <2>1, <2>2, <2>3, <2>4, <2>5 DEF p, c
<1>10. CASE m.role = "tool"
  <2>1. Flat(Texting, c) = <<>> /\ Flat(Showing, c) = <<>>
    <3>1. /\ "text" \notin {"tool_result"} /\ {"tool_result"} \cap {"image", "document"} = {}
          /\ c \in Seq(Typed({"tool_result"}))
      BY <1>1, <1>10 DEF KindsOf
    <3> HIDE DEF c
    <3>2. QED
      BY <3>1, SeesTypes
  <2> HIDE DEF q, c, p, f
  <2>2. QED
    BY <1>2, <1>5, <1>7, <1>10, <2>1 DEF p, c
<1>11. CASE m.role = "user"
  <2>1. r = Of(c, ReplayTypes \ {"tool_result"})
    BY <1>1, RestIsOf
  <2>2. r \in Seq(Clear(t)) /\ r \in Seq(MessageBlocks) /\ Flat(Showing, r) = Flat(Showing, c)
    <3>1. "image" \in ReplayTypes \ {"tool_result"}
      BY DEF ReplayTypes
    <3> HIDE DEF c, r
    <3>2. QED
      BY <1>1, <2>1, <3>1, PicturesShown, SpeakableTyped
  <2>3. Flat(Texting, r) = Flat(Texting, c)
    <3>1. \A b \in MessageBlocks : b.type \notin ReplayTypes \ {"tool_result"} => Texting[b] = <<>>
      BY SeesTypes DEF ReplayTypes, BlockTypes
    <3> HIDE DEF c, r
    <3>2. QED
      BY <1>1, <2>1, <3>1, SeenMaps, SeenOfTypes
  <2>4. parts \in {UserParts(r), InputParts(r)}
    OBVIOUS
  <2>5. /\ parts \in Seq(Typed({"text", "image"})) /\ parts \in Seq(MessageBlocks)
        /\ Flat(f, parts) = <<>>
    <3>1. {"text", "image"} \cap Thoughts = {}
      BY DEF Thoughts
    <3> HIDE DEF parts, r
    <3>2. parts \in Seq(Typed({"text", "image"}))
      BY <2>2, <2>4, UserTyped
    <3>3. QED
      BY <3>1, <3>2, SeesTypes, TypedIn
  <2>6. rest = IF r = <<>> /\ c # <<>> THEN <<>> ELSE parts
    BY DEF Remaining
  <2> HIDE DEF r, parts, rest, q, c, p, f
  <2>7. Flat(Texting, parts) = Flat(Texting, r) /\ Flat(Showing, parts) = Flat(Showing, r)
    BY <2>2, <2>4, UserSeen
  <2>8. /\ rest \in Seq(MessageBlocks) /\ Flat(f, rest) = <<>>
        /\ Flat(Texting, rest) = Flat(Texting, c) /\ Flat(Showing, rest) = Flat(Showing, c)
    BY <2>2, <2>3, <2>5, <2>6, <2>7, FlatNone, EmptySeq
  <2>9. /\ Flat(Texting, q \o rest) = Flat(Texting, q) \o Flat(Texting, rest)
        /\ Flat(Texting, rest) \in Seq(Nat \X Nat)
    BY <1>4, <2>8, SeenMaps, SeenTwo
  <2>10. /\ Flat(Showing, q \o rest) = Flat(Showing, q) \o Flat(Showing, rest)
         /\ Flat(Showing, rest) \in Seq(MessageBlocks)
    BY <1>4, <2>8, SeenMaps, SeenTwo
  <2>11. Flat(f, q \o rest) = Flat(f, q) \o Flat(f, rest)
    BY <1>4, <1>8, <2>8, SeenTwo
  <2>12. /\ <<>> \o Flat(Texting, rest) = Flat(Texting, rest) /\ <<>> \o <<>> = <<>>
         /\ <<>> \o Flat(Showing, rest) = Flat(Showing, rest)
    BY <2>9, <2>10, NoneBeside, EmptySeq
  <2>13. QED
    BY <1>2, <1>5, <1>7, <1>11, <2>8, <2>9, <2>10, <2>11, <2>12 DEF p, c
<1>12. QED
  BY <1>1, <1>9, <1>10, <1>11

\* Every target is told the texts and the media, and none but Anthropic the thinking.
LEMMA AllKeep ==
  ASSUME NEW t \in TargetNames
  PROVE  /\ Kept(t, Texting, Texting) /\ Kept(t, Showing, Showing)
         /\ t # "anthropic" => Kept(t, Sel(Thoughts), Unseen)
<1>1. t = "anthropic" \/ t = "gemini" \/ t = "ollama" \/ t \in {"openai", "responses"}
  BY DEF TargetNames
<1>2. QED
  BY <1>1, AnthropicKeeps, GeminiKeeps, OllamaKeeps, OpenAIKeeps

-----------------------------------------------------------------------------
(* What Gemini is sent is whole *)

\* The parts that Gemini takes, and the messages of such parts.
WholeBlocks == {p \in MessageBlocks : Whole(p)}
WholeWires == {w \in Wires : w.parts # <<>> /\ w.parts \in Seq(WholeBlocks)}

\* What Gemini is sent of a block is whole.
LEMMA GeminiWholePart ==
  ASSUME NEW names, NamesTyped(names)
  PROVE  Maps(GeminiOf(names), Clear("gemini"), WholeBlocks)
<1> SUFFICES ASSUME NEW b \in Clear("gemini") PROVE GeminiParts(names, b) \in Seq(WholeBlocks)
  BY DEF Maps, GeminiOf, Clear
<1>1. b \in MessageBlocks /\ (b.type = "tool_result" => b.failed \/ b.body # <<>>)
  BY DEF Clear
<1>2. \A x \in WholeBlocks : <<x>> \in Seq(WholeBlocks)
  OBVIOUS
<1>3. <<>> \in Seq(WholeBlocks)
  BY EmptySeq
<1>4. CASE b.type = "tool_use"
  <2>1. FunctionCall(b) \in WholeBlocks
    BY <1>1, <1>4, GeminiPart DEF WholeBlocks, Whole
  <2>2. QED
    BY <1>1, <1>2, <1>4, <2>1, GeminiPart
<1>5. CASE b.type = "tool_result"
  <2> DEFINE x == Content(b)
             y == GeminiResult(names, b)
  <2>1. x \in MessageBlocks /\ x.body = IF b.failed /\ b.body = <<>> THEN NoMessage ELSE b.body
    BY <1>1, ContentTyped
  <2>2. x.body # <<>>
    BY <1>1, <1>5, <2>1, Texts
  <2>3. y.body = x.body
    BY <2>1 DEF GeminiResult, MessageBlocks
  <2>4. y \in MessageBlocks /\ GeminiParts(names, b) = <<y>>
    BY <1>1, <1>5, GeminiPart
  <2>5. y \in WholeBlocks
    BY <2>2, <2>3, <2>4 DEF WholeBlocks, Whole
  <2>6. QED
    BY <1>2, <2>4, <2>5
<1>6. CASE b.type \notin {"tool_use", "tool_result"}
  <2>1. \/ GeminiParts(names, b) = <<>>
        \/ GeminiParts(names, b) = <<b>> /\ (b.body # <<>> \/ b.data # <<>>)
    BY <1>6 DEF GeminiParts, HasSource
  <2>2. b.body # <<>> \/ b.data # <<>> => b \in WholeBlocks
    BY <1>1 DEF WholeBlocks, Whole
  <2>3. QED
    BY <1>2, <1>3, <2>1, <2>2
<1>7. QED
  BY <1>4, <1>5, <1>6

\* What Gemini is sent of a message is whole, or nothing.
LEMMA GeminiWholeWires ==
  ASSUME NEW names, NamesTyped(names), NEW m \in Speakable("gemini")
  PROVE  WiresOf("gemini", names, m) \in Seq(WholeWires)
<1> DEFINE parts == Flat(GeminiOf(names), m.content)
<1>1. m \in Sound /\ m.content \in Seq(Clear("gemini"))
  BY SpeakableTyped
<1>2. parts \in Seq(WholeBlocks)
  BY <1>1, GeminiWholePart, FlatType
<1>3. PICK role \in Roles :
        WiresOf("gemini", names, m) = IF parts = <<>> THEN <<>> ELSE <<Wire(role, parts)>>
  BY <1>1, GeminiWires
<1>4. parts \in Seq(MessageBlocks)
  BY <1>1, GeminiWires
<1> HIDE DEF parts
<1>5. Wire(role, parts) \in Wires /\ Wire(role, parts).parts = parts
  BY <1>4, WireTyped
<1>6. parts # <<>> => Wire(role, parts) \in WholeWires
  BY <1>2, <1>5 DEF WholeWires
<1>7. \A x \in WholeWires : <<x>> \in Seq(WholeWires)
  OBVIOUS
<1>8. <<>> \in Seq(WholeWires)
  BY EmptySeq
<1>9. QED
  BY <1>3, <1>6, <1>7, <1>8

\* What Gemini is sent of a conversation is whole.
LEMMA GeminiWhole ==
  ASSUME NEW h \in Seq(Speakable("gemini"))
  PROVE  Converted("gemini", h) \in Seq(WholeWires)
<1> DEFINE M == Speakable("gemini")
           S == Sayable("gemini")
           T == {s \in Seq(M) : Converted("gemini", s) \in Seq(WholeWires)}
<1>1. <<>> \in T
  <2>1. Message("user", <<>>) \in S /\ <<>> \in Seq(S)
    <3>1. <<>> \in Seq(MessageBlocks) /\ <<>> \in Seq(WritableBlocks) /\ \A K : <<>> \in Seq(Typed(K))
      BY EmptySeq
    <3>2. Message("user", <<>>) \in S
      BY <3>1, MessageTyped DEF Sayable, Sound, Message
    <3>3. QED
      BY <3>2, EmptySeq
  <2>2. Converted("gemini", <<>>) = <<>>
    BY <2>1, ConvertedStep DEF TargetNames
  <2>3. <<>> \in Seq(WholeWires) /\ <<>> \in Seq(M)
    BY EmptySeq
  <2>4. QED
    BY <2>2, <2>3
<1>2. ASSUME NEW s \in Seq(M), NEW m \in M, s \in T PROVE Append(s, m) \in T
  <2> DEFINE names == NamesAfter(s)
             x == Converted("gemini", s)
             w == WiresOf("gemini", names, m)
  <2>1. s \in Seq(S) /\ m \in S
    BY SpeakableTyped
  <2>2. NamesTyped(names) /\ Converted("gemini", Append(s, m)) = x \o w
    BY <2>1, NamesAfterFacts, ConvertedStep DEF TargetNames
  <2>3. x \in Seq(WholeWires)
    BY <1>2
  <2>4. w \in Seq(WholeWires)
    <3> HIDE DEF names
    <3>1. QED
      BY <2>2, GeminiWholeWires
  <2>5. Append(s, m) \in Seq(M)
    <3> HIDE DEF M
    <3>1. QED
      OBVIOUS
  <2> HIDE DEF x, w, M
  <2>6. x \o w \in Seq(WholeWires)
    BY <2>3, <2>4
  <2>7. QED
    BY <2>2, <2>5, <2>6
<1> HIDE DEF T, M
<1>3. \A s \in Seq(M) : s \in T
  BY <1>1, <1>2, SeqInduction, Z3
<1>4. QED
  BY <1>3 DEF T, M

-----------------------------------------------------------------------------
(* What is seen of an answer, however it is merged *)

\* What Named gives, field by field.
LEMMA NamedFields ==
  ASSUME NEW b \in ContentBlocks
  PROVE  /\ Named(b) \in MessageBlocks /\ Named(b).type = b.type /\ Named(b).id = b.id
         /\ Named(b).body = b.body /\ Named(b).data = b.data
         /\ Named(b).signature = b.signature /\ Named(b).failed = FALSE
         /\ Named(b).name = IF b.type # "tool_use" THEN 0
                            ELSE IF provider # "ollama_tools" \/ b.body = <<>> THEN b.id
                            ELSE b.body[1][1]
         /\ b.type \in BlockTypes
<1> DEFINE name == IF b.type # "tool_use" THEN 0
                   ELSE IF provider # "ollama_tools" \/ b.body = <<>> THEN b.id
                   ELSE b.body[1][1]
<1>1. Named(b) = Block(b.type, b.id, name, b.body, b.data, b.signature, FALSE)
  BY DEF Named
<1> HIDE DEF name
<1>2. /\ Named(b).type = b.type /\ Named(b).id = b.id /\ Named(b).body = b.body
      /\ Named(b).data = b.data /\ Named(b).signature = b.signature /\ Named(b).failed = FALSE
      /\ Named(b).name = name
  BY <1>1 DEF Block
<1>3. Named(b) \in MessageBlocks /\ b.type \in BlockTypes
  BY NamedTyped DEF ContentBlocks
<1>4. QED
  BY <1>2, <1>3 DEF name

\* What g sees of a block does not depend on how an answer is merged.
Mergeable(g, B) ==
  /\ Maps(g, ContentBlocks, B)
  /\ \A b \in ContentBlocks : g[Plainly(b)] = g[b]
  /\ \A z, b \in ContentBlocks :
       z.type = "text" /\ b.type = "text" => g[Grown(z, b)] = g[z] \o g[b]

\* Then it does not of one block more.
LEMMA MergeSeen ==
  ASSUME NEW g, NEW B, Mergeable(g, B), NEW m \in Seq(ContentBlocks), NEW b \in ContentBlocks
  PROVE  Flat(g, Merge(m, b)) = Flat(g, m) \o g[b]
<1>1. Maps(g, ContentBlocks, B) /\ g[Plainly(b)] = g[b]
  BY DEF Mergeable
<1>2. Plainly(b) \in ContentBlocks
  BY PlainlyType
<1>3. Flat(g, Append(m, Plainly(b))) = Flat(g, m) \o g[b]
  <2> DEFINE p == Plainly(b)
  <2>1. p \in ContentBlocks
    BY <1>2
  <2> HIDE DEF p
  <2>2. Flat(g, Append(m, p)) = Flat(g, m) \o g[p]
    BY <1>1, <2>1, FlatAppend
  <2>3. QED
    BY <1>1, <2>2 DEF p
<1>4. CASE m = <<>>
  BY <1>3, <1>4, MergeFirst
<1>5. CASE m # <<>>
  <2>1. PICK u \in Seq(ContentBlocks), z \in ContentBlocks : m = Append(u, z)
    BY <1>5, AppendedLast
  <2>2. CASE z.type = "text" /\ b.type = "text"
    <3>1. Merge(m, b) = Append(u, Grown(z, b)) /\ Grown(z, b) \in ContentBlocks
      BY <2>1, <2>2, MergeAfter, GrownType
    <3>2. Flat(g, Append(u, Grown(z, b))) = Flat(g, u) \o g[Grown(z, b)]
      BY <1>1, <3>1, FlatAppend
    <3>3. g[Grown(z, b)] = g[z] \o g[b]
      BY <2>2 DEF Mergeable
    <3>4. Flat(g, m) = Flat(g, u) \o g[z]
      BY <1>1, <2>1, FlatAppend
    <3>5. Flat(g, u) \in Seq(B) /\ g[z] \in Seq(B) /\ g[b] \in Seq(B)
      BY <1>1, FlatType DEF Maps
    <3> DEFINE x == Flat(g, u)
               y == g[z]
               w == g[b]
    <3> HIDE DEF x, y, w
    <3>6. (x \o y) \o w = x \o (y \o w)
      <4>1. x \in Seq(B) /\ y \in Seq(B) /\ w \in Seq(B)
        BY <3>5 DEF x, y, w
      <4>2. Associates(B)
        BY AllAssociate
      <4>3. QED
        BY <4>1, <4>2 DEF Associates
    <3>7. QED
      BY <3>1, <3>2, <3>3, <3>4, <3>6 DEF x, y, w
  <2>3. CASE ~(z.type = "text" /\ b.type = "text")
    <3>1. Merge(m, b) = Append(m, Plainly(b))
      BY <2>1, <2>3, MergeAfter
    <3>2. QED
      BY <1>3, <3>1
  <2>4. QED
    BY <2>2, <2>3
<1>6. QED
  BY <1>4, <1>5

\* Nor does it of the whole answer.
LEMMA MergedSeen ==
  ASSUME NEW g, NEW B, Mergeable(g, B), NEW s \in Seq(ContentBlocks)
  PROVE  Flat(g, Merged(s)) = Flat(g, s)
<1> DEFINE T == {c \in Seq(ContentBlocks) : Flat(g, Merged(c)) = Flat(g, c)}
<1>1. <<>> \in T
  BY MergedNone, EmptySeq
<1>2. ASSUME NEW c \in Seq(ContentBlocks), NEW b \in ContentBlocks, c \in T
      PROVE  Append(c, b) \in T
  <2>1. Merged(Append(c, b)) = Merge(Merged(c), b) /\ Merged(c) \in Seq(ContentBlocks)
    BY MergedAppend, MergedType
  <2>2. Flat(g, Merge(Merged(c), b)) = Flat(g, Merged(c)) \o g[b]
    BY <2>1, MergeSeen
  <2>3. Flat(g, Append(c, b)) = Flat(g, c) \o g[b]
    BY FlatAppend DEF Mergeable
  <2>4. QED
    BY <1>2, <2>1, <2>2, <2>3, AppendProperties
<1>3. \A c \in Seq(ContentBlocks) : c \in T
  <2> HIDE DEF T
  <2>1. QED
    BY <1>1, <1>2, SeqInduction, Z3
<1>4. QED
  BY <1>3

\* What f sees of a block of an answer, as a block of a message.
Through(f) == [b \in ContentBlocks |-> f[Named(b)]]

\* A call of an answer means the same with {} for its arguments as with none.
LEMMA PlainlyMeans ==
  ASSUME NEW b \in ContentBlocks
  PROVE  Meaning(Named(Plainly(b))) = Meaning(Named(b))
<1> DEFINE c == Plainly(b)
           x == Named(c)
           y == Named(b)
<1>1. /\ c \in ContentBlocks /\ c.type = b.type /\ c.id = b.id /\ c.data = b.data
      /\ c.signature = b.signature
  BY PlainlyType
<1>2. CASE b.type = "tool_use" /\ b.body = NoArguments(b.id)
  <2>1. c.body = <<>>
    BY <1>2 DEF Plainly, ContentBlocks
  <2>2. b.body[1][1] = b.id /\ b.body # <<>>
    BY <1>2 DEF NoArguments
  <2> HIDE DEF c
  <2>3. /\ x \in MessageBlocks /\ x.type = b.type /\ x.id = b.id /\ x.name = b.id /\ x.body = <<>>
        /\ x.data = b.data /\ x.signature = b.signature /\ x.failed = FALSE
    BY <1>1, <1>2, <2>1, NamedFields
  <2>4. /\ y \in MessageBlocks /\ y.type = b.type /\ y.id = b.id /\ y.name = b.id
        /\ y.body = NoArguments(b.id) /\ y.data = b.data /\ y.signature = b.signature
        /\ y.failed = FALSE
    BY <1>2, <2>2, NamedFields
  <2> HIDE DEF x, y
  <2> DEFINE n == IF target \in {"gemini", "ollama"} THEN 0 ELSE b.id
             g == IF target # "gemini" THEN <<>> ELSE b.signature
  <2>5. /\ Meaning(x) \in MessageBlocks /\ Meaning(x).type = b.type /\ Meaning(x).id = n
        /\ Meaning(x).name = b.id /\ Meaning(x).body = <<>> /\ Meaning(x).data = b.data
        /\ Meaning(x).signature = g /\ Meaning(x).failed = FALSE
    BY <1>2, <2>3, MeaningTyped
  <2>6. /\ Meaning(y) \in MessageBlocks /\ Meaning(y).type = b.type /\ Meaning(y).id = n
        /\ Meaning(y).name = b.id /\ Meaning(y).body = <<>> /\ Meaning(y).data = b.data
        /\ Meaning(y).signature = g /\ Meaning(y).failed = FALSE
    BY <1>2, <2>4, MeaningTyped
  <2> HIDE DEF n, g
  <2>7. Meaning(x) = Meaning(y)
    BY <2>5, <2>6, SameBlock
  <2>8. QED
    BY <2>7 DEF x, y, c
<1>3. CASE ~(b.type = "tool_use" /\ b.body = NoArguments(b.id))
  BY <1>3 DEF Plainly
<1>4. QED
  BY <1>2, <1>3

\* Texts, calls, media and results do not depend on how an answer is merged.
LEMMA AllMergeable ==
  /\ Mergeable(Through(Texting), Nat \X Nat)
  /\ Mergeable(Through(Calling), MessageBlocks)
  /\ Mergeable(Through(Showing), MessageBlocks)
  /\ \A t : Mergeable(Through(ToTell(t)), Outcomes)
<1>1. ASSUME NEW f, NEW B, Maps(f, MessageBlocks, B)
      PROVE  Maps(Through(f), ContentBlocks, B) /\ \A b \in ContentBlocks : Through(f)[b] = f[Named(b)]
  BY <1>1, NamedTyped DEF Maps, Through
<1>2. \A b \in ContentBlocks :
        /\ Named(b) \in MessageBlocks /\ Named(b).type = b.type /\ Named(b).body = b.body
        /\ b.type \notin {"image", "document", "tool_result"}
  BY NamedFields DEF BlockTypes
<1>3. \A b \in ContentBlocks : /\ Plainly(b) \in ContentBlocks /\ Plainly(b).type = b.type
                               /\ b.type # "tool_use" => Plainly(b) = b
  BY PlainlyType
<1>4. \A z, b \in ContentBlocks : /\ Grown(z, b) \in ContentBlocks /\ Grown(z, b).type = z.type
                                  /\ Grown(z, b).body = z.body \o b.body
  BY GrownType
<1>5. <<>> \o <<>> = <<>>
  OBVIOUS
<1>6. Mergeable(Through(Texting), Nat \X Nat)
  <2>1. \A b \in ContentBlocks : Through(Texting)[b] = IF b.type = "text" THEN b.body ELSE <<>>
    <3>1. \A b \in ContentBlocks : Through(Texting)[b] = Texting[Named(b)]
      BY DEF Through
    <3>2. QED
      BY <1>2, <3>1, SeesTypes
  <2>2. Maps(Through(Texting), ContentBlocks, Nat \X Nat)
    BY <1>1, SeenMaps
  <2>3. \A b \in ContentBlocks : Through(Texting)[Plainly(b)] = Through(Texting)[b]
    BY <1>3, <2>1
  <2>4. \A z, b \in ContentBlocks : z.type = "text" /\ b.type = "text" =>
          Through(Texting)[Grown(z, b)] = Through(Texting)[z] \o Through(Texting)[b]
    <3>1. SUFFICES ASSUME NEW z \in ContentBlocks, NEW b \in ContentBlocks,
                          z.type = "text", b.type = "text"
                   PROVE  Through(Texting)[Grown(z, b)]
                            = Through(Texting)[z] \o Through(Texting)[b]
      OBVIOUS
    <3> DEFINE y == Grown(z, b)
    <3>2. y \in ContentBlocks /\ y.type = "text" /\ y.body = z.body \o b.body
      BY <1>4, <3>1
    <3> HIDE DEF y
    <3>3. /\ Through(Texting)[y] = y.body /\ Through(Texting)[z] = z.body
          /\ Through(Texting)[b] = b.body
      BY <2>1, <3>1, <3>2
    <3>4. QED
      BY <3>2, <3>3 DEF y
  <2>5. QED
    BY <2>2, <2>3, <2>4 DEF Mergeable
<1>7. Mergeable(Through(Calling), MessageBlocks)
  <2>1. \A b \in ContentBlocks :
          Through(Calling)[b] = IF b.type = "tool_use" THEN <<Meaning(Named(b))>> ELSE <<>>
    BY <1>1, <1>2, SeenMaps DEF Calling
  <2>2. Maps(Through(Calling), ContentBlocks, MessageBlocks)
    BY <1>1, SeenMaps
  <2>3. \A b \in ContentBlocks : Through(Calling)[Plainly(b)] = Through(Calling)[b]
    BY <1>3, <2>1, PlainlyMeans
  <2>4. \A z, b \in ContentBlocks : z.type = "text" /\ b.type = "text" =>
          Through(Calling)[Grown(z, b)] = Through(Calling)[z] \o Through(Calling)[b]
    BY <1>4, <1>5, <2>1
  <2>5. QED
    BY <2>2, <2>3, <2>4 DEF Mergeable
<1>8. ASSUME NEW f, NEW B, Maps(f, MessageBlocks, B),
             \A b \in MessageBlocks : b.type \notin {"image", "document", "tool_result"} => f[b] = <<>>
      PROVE  Mergeable(Through(f), B)
  <2>1. \A b \in ContentBlocks : Through(f)[b] = <<>>
    BY <1>1, <1>2, <1>8
  <2>2. Maps(Through(f), ContentBlocks, B)
    BY <1>1, <1>8
  <2>3. QED
    BY <1>3, <1>4, <1>5, <2>1, <2>2 DEF Mergeable
<1>9. Mergeable(Through(Showing), MessageBlocks)
  BY <1>8, SeenMaps, SeesTypes
<1>10. ASSUME NEW t PROVE Mergeable(Through(ToTell(t)), Outcomes)
  <2>1. \A b \in MessageBlocks :
          b.type \notin {"image", "document", "tool_result"} => ToTell(t)[b] = <<>>
    BY DEF ToTell
  <2>2. Maps(ToTell(t), MessageBlocks, Outcomes)
    BY SeenMaps
  <2>3. QED
    BY <1>8, <2>1, <2>2
<1>11. QED
  BY <1>6, <1>7, <1>9, <1>10

\* Two forms of an answer, merged alike, are seen alike as messages.
LEMMA SeenAlike ==
  ASSUME NEW f, NEW B, Maps(f, MessageBlocks, B), Mergeable(Through(f), B),
         NEW a \in Seq(ContentBlocks), NEW b \in Seq(ContentBlocks), Merged(a) = Merged(b)
  PROVE  Flat(f, AssistantBlocks(a).content) = Flat(f, AssistantBlocks(b).content)
<1> DEFINE g == [x \in ContentBlocks |-> Named(x)]
           k == [x \in ContentBlocks |-> <<g[x]>>]
<1>1. ASSUME NEW s \in Seq(ContentBlocks)
      PROVE  Flat(f, AssistantBlocks(s).content) = Flat(Through(f), s)
  <2> DEFINE c == AssistantBlocks(s).content
  <2>1. c = [i \in 1 .. Len(s) |-> Named(s[i])]
    BY DEF AssistantBlocks, Message
  <2>2. \A i \in 1 .. Len(s) : s[i] \in ContentBlocks
    BY ElementOfSeq
  <2> HIDE DEF c
  <2>3. c = Flat(k, s)
    <3>1. c = [i \in 1 .. Len(s) |-> g[s[i]]]
      BY <2>1, <2>2
    <3>2. \A x \in ContentBlocks : k[x] = <<g[x]>>
      OBVIOUS
    <3> HIDE DEF g, k
    <3>3. QED
      BY <3>1, <3>2, FlatEach
  <2>4. Maps(k, ContentBlocks, MessageBlocks)
    BY NamedTyped, OneBlock DEF Maps
  <2>5. \A x \in ContentBlocks : Through(f)[x] = Flat(f, k[x])
    <3>1. SUFFICES ASSUME NEW x \in ContentBlocks PROVE Through(f)[x] = Flat(f, k[x])
      OBVIOUS
    <3>2. k[x] = <<Named(x)>> /\ Named(x) \in MessageBlocks
      BY NamedTyped
    <3>3. Through(f)[x] = f[Named(x)]
      BY DEF Through
    <3> HIDE DEF k
    <3>4. QED
      BY <3>2, <3>3, FlatOne
  <2> HIDE DEF k
  <2>6. Flat(f, Flat(k, s)) = Flat(Through(f), s)
    BY <2>4, <2>5, FlatFlat
  <2>7. QED
    BY <2>3, <2>6 DEF c
<1>2. Flat(Through(f), a) = Flat(Through(f), b)
  BY MergedSeen
<1>3. QED
  BY <1>1, <1>2

\* What a block of the answer means to the target, as a block of a message.
Meant == [b \in ContentBlocks |-> Meaning(Named(b))]
AsMeant == [b \in ContentBlocks |-> <<Meant[b]>>]

\* The meaning of a block of the answer, to Anthropic.
LEMMA MeantFacts ==
  ASSUME target = "anthropic", NEW b \in ContentBlocks
  PROVE  /\ Meant[b] \in MessageBlocks /\ Meant[b].type = b.type /\ Meant[b].id = b.id
         /\ Meant[b].data = b.data /\ Meant[b].failed = FALSE
         /\ b.type # "tool_use" => /\ Meant[b].body = b.body /\ Meant[b].name = 0
                                   /\ Meant[b].signature = b.signature
         /\ Plainly(Meant[b]) = Meant[b]
         /\ Meant[Plainly(b)] = Meant[b]
<1> DEFINE x == Named(b)
           y == Meaning(x)
<1>1. /\ x \in MessageBlocks /\ x.type = b.type /\ x.id = b.id /\ x.body = b.body
      /\ x.data = b.data /\ x.signature = b.signature /\ x.failed = FALSE
      /\ x.name = IF b.type # "tool_use" THEN 0
                  ELSE IF provider # "ollama_tools" \/ b.body = <<>> THEN b.id
                  ELSE b.body[1][1]
  BY NamedFields
<1>2. Meant[b] = y
  BY DEF Meant
<1> HIDE DEF x
<1>3. /\ y \in MessageBlocks /\ y.type = x.type /\ y.id = x.id /\ y.name = x.name
      /\ y.data = x.data /\ y.failed = x.failed
      /\ y.body = IF x.type = "tool_use" /\ x.body = NoArguments(x.name) THEN <<>> ELSE x.body
      /\ y.signature = IF x.type = "tool_use" /\ target # "gemini" THEN <<>> ELSE x.signature
  BY <1>1, MeaningTyped
<1> HIDE DEF y
<1>4. Plainly(y) = y
  <2>1. ASSUME y.type = "tool_use", y.body = NoArguments(y.id) PROVE FALSE
    <3>1. NoArguments(y.id) # <<>> /\ NoArguments(b.id)[1][1] = b.id
      BY DEF NoArguments
    <3>2. x.body = NoArguments(b.id)
      BY <1>1, <1>3, <2>1, <3>1
    <3>3. x.name = b.id
      BY <1>1, <1>3, <2>1, <3>1, <3>2
    <3>4. QED
      BY <1>1, <1>3, <2>1, <3>1, <3>2, <3>3
  <2>2. QED
    BY <2>1 DEF Plainly
<1>5. Meant[Plainly(b)] = Meant[b]
  BY PlainlyType, PlainlyMeans DEF Meant
<1>6. QED
  BY <1>1, <1>2, <1>3, <1>4, <1>5

\* The meaning of a text that has grown.
LEMMA MeantGrown ==
  ASSUME target = "anthropic", NEW z \in ContentBlocks, NEW b \in ContentBlocks,
         z.type = "text", b.type = "text"
  PROVE  Meant[Grown(z, b)] = Grown(Meant[z], Meant[b])
<1> DEFINE g == Grown(z, b)
           x == Meant[z]
           y == Meant[b]
           v == Grown(x, y)
<1>1. /\ g \in ContentBlocks /\ g.type = "text" /\ g.id = z.id /\ g.data = z.data
      /\ g.signature = z.signature /\ g.body = z.body \o b.body
  BY GrownType
<1>2. /\ x \in MessageBlocks /\ x.type = "text" /\ x.id = z.id /\ x.data = z.data
      /\ x.failed = FALSE /\ x.body = z.body /\ x.name = 0 /\ x.signature = z.signature
      /\ y \in MessageBlocks /\ y.body = b.body
  BY MeantFacts
<1> HIDE DEF g
<1>3. /\ Meant[g] \in MessageBlocks /\ Meant[g].type = "text" /\ Meant[g].id = z.id
      /\ Meant[g].data = z.data /\ Meant[g].failed = FALSE /\ Meant[g].body = z.body \o b.body
      /\ Meant[g].name = 0 /\ Meant[g].signature = z.signature
  BY <1>1, MeantFacts
<1> HIDE DEF x, y
<1>4. z.body \o b.body \in Strings
  BY StringFacts DEF ContentBlocks
<1>5. v = [x EXCEPT !.body = z.body \o b.body]
  BY <1>2 DEF Grown
<1> HIDE DEF v
<1>6. /\ v \in MessageBlocks /\ v.type = x.type /\ v.id = x.id /\ v.data = x.data
      /\ v.failed = x.failed /\ v.name = x.name /\ v.signature = x.signature
      /\ v.body = z.body \o b.body
  BY <1>2, <1>4, <1>5 DEF MessageBlocks
<1>7. Meant[g] = v
  BY <1>2, <1>3, <1>6, SameBlock
<1>8. QED
  BY <1>7 DEF g, v, x, y

\* Merging what is meant is meaning what is merged: one block more.
LEMMA MeantMerge ==
  ASSUME target = "anthropic", NEW m \in Seq(ContentBlocks), NEW b \in ContentBlocks
  PROVE  Merge(Flat(AsMeant, m), Meant[b]) = Flat(AsMeant, Merge(m, b))
<1>1. Maps(AsMeant, ContentBlocks, MessageBlocks)
  BY MeantFacts, OneBlock DEF Maps, AsMeant
<1>2. \A s \in Seq(ContentBlocks), x \in ContentBlocks :
        /\ Flat(AsMeant, s) \in Seq(MessageBlocks)
        /\ Flat(AsMeant, Append(s, x)) = Append(Flat(AsMeant, s), Meant[x])
  <2>1. SUFFICES ASSUME NEW s \in Seq(ContentBlocks), NEW x \in ContentBlocks
                 PROVE  /\ Flat(AsMeant, s) \in Seq(MessageBlocks)
                        /\ Flat(AsMeant, Append(s, x)) = Append(Flat(AsMeant, s), Meant[x])
    OBVIOUS
  <2>2. Flat(AsMeant, s) \in Seq(MessageBlocks)
    BY <1>1, FlatType
  <2>3. Flat(AsMeant, Append(s, x)) = Flat(AsMeant, s) \o AsMeant[x]
    BY <1>1, FlatAppend
  <2>4. AsMeant[x] = <<Meant[x]>> /\ Meant[x] \in MessageBlocks
    BY MeantFacts DEF AsMeant
  <2> DEFINE f == Flat(AsMeant, s)
             e == Meant[x]
  <2> HIDE DEF f, e
  <2>5. f \o <<e>> = Append(f, e)
    BY <2>2, <2>4 DEF f, e
  <2>6. QED
    BY <2>2, <2>3, <2>4, <2>5 DEF f, e
<1>3. /\ Plainly(b) \in ContentBlocks /\ Meant[b] \in MessageBlocks
      /\ Plainly(Meant[b]) = Meant[b] /\ Meant[Plainly(b)] = Meant[b] /\ Meant[b].type = b.type
  BY MeantFacts, PlainlyType
<1>4. CASE m = <<>>
  <2>1. Merge(m, b) = Append(m, Plainly(b)) /\ Flat(AsMeant, m) = <<>>
    BY <1>4, MergeFirst, FlatNone
  <2>2. Merge(<<>>, Meant[b]) = Append(<<>>, Meant[b])
    BY <1>3, MergeFirst
  <2>3. QED
    BY <1>2, <1>3, <2>1, <2>2
<1>5. CASE m # <<>>
  <2>1. PICK u \in Seq(ContentBlocks), z \in ContentBlocks : m = Append(u, z)
    BY <1>5, AppendedLast
  <2> DEFINE f == Flat(AsMeant, u)
             x == Meant[z]
             y == Meant[b]
  <2>2. /\ f \in Seq(MessageBlocks) /\ x \in MessageBlocks /\ x.type = z.type
        /\ Flat(AsMeant, m) = Append(f, x)
    BY <1>2, <2>1, MeantFacts
  <2>3. Grown(x, y) \in MessageBlocks
    <3>1. x.body \o y.body \in Strings
      BY <1>3, <2>2, StringFacts DEF MessageBlocks
    <3> HIDE DEF x, y
    <3>2. QED
      BY <2>2, <3>1 DEF Grown, MessageBlocks
  <2>4. Merge(Append(f, x), y) = IF z.type = "text" /\ b.type = "text" THEN Append(f, Grown(x, y))
                                 ELSE Append(Append(f, x), y)
    <3>1. y.type = b.type /\ Plainly(y) = y
      BY <1>3
    <3> HIDE DEF f, x, y
    <3>2. Merge(Append(f, x), y) = IF x.type = "text" /\ y.type = "text" THEN Append(f, Grown(x, y))
                                   ELSE Append(Append(f, x), Plainly(y))
      BY <2>2, <2>3, MergeOnto
    <3>3. QED
      BY <2>2, <3>1, <3>2
  <2>5. CASE z.type = "text" /\ b.type = "text"
    <3>1. Merge(m, b) = Append(u, Grown(z, b)) /\ Grown(z, b) \in ContentBlocks
      BY <2>1, <2>5, MergeAfter, GrownType
    <3>2. Flat(AsMeant, Append(u, Grown(z, b))) = Append(f, Meant[Grown(z, b)])
      BY <1>2, <3>1
    <3>3. Meant[Grown(z, b)] = Grown(x, y)
      BY <2>5, MeantGrown
    <3>4. QED
      BY <2>2, <2>4, <2>5, <3>1, <3>2, <3>3
  <2>6. CASE ~(z.type = "text" /\ b.type = "text")
    <3>1. Merge(m, b) = Append(m, Plainly(b))
      BY <2>1, <2>6, MergeAfter
    <3>2. Flat(AsMeant, Append(m, Plainly(b))) = Append(Append(f, x), y)
      BY <1>2, <1>3, <2>2
    <3>3. QED
      BY <2>2, <2>4, <2>6, <3>1, <3>2
  <2>7. QED
    BY <2>5, <2>6
<1>6. QED
  BY <1>4, <1>5

\* Merging what is meant is meaning what is merged.
LEMMA MeantMerged ==
  ASSUME target = "anthropic", NEW s \in Seq(ContentBlocks)
  PROVE  Merged(Flat(AsMeant, s)) = Flat(AsMeant, Merged(s))
<1> DEFINE T == {c \in Seq(ContentBlocks) : Merged(Flat(AsMeant, c)) = Flat(AsMeant, Merged(c))}
<1>1. Maps(AsMeant, ContentBlocks, MessageBlocks)
  BY MeantFacts, OneBlock DEF Maps, AsMeant
<1>2. <<>> \in T
  BY MergedNone, FlatNone, EmptySeq
<1>3. ASSUME NEW c \in Seq(ContentBlocks), NEW b \in ContentBlocks, c \in T
      PROVE  Append(c, b) \in T
  <2> DEFINE f == Flat(AsMeant, c)
  <2>1. Meant[b] \in MessageBlocks /\ AsMeant[b] = <<Meant[b]>>
    BY MeantFacts DEF AsMeant
  <2>2. f \in Seq(MessageBlocks) /\ Flat(AsMeant, Append(c, b)) = f \o <<Meant[b]>>
    <3>1. f \in Seq(MessageBlocks)
      BY <1>1, FlatType
    <3>2. Flat(AsMeant, Append(c, b)) = f \o AsMeant[b]
      BY <1>1, FlatAppend
    <3> HIDE DEF f
    <3>3. QED
      BY <2>1, <3>1, <3>2
  <2>3. Merged(Append(c, b)) = Merge(Merged(c), b) /\ Merged(c) \in Seq(ContentBlocks)
    BY MergedAppend, MergedType
  <2>4. Merge(Flat(AsMeant, Merged(c)), Meant[b]) = Flat(AsMeant, Merge(Merged(c), b))
    BY <2>3, MeantMerge
  <2>5. Merged(f) = Flat(AsMeant, Merged(c))
    BY <1>3
  <2> HIDE DEF f
  <2>6. f \o <<Meant[b]>> = Append(f, Meant[b])
    BY <2>1, <2>2
  <2>7. Merged(Append(f, Meant[b])) = Merge(Merged(f), Meant[b])
    BY <2>1, <2>2, MergedOne
  <2>8. QED
    BY <2>2, <2>3, <2>4, <2>5, <2>6, <2>7, AppendProperties
<1>4. \A c \in Seq(ContentBlocks) : c \in T
  <2> HIDE DEF T
  <2>1. QED
    BY <1>2, <1>3, SeqInduction, Z3
<1>5. QED
  BY <1>4

-----------------------------------------------------------------------------
(* The messages before and after the answer *)

\* A sequence of two is of one and of one.
LEMMA TwoListed == \A x, y : <<x, y>> = <<x>> \o <<y>>
<1> SUFFICES ASSUME NEW x, NEW y PROVE <<x, y>> = <<x>> \o <<y>>
  OBVIOUS
<1> DEFINE A == {x, y}
           s == <<x>>
           u == <<y>>
<1>1. s \in Seq(A) /\ y \in A
  OBVIOUS
<1> HIDE DEF A, s
<1>2. Append(s, y) = s \o <<y>>
  BY <1>1
<1>3. Append(<<x>>, y) = <<x, y>>
  BY Listed
<1>4. QED
  BY <1>2, <1>3 DEF s

\* The contents of one message before others.
LEMMA ContentsBegin ==
  ASSUME NEW m \in Messages, NEW n \in Messages
  PROVE  /\ Flat(ContentOf, <<m>>) = m.content
         /\ Flat(ContentOf, <<m, n>>) = m.content \o n.content
<1>1. Maps(ContentOf, Messages, MessageBlocks) /\ \A x \in Messages : ContentOf[x] = x.content
  BY DEF Maps, ContentOf, Messages
<1>2. \A x \in Messages : Flat(ContentOf, <<x>>) = x.content /\ <<x>> \in Seq(Messages)
  <2>1. \A x \in Messages : <<x>> \in Seq(Messages)
    <3> DEFINE M == Messages
    <3> HIDE DEF M
    <3>1. \A x \in M : <<x>> \in Seq(M)
      OBVIOUS
    <3>2. QED
      BY <3>1, Zenon DEF M
  <2>2. \A x \in Messages : Flat(ContentOf, <<x>>) = ContentOf[x]
    <3>1. Maps(ContentOf, Messages, MessageBlocks)
      BY <1>1
    <3>2. QED
      BY <3>1, FlatOne, Zenon
  <2>3. QED
    BY <1>1, <2>1, <2>2
<1>3. Joins(ContentOf, Messages)
  BY <1>1, FlatJoins
<1>4. Flat(ContentOf, <<m>> \o <<n>>) = m.content \o n.content
  BY <1>2, <1>3 DEF Joins
<1>5. QED
  BY <1>2, <1>4, TwoListed

\* Targets that take no documents.
Documentless == {"openai", "responses", "ollama"}

\* What may be before an answer can be spoken, unless it is refused.
LEMMA OpeningsSpeak ==
  ASSUME NEW t, NEW before \in Openings,
         t \in Documentless => Of(Flat(ContentOf, before), {"document"}) = <<>>
  PROVE  before \in Seq(Speakable(t))
<1> DEFINE question == Message("user", <<Words(Said)>>)
           calling == Message("assistant", <<EarlierCall>>)
           told == Message("tool", <<EarlierResult>>)
           P == Speakable(t)
           C == Clear(t)
           Medias == {Media("image", Inline), Media("image", URL), Media("image", <<>>),
                      Media("document", Inline)}
           Asked(x) == Message("user", <<Words(<<>>), x>>)
<1>1. \A text \in Strings : Words(text) \in C /\ Words(text) \in Typed({"text", "image", "document"})
  <2>1. \A text : Words(text).type = "text"
    BY DEF Words, Block
  <2>2. QED
    BY <2>1, BlocksTyped DEF Clear, Typed
<1>2. ASSUME NEW c \in Seq(Typed({"text", "image", "document"})), c \in Seq(C)
      PROVE  Message("user", c) \in P
  <2>1. Message("user", c) \in Sayable(t)
    BY ResultlessMessage DEF Asking
  <2>2. Message("user", c).content = c
    BY DEF Message
  <2>3. QED
    BY <1>2, <2>1, <2>2 DEF Speakable
<1>3. question \in P
  <2> DEFINE w == Words(Said)
             c == <<w>>
  <2>1. w \in C /\ w \in Typed({"text", "image", "document"})
    BY <1>1, Texts
  <2> HIDE DEF C, w
  <2>2. c \in Seq(C) /\ c \in Seq(Typed({"text", "image", "document"}))
    BY <2>1
  <2> HIDE DEF c, P
  <2>3. Message("user", c) \in P
    BY <1>2, <2>2
  <2>4. QED
    BY <2>3 DEF c, w
<1>4. \A x \in Medias : /\ x \in Typed({"text", "image", "document"})
                        /\ x.type # "document" \/ t \notin Documentless => x \in C
  <2>1. SUFFICES ASSUME NEW x \in Medias
                 PROVE  /\ x \in Typed({"text", "image", "document"})
                        /\ x.type # "document" \/ t \notin Documentless => x \in C
    OBVIOUS
  <2>2. PICK type \in {"image", "document"}, d \in {Inline, URL, <<>>} : x = Media(type, d)
    OBVIOUS
  <2>3. d \in Strings
    BY Texts
  <2>4. x \in MessageBlocks
    BY <2>2, <2>3, BlocksTyped
  <2>5. x.type = type /\ x.name = 0 /\ x.signature = <<>>
    BY <2>2 DEF Media, Block
  <2>6. QED
    BY <2>4, <2>5 DEF Clear, Typed, Documentless
<1>5. \A x \in Medias : /\ x.type # "document" \/ t \notin Documentless => Asked(x) \in P
                        /\ Asked(x) \in Messages /\ Asked(x).content = <<Words(<<>>)>> \o <<x>>
  <2>1. SUFFICES ASSUME NEW x \in Medias
                 PROVE  /\ x.type # "document" \/ t \notin Documentless => Asked(x) \in P
                        /\ Asked(x) \in Messages /\ Asked(x).content = <<Words(<<>>)>> \o <<x>>
    OBVIOUS
  <2> DEFINE w == Words(<<>>)
             c == <<w, x>>
             K == Typed({"text", "image", "document"})
  <2>2. w \in C /\ w \in K /\ x \in K
    BY <1>1, <1>4, Texts
  <2>3. x.type # "document" \/ t \notin Documentless => x \in C
    BY <1>4
  <2>4. K \subseteq MessageBlocks
    BY TypedSubset
  <2> HIDE DEF C, K, w, Medias, P
  <2>5. c \in Seq(K) /\ c \in Seq(MessageBlocks) /\ (x \in C => c \in Seq(C))
    BY <2>2, <2>4
  <2>6. c = <<w>> \o <<x>>
    BY TwoListed
  <2> HIDE DEF c
  <2>7. x \in C => Message("user", c) \in P
    BY <1>2, <2>5 DEF K
  <2>8. Message("user", c) \in Messages /\ Message("user", c).content = c
    BY <2>5, MessageTyped DEF Message
  <2>9. QED
    BY <2>3, <2>6, <2>7, <2>8 DEF c, w
<1>6. calling \in P
  <2> DEFINE b == EarlierCall
             c == <<b>>
  <2>1. b \in MessageBlocks /\ b.type = "tool_use"
    BY EarlierFacts
  <2>2. b \in C
    BY <2>1 DEF Clear
  <2> HIDE DEF b, C
  <2>3. c \in Seq(C)
    BY <2>2
  <2>4. calling \in Sayable(t) /\ calling.content = c
    BY CallingMessage DEF Resultless, c, b
  <2>5. QED
    BY <2>3, <2>4 DEF Speakable, C
<1>7. told \in P
  <2> DEFINE b == EarlierResult
             c == <<b>>
  <2>1. b \in MessageBlocks /\ b.type = "tool_result"
    BY EarlierFacts
  <2>2. b.body # <<>>
    BY Texts DEF EarlierResult, ToolResultBlock, Block
  <2>3. b \in C /\ b \in Typed(KindsOf("tool"))
    BY <2>1, <2>2 DEF Clear, Typed, KindsOf
  <2> HIDE DEF b, C
  <2>4. c \in Seq(C) /\ c \in Seq(Typed(KindsOf("tool")))
    BY <2>3
  <2> HIDE DEF c
  <2>5. Message("tool", c) \in Sayable(t) /\ Message("tool", c).content = c
    BY <2>4, AskingMessage DEF Asking, Message
  <2>6. QED
    BY <2>4, <2>5 DEF Speakable, C, c, b
<1>8. \/ before = <<question>>
      \/ \E x \in Medias : before = <<Asked(x), question>>
      \/ before = <<question, calling, told>>
      \/ before = <<told>>
  BY DEF Openings
<1>9. P \subseteq Messages
  BY SpeakableTyped
<1>10. question.content = <<Words(Said)>> /\ <<Words(Said)>> \in Seq(MessageBlocks)
  BY SaidWord DEF Message
<1>11. Medias \subseteq MessageBlocks /\ Words(<<>>) \in MessageBlocks
  <2>1. Medias \subseteq MessageBlocks
    <3> HIDE DEF Medias
    <3>1. QED
      BY <1>4, TypedSubset
  <2>2. Words(<<>>) \in MessageBlocks
    BY Texts, BlocksTyped
  <2>3. QED
    BY <2>1, <2>2
<1> HIDE DEF question, calling, told, P, C, Medias, Asked
<1>12. CASE \E x \in Medias : before = <<Asked(x), question>>
  <2>1. PICK x \in Medias : before = <<Asked(x), question>>
    BY <1>12
  <2>2. ASSUME x.type = "document", t \in Documentless PROVE FALSE
    <3> DEFINE w == <<Words(<<>>)>>
               d == {"document"}
               one == <<x>>
               q == <<Words(Said)>>
    <3>1. w \in Seq(MessageBlocks) /\ one \in Seq(MessageBlocks) /\ q \in Seq(MessageBlocks)
      BY <1>10, <1>11
    <3>2. Flat(ContentOf, before) = (w \o one) \o q
      BY <1>3, <1>5, <1>9, <1>10, <2>1, ContentsBegin
    <3>3. Of(one, d) = one
      BY <1>11, <2>2, OfOne
    <3> HIDE DEF w, one, q, d
    <3>4. w \o one \in Seq(MessageBlocks)
      BY <3>1
    <3>5. Of((w \o one) \o q, d) = (Of(w, d) \o Of(one, d)) \o Of(q, d)
      <4>1. Of(w \o one, d) = Of(w, d) \o Of(one, d)
        BY <3>1, OfPair
      <4>2. Of((w \o one) \o q, d) = Of(w \o one, d) \o Of(q, d)
        BY <3>1, <3>4, OfPair
      <4>3. QED
        BY <4>1, <4>2
    <3>6. Of(w, d) \in Seq(MessageBlocks) /\ Of(q, d) \in Seq(MessageBlocks)
      BY <3>1, OfFacts
    <3>7. one # <<>>
      BY DEF one
    <3>8. (Of(w, d) \o one) \o Of(q, d) = <<>>
      BY <2>2, <3>2, <3>3, <3>5 DEF d
    <3> DEFINE a == Of(w, d)
               e == Of(q, d)
    <3> HIDE DEF a, e
    <3>9. Len(a \o one) = Len(a) + Len(one) /\ a \o one \in Seq(MessageBlocks) /\ Len(a) \in Nat
          /\ Len(one) \in Nat
      BY <3>1, <3>6, ConcatPlaces DEF a
    <3>10. Len((a \o one) \o e) = Len(a \o one) + Len(e) /\ Len(e) \in Nat
      BY <3>6, <3>9, ConcatPlaces DEF e
    <3>11. Len(one) # 0
      BY <3>1, <3>7
    <3>12. Len((a \o one) \o e) = 0
      BY <3>8 DEF a, e
    <3>13. QED
      BY <3>9, <3>10, <3>11, <3>12
  <2>3. Asked(x) \in P
    BY <1>5, <2>2
  <2>4. QED
    BY <1>3, <2>1, <2>3 DEF P
<1>13. CASE before = <<question>> \/ before = <<question, calling, told>> \/ before = <<told>>
  <2>1. <<question>> \in Seq(P)
    BY <1>3
  <2>2. <<question, calling, told>> \in Seq(P)
    BY <1>3, <1>6, <1>7
  <2>3. <<told>> \in Seq(P)
    BY <1>7
  <2>4. QED
    BY <1>13, <2>1, <2>2, <2>3 DEF P
<1>14. QED
  BY <1>8, <1>12, <1>13

\* A message that answers can be spoken, if its blocks can.
LEMMA AskingSpeaks ==
  ASSUME NEW t, NEW role \in {"tool", "user"}, NEW c \in Seq(Typed(KindsOf(role))),
         c \in Seq(Clear(t))
  PROVE  Message(role, c) \in Speakable(t) /\ <<Message(role, c)>> \in Seq(Speakable(t))
<1> DEFINE m == Message(role, c)
<1>1. m \in Asking(t)
  BY AskingMessage
<1>2. m.content = c
  BY DEF Message
<1>3. m \in Sayable(t)
  BY <1>1 DEF Asking
<1> HIDE DEF m
<1>4. m \in Speakable(t)
  BY <1>2, <1>3 DEF Speakable
<1> DEFINE P == Speakable(t)
<1> HIDE DEF P
<1>5. m \in P => <<m>> \in Seq(P)
  OBVIOUS
<1>6. QED
  BY <1>4, <1>5 DEF m, P

\* What is said after the answer can be spoken.
LEMMA RepliesSpeak ==
  ASSUME NEW t, NEW calls, NEW rs, Len(calls) \in Nat, Answering(rs, calls),
         NEW after, Formed(rs, after)
  PROVE  after \in Seq(Speakable(t))
<1> DEFINE C == Clear(t)
           P == Speakable(t)
           R == Typed(Results)
           word == Words(Said)
           n == Len(rs)
<1>1. rs \in Seq(R) /\ n \in Nat /\ \A i \in 1 .. n : rs[i] \in R
  <2>1. rs \in Seq(R)
    BY DEF Answering
  <2> HIDE DEF R
  <2>2. QED
    BY <2>1, LenProperties, ElementOfSeq
<1>2. ASSUME NEW i \in 1 .. n PROVE rs[i] \in C
  <2>1. rs[i].failed \/ rs[i].body # <<>>
    BY DEF Answering
  <2>2. rs[i] \in MessageBlocks /\ rs[i].type = "tool_result"
    BY <1>1 DEF Typed, Results
  <2>3. QED
    BY <2>1, <2>2 DEF Clear
<1>3. rs \in Seq(C)
  <2> HIDE DEF C, R
  <2>1. rs = [i \in 1 .. n |-> rs[i]]
    BY <1>1
  <2>2. QED
    BY <1>1, <1>2, <2>1
<1>4. word \in C
  <2>1. word \in MessageBlocks /\ word.type = "text"
    BY SaidWord
  <2>2. QED
    BY <2>1 DEF Clear
<1>5. Append(rs, word) \in Seq(C) /\ <<word>> \o rs \in Seq(C)
  <2> HIDE DEF C, word
  <2>1. <<word>> \in Seq(C)
    BY <1>4
  <2>2. QED
    BY <1>3, <1>4, <2>1, ConcatProperties, AppendProperties
<1>6. /\ Append(rs, word) \in Seq(Typed(KindsOf("user")))
      /\ <<word>> \o rs \in Seq(Typed(KindsOf("user")))
      /\ rs \in Seq(Typed(KindsOf("tool")))
  BY <1>1, SaidWord
<1>7. ASSUME NEW i \in 1 .. n PROVE Message("tool", <<rs[i]>>) \in P
  <2> DEFINE c == <<rs[i]>>
  <2>1. KindsOf("tool") = Results
    BY DEF KindsOf, Results
  <2>2. c \in Seq(C)
    <3> HIDE DEF C
    <3>1. QED
      BY <1>2
  <2>3. c \in Seq(R)
    <3> HIDE DEF R
    <3>1. QED
      BY <1>1
  <2> HIDE DEF c
  <2>4. Message("tool", c) \in P
    BY <2>1, <2>2, <2>3, AskingSpeaks
  <2>5. QED
    BY <2>4 DEF c
<1>8. CASE after = [i \in 1 .. n |-> Message("tool", <<rs[i]>>)]
  <2> HIDE DEF P
  <2>1. after \in Seq(P)
    BY <1>1, <1>7, <1>8
  <2>2. QED
    BY <2>1 DEF P
<1>9. CASE after = <<Message("tool", rs)>>
  BY <1>3, <1>6, <1>9, AskingSpeaks
<1>10. CASE after = <<Message("user", Append(rs, word))>>
  BY <1>5, <1>6, <1>10, AskingSpeaks
<1>11. CASE after = <<Message("user", <<word>> \o rs)>>
  BY <1>5, <1>6, <1>11, AskingSpeaks
<1>12. QED
  BY <1>8, <1>9, <1>10, <1>11 DEF Formed

\* What the model says has no media and no results.
LEMMA SaidClear ==
  ASSUME NEW t, NEW m \in Sayable(t), m.role = "assistant"
  PROVE  m \in Speakable(t)
<1> DEFINE K == Typed(KindsOf("assistant"))
<1>1. m.content \in Seq(K)
  BY SoundFacts DEF Sayable
<1>2. K \subseteq Clear(t)
  BY DEF Typed, KindsOf, Clear, BlockTypes
<1> HIDE DEF K
<1>3. m.content \in Seq(Clear(t))
  BY <1>1, <1>2, SeqWider
<1>4. QED
  BY <1>3 DEF Speakable

\* Nothing of the whole is nothing of its beginning.
LEMMA NonePartly ==
  ASSUME NEW types, NEW s \in Seq(MessageBlocks), NEW u \in Seq(MessageBlocks),
         Of(s \o u, types) = <<>>
  PROVE  Of(s, types) = <<>>
<1> DEFINE a == Of(s, types)
           b == Of(u, types)
<1>1. a \in Seq(MessageBlocks) /\ b \in Seq(MessageBlocks)
  BY OfFacts
<1>2. a \o b = <<>>
  BY OfPair
<1> HIDE DEF a, b
<1>3. Len(a \o b) = Len(a) + Len(b) /\ Len(a) \in Nat /\ Len(b) \in Nat
  BY <1>1, ConcatPlaces
<1>4. Len(a) = 0
  BY <1>2, <1>3
<1>5. a = <<>>
  BY <1>1, <1>4
<1>6. QED
  BY <1>5 DEF a

\* One element is replaced.
LEMMA Replaced ==
  ASSUME NEW A, NEW b \in Seq(A), NEW x \in A, NEW y \in A, NEW u \in Seq(A)
  PROVE  [((b \o <<x>>) \o u) EXCEPT ![Len(b) + 1] = y] = (b \o <<y>>) \o u
<1> DEFINE s(e) == (b \o <<e>>) \o u
           n == Len(b)
           k == Len(u)
<1>1. ASSUME NEW e \in A
      PROVE  /\ s(e) \in Seq(A) /\ n \in Nat /\ k \in Nat /\ Len(s(e)) = n + 1 + k
             /\ s(e)[n + 1] = e
             /\ \A i \in 1 .. n : s(e)[i] = b[i]
             /\ \A i \in 1 .. k : s(e)[n + 1 + i] = u[i]
  <2> DEFINE one == <<e>>
             p == b \o one
  <2>1. one \in Seq(A) /\ Len(one) = 1 /\ one[1] = e
    OBVIOUS
  <2> HIDE DEF one
  <2>2. /\ p \in Seq(A) /\ n \in Nat /\ Len(p) = n + 1
        /\ \A i \in 1 .. n : p[i] = b[i]
        /\ \A i \in 1 .. 1 : p[n + i] = one[i]
    <3>0. b \in Seq(A) /\ one \in Seq(A)
      BY <2>1
    <3>1. /\ b \o one \in Seq(A) /\ Len(b) \in Nat /\ Len(one) \in Nat
          /\ Len(b \o one) = Len(b) + Len(one)
          /\ \A i \in 1 .. Len(b) : (b \o one)[i] = b[i]
          /\ \A i \in 1 .. Len(one) : (b \o one)[Len(b) + i] = one[i]
      BY <3>0, ConcatPlaces
    <3>2. QED
      BY <2>1, <3>1
  <2> HIDE DEF p
  <2>3. /\ p \o u \in Seq(A) /\ k \in Nat /\ Len(p \o u) = Len(p) + k
        /\ \A i \in 1 .. Len(p) : (p \o u)[i] = p[i]
        /\ \A i \in 1 .. k : (p \o u)[Len(p) + i] = u[i]
    <3>1. p \in Seq(A) /\ u \in Seq(A)
      BY <2>2
    <3>2. /\ p \o u \in Seq(A) /\ Len(p) \in Nat /\ Len(u) \in Nat
          /\ Len(p \o u) = Len(p) + Len(u)
          /\ \A i \in 1 .. Len(p) : (p \o u)[i] = p[i]
          /\ \A i \in 1 .. Len(u) : (p \o u)[Len(p) + i] = u[i]
      BY <3>1, ConcatPlaces
    <3>3. QED
      BY <3>2
  <2>4. s(e) = p \o u
    BY DEF p, one
  <2> HIDE DEF s
  <2>5. p[n + 1] = e
    BY <2>1, <2>2
  <2>6. QED
    BY <2>2, <2>3, <2>4, <2>5
<1> HIDE DEF s
<1> DEFINE sx == s(x)
           sy == s(y)
           v == [sx EXCEPT ![n + 1] = y]
<1>2. /\ sx \in Seq(A) /\ n \in Nat /\ k \in Nat /\ Len(sx) = n + 1 + k
      /\ \A i \in 1 .. n : sx[i] = b[i]
      /\ \A i \in 1 .. k : sx[n + 1 + i] = u[i]
  BY <1>1
<1>3. /\ sy \in Seq(A) /\ Len(sy) = n + 1 + k /\ sy[n + 1] = y
      /\ \A i \in 1 .. n : sy[i] = b[i]
      /\ \A i \in 1 .. k : sy[n + 1 + i] = u[i]
  BY <1>1
<1> HIDE DEF sx, sy
<1>4. sx = [i \in 1 .. Len(sx) |-> sx[i]] /\ sy = [i \in 1 .. Len(sy) |-> sy[i]]
  BY <1>2, <1>3
<1>5. ASSUME NEW i \in 1 .. (n + 1 + k) PROVE v[i] = sy[i]
  <2>1. DOMAIN sx = 1 .. n + 1 + k
    BY <1>2
  <2>2. v[i] = IF i = n + 1 THEN y ELSE sx[i]
    BY <2>1
  <2>3. CASE i \in 1 .. n
    BY <1>2, <1>3, <2>2, <2>3
  <2>4. CASE i = n + 1
    BY <1>3, <2>2, <2>4
  <2>5. CASE i > n + 1
    <3>1. i - (n + 1) \in 1 .. k /\ i = n + 1 + (i - (n + 1))
      BY <1>2, <2>5
    <3>2. sx[i] = u[i - (n + 1)] /\ sy[i] = u[i - (n + 1)]
      BY <1>2, <1>3, <3>1
    <3>3. QED
      BY <1>2, <2>2, <2>5, <3>2
  <2>6. i \in 1 .. n \/ i = n + 1 \/ i > n + 1
    BY <1>2
  <2> HIDE DEF v
  <2>7. QED
    BY <2>3, <2>4, <2>5, <2>6
<1>6. v = sy
  <2>1. v = [i \in 1 .. n + 1 + k |-> v[i]]
    <3>1. DOMAIN sx = 1 .. n + 1 + k
      BY <1>2
    <3>2. v = [i \in DOMAIN sx |-> v[i]]
      OBVIOUS
    <3>3. QED
      BY <3>1, <3>2
  <2> HIDE DEF v
  <2>2. QED
    BY <1>3, <1>4, <1>5, <2>1
<1>7. QED
  BY <1>6 DEF s, sx, sy

-----------------------------------------------------------------------------
(* The request for the next turn *)

\* The conversation so far: what was before the answer, the answer and what came
\* after it.
Conversation(before, content, after) ==
  /\ content \in {acc.content, ParseChatResponse} /\ content \in Seq(ContentBlocks)
  /\ before \in Seq(Speakable(target)) /\ after \in Seq(Speakable(target))
  /\ AssistantBlocks(content) \in Speakable(target)
  /\ history = (before \o <<AssistantBlocks(content)>>) \o after
  /\ turn = Len(before) + 1

\* A conversation that is not refused can be spoken.
LEMMA CanSpeak ==
  ASSUME RInv, Accepted, ~Unwritable
  PROVE  /\ target \in TargetNames /\ ending = "done" /\ AInv
         /\ history \in Seq(Speakable(target))
         /\ \E before, content, after : Conversation(before, content, after)
<1> DEFINE t == target
           P == Speakable(target)
<1>1. RInv /\ AInv /\ target # "none"
  BY DEF RInv, Accepted
<1>2. t \in TargetNames
  BY <1>1, HistoryTyped, ReplayAssumption DEF TargetNames
<1>3. PICK before \in Openings, content \in {acc.content, ParseChatResponse} :
        \E after \in Replies(AssistantBlocks(content).content) :
          /\ history = before \o <<AssistantBlocks(content)>> \o after
          /\ turn = Len(before) + 1
  BY <1>1 DEF RInv, Conversed
<1>4. PICK after \in Replies(AssistantBlocks(content).content) :
        /\ history = before \o <<AssistantBlocks(content)>> \o after
        /\ turn = Len(before) + 1
  BY <1>3
<1>5. ending = "done"
  BY <1>1 DEF RInv, Conversed
<1>6. content \in Seq(ContentBlocks) /\ \E nm : CallsBy(nm, content)
  BY <1>1, <1>5, CallsAlike
<1>7. PICK nm : CallsBy(nm, content)
  BY <1>6
<1> DEFINE said == AssistantBlocks(content)
           c == said.content
           r == Of(c, {"tool_use"})
<1>8. said \in Sound /\ said.role = "assistant" /\ c \in Seq(MessageBlocks)
  BY <1>6, <1>7, AnswerMessage
<1>9. PICK rs : Answering(rs, r) /\ Formed(rs, after)
  BY <1>4, <1>8, RepliesFormed
<1>10. after \in Seq(P)
  <2>1. r \in Seq(MessageBlocks)
    BY <1>8, OfFacts
  <2> HIDE DEF r
  <2>2. Len(r) \in Nat
    BY <2>1, LenProperties
  <2>3. QED
    BY <1>9, <2>2, RepliesSpeak
<1> HIDE DEF said
<1>11. history = (before \o <<said>>) \o after /\ turn = Len(before) + 1
  BY <1>4 DEF said
<1>12. before \in Seq(Messages) /\ after \in Seq(Messages) /\ said \in Messages
  BY <1>8, <1>10, OpeningsTyped, SpeakableTyped, SoundFacts
<1>13. said \in Sayable(t)
  <2>1. ASSUME t = "ollama" PROVE c \in Seq(WritableBlocks)
    <3>1. ASSUME NEW i \in 1 .. Len(c) PROVE c[i] \in WritableBlocks
      <4>1. PICK j \in DOMAIN Contents(history) : Contents(history)[j] = c[i]
        BY <1>11, <1>12, WithinContents
      <4>2. c[i].type = "tool_use" => c[i].body # <<>>
        BY <2>1, <4>1 DEF Unwritable
      <4>3. c[i] \in MessageBlocks
        BY <1>8, ElementOfSeq
      <4>4. QED
        BY <4>2, <4>3 DEF WritableBlocks
    <3> HIDE DEF c
    <3>2. Len(c) \in Nat /\ c = [i \in 1 .. Len(c) |-> c[i]]
      BY <1>8, LenProperties
    <3>3. QED
      BY <3>1, <3>2
  <2>2. QED
    BY <1>8, <2>1 DEF Sayable
<1>14. said \in P
  BY <1>8, <1>13, SaidClear
<1>15. ASSUME t \in Documentless PROVE Of(Flat(ContentOf, before), {"document"}) = <<>>
  <2> DEFINE one == <<said>>
             x == Flat(ContentOf, before)
             y == Flat(ContentOf, one)
             z == Flat(ContentOf, after)
             d == {"document"}
  <2>1. Maps(ContentOf, Messages, MessageBlocks)
    BY DEF Maps, ContentOf, Messages
  <2>2. one \in Seq(Messages)
    <3> DEFINE M == Messages
    <3> HIDE DEF M
    <3>1. said \in M => <<said>> \in Seq(M)
      OBVIOUS
    <3>2. QED
      BY <1>12, <3>1 DEF M
  <2> HIDE DEF one, d
  <2>3. x \in Seq(MessageBlocks) /\ y \in Seq(MessageBlocks) /\ z \in Seq(MessageBlocks)
    BY <1>12, <2>1, <2>2, FlatType
  <2>4. before \o one \in Seq(Messages)
    BY <1>12, <2>2, ConcatProperties
  <2>5. Flat(ContentOf, before \o one) = x \o y
    BY <1>12, <2>1, <2>2, FlatConcat
  <2>6. Flat(ContentOf, (before \o one) \o after) = (x \o y) \o z
    <3>1. Flat(ContentOf, (before \o one) \o after) = Flat(ContentOf, before \o one) \o z
      <4>1. after \in Seq(Messages)
        BY <1>12
      <4> DEFINE p == before \o one
      <4>2. p \in Seq(Messages)
        BY <2>4
      <4> HIDE DEF p
      <4>3. Flat(ContentOf, p \o after) = Flat(ContentOf, p) \o Flat(ContentOf, after)
        BY <2>1, <4>1, <4>2, FlatConcat
      <4>4. QED
        BY <4>3 DEF p
    <3>2. QED
      BY <2>5, <3>1
  <2>7. Of(Contents(history), d) = <<>>
    BY <1>15 DEF Accepted, Refused, Documentless, d
  <2>8. Contents(history) = (x \o y) \o z
    <3>1. history = (before \o one) \o after
      BY <1>11 DEF one
    <3>2. history \in Seq(Messages)
      BY <1>12, <2>4, <3>1, ConcatProperties
    <3>3. QED
      BY <2>6, <3>1, <3>2, ContentsFlat
  <2> HIDE DEF x, y, z
  <2>9. Of(x \o y, d) = <<>>
    <3>1. x \o y \in Seq(MessageBlocks)
      BY <2>3, ConcatProperties
    <3>2. QED
      BY <2>3, <2>7, <2>8, <3>1, NonePartly
  <2>10. Of(x, d) = <<>>
    BY <2>3, <2>9, NonePartly
  <2>11. QED
    BY <2>10 DEF x, d
<1>16. before \in Seq(P)
  BY <1>15, OpeningsSpeak
<1>17. history \in Seq(P)
  <2> DEFINE Q == P
             one == <<said>>
  <2> HIDE DEF Q
  <2>1. one \in Seq(Q)
    <3>1. said \in Q
      BY <1>14 DEF Q
    <3>2. QED
      BY <3>1
  <2> HIDE DEF one
  <2>2. before \in Seq(Q) /\ after \in Seq(Q)
    BY <1>10, <1>16 DEF Q
  <2>3. (before \o one) \o after \in Seq(Q)
    BY <2>1, <2>2, ConcatProperties
  <2>4. QED
    BY <1>11, <2>3 DEF one, Q
<1>18. Conversation(before, content, after)
  BY <1>6, <1>10, <1>11, <1>14, <1>16 DEF Conversation, said
<1>19. QED
  BY <1>1, <1>2, <1>5, <1>17, <1>18

\* The conversation as it took place.
LEMMA SpokenIs ==
  ASSUME RInv, Accepted, ~Unwritable, ~KeepsThinking, ~Strayed
  PROVE  \E before \in Seq(Messages), after \in Seq(Messages),
            a \in Seq(ContentBlocks), b \in Seq(ContentBlocks) :
           /\ history = (before \o <<AssistantBlocks(a)>>) \o after
           /\ Spoken = (before \o <<AssistantBlocks(b)>>) \o after
           /\ turn = Len(before) + 1
           /\ Merged(a) = Merged(b)
<1>1. AInv /\ ending = "done"
  BY CanSpeak
<1>2. PICK before, a, after : Conversation(before, a, after)
  BY CanSpeak
<1>3. /\ before \in Seq(Messages) /\ after \in Seq(Messages) /\ a \in Seq(ContentBlocks)
      /\ history = (before \o <<AssistantBlocks(a)>>) \o after /\ turn = Len(before) + 1
      /\ AssistantBlocks(a) \in Messages
      /\ a \in {acc.content, ParseChatResponse}
  BY <1>2, SpeakableTyped DEF Conversation
<1>4. CASE ~AnswerSent
  <2>1. Spoken = history
    BY <1>4 DEF Spoken
  <2>2. QED
    BY <1>3, <2>1
<1>5. CASE AnswerSent
  <2> DEFINE b == ParseChatResponse
             x == AssistantBlocks(a)
             y == AssistantBlocks(b)
  <2>1. Merged(a) = Merged(b)
    BY <1>1, <1>3, <1>5 DEF AInv, StreamedAsAnswered
  <2>2. b \in Seq(ContentBlocks) /\ y \in Messages
    BY <1>1, ReturnedTyped, AssistantTyped
  <2>3. Spoken = [history EXCEPT ![turn] = y]
    BY <1>5 DEF Spoken
  <2> HIDE DEF b, x, y
  <2>4. [((before \o <<x>>) \o after) EXCEPT ![Len(before) + 1] = y] = (before \o <<y>>) \o after
    <3>1. before \in Seq(Messages) /\ after \in Seq(Messages) /\ x \in Messages /\ y \in Messages
      BY <1>3, <2>2 DEF x
    <3>2. QED
      BY <3>1, Replaced
  <2>5. Spoken = (before \o <<y>>) \o after
    BY <1>3, <2>3, <2>4 DEF x
  <2>6. QED
    BY <1>3, <2>1, <2>2, <2>5 DEF x, y
<1>6. QED
  BY <1>4, <1>5

\* What is sent, and its parts.
LEMMA SentFlat ==
  ASSUME target \in TargetNames, history \in Seq(Speakable(target))
  PROVE  Sent \in Seq(Wires) /\ SentParts = Flat(PartsOf, Sent)
<1> DEFINE wires == Converted(target, history)
<1>1. history \in Seq(Sayable(target))
  BY SpeakableTyped
<1>2. \E m : m \in Sayable(target)
  <2>1. <<>> \in Seq(Typed(KindsOf("user")))
    BY EmptySeq
  <2>2. QED
    BY <2>1, AskingMessage DEF Asking
<1>3. wires \in Seq(Wires)
  <2> DEFINE t == target
  <2>1. t \in TargetNames /\ history \in Seq(Sayable(t)) /\ \E m : m \in Sayable(t)
    BY <1>1, <1>2
  <2> HIDE DEF t
  <2>2. Converted(t, history) \in Seq(Wires)
    BY <2>1, ConvertedStep
  <2>3. QED
    BY <2>2 DEF t
<1>4. Sent = wires
  BY DEF Sent
<1> HIDE DEF wires
<1>5. \A i \in 1 .. Len(wires) : PartsOf[wires[i]] = wires[i].parts
  BY <1>3, ElementOfSeq DEF PartsOf
<1>6. QED
  BY <1>3, <1>4, <1>5 DEF SentParts, Flat

\* What f sees of a conversation with one message in the middle.
LEMMA SeenAround ==
  ASSUME NEW f, NEW B, Maps(f, MessageBlocks, B),
         NEW before \in Seq(Messages), NEW after \in Seq(Messages), NEW m \in Messages
  PROVE  /\ (before \o <<m>>) \o after \in Seq(Messages)
         /\ Flat(f, Flat(ContentOf, (before \o <<m>>) \o after))
              = (Flat(f, Flat(ContentOf, before)) \o Flat(f, m.content))
                  \o Flat(f, Flat(ContentOf, after))
<1> DEFINE one == <<m>>
           p == before \o one
           k == ContentOf
<1>1. Maps(k, Messages, MessageBlocks) /\ k[m] = m.content
  BY DEF Maps, ContentOf, Messages
<1>2. one \in Seq(Messages)
  <2> DEFINE M == Messages
  <2> HIDE DEF M
  <2>1. m \in M => <<m>> \in Seq(M)
    OBVIOUS
  <2>2. QED
    BY <2>1 DEF M
<1>3. Flat(k, one) = m.content
  <2>1. Flat(k, <<m>>) = k[m]
    <3>1. Maps(k, Messages, MessageBlocks)
      BY <1>1
    <3>2. QED
      BY <3>1, FlatOne
  <2>2. QED
    BY <1>1, <2>1
<1> HIDE DEF one
<1>4. p \in Seq(Messages) /\ p \o after \in Seq(Messages)
  <2>1. p \in Seq(Messages)
    BY <1>2, ConcatProperties
  <2> HIDE DEF p
  <2>2. QED
    BY <2>1, ConcatProperties
<1>5. Joins(k, Messages)
  BY <1>1, FlatJoins
<1>6. Flat(k, p) = Flat(k, before) \o m.content
  BY <1>2, <1>3, <1>5 DEF Joins
<1> HIDE DEF p
<1>7. Flat(k, p \o after) = (Flat(k, before) \o m.content) \o Flat(k, after)
  BY <1>4, <1>5, <1>6 DEF Joins
<1>8. /\ Flat(k, before) \in Seq(MessageBlocks) /\ Flat(k, after) \in Seq(MessageBlocks)
      /\ m.content \in Seq(MessageBlocks)
  <2>1. Maps(k, Messages, MessageBlocks)
    BY <1>1
  <2>2. Flat(k, before) \in Seq(MessageBlocks) /\ Flat(k, after) \in Seq(MessageBlocks)
    BY <2>1, FlatType
  <2>3. m.content \in Seq(MessageBlocks)
    BY DEF Messages
  <2>4. QED
    BY <2>2, <2>3
<1> DEFINE u == Flat(k, before)
           v == m.content
           w == Flat(k, after)
<1> HIDE DEF u, v, w, k
<1>9. Flat(f, (u \o v) \o w) = (Flat(f, u) \o Flat(f, v)) \o Flat(f, w)
  <2>1. u \in Seq(MessageBlocks) /\ v \in Seq(MessageBlocks) /\ w \in Seq(MessageBlocks)
    BY <1>8 DEF u, v, w
  <2>2. QED
    BY <2>1, SeenThree
<1>10. QED
  BY <1>4, <1>7, <1>9 DEF u, v, w, p, one, k

\* What does not depend on how an answer is merged is seen of what was said as
\* of what the caller has.
LEMMA SpokenSeen ==
  ASSUME RInv, Accepted, ~Unwritable, ~KeepsThinking, ~Strayed,
         NEW f, NEW B, Maps(f, MessageBlocks, B), Mergeable(Through(f), B)
  PROVE  /\ Spoken \in Seq(Messages)
         /\ Flat(f, Flat(ContentOf, Spoken)) = Flat(f, Flat(ContentOf, history))
<1>1. PICK before \in Seq(Messages), after \in Seq(Messages),
            a \in Seq(ContentBlocks), b \in Seq(ContentBlocks) :
           /\ history = (before \o <<AssistantBlocks(a)>>) \o after
           /\ Spoken = (before \o <<AssistantBlocks(b)>>) \o after
           /\ turn = Len(before) + 1
           /\ Merged(a) = Merged(b)
  BY SpokenIs
<1> DEFINE x == AssistantBlocks(a)
           y == AssistantBlocks(b)
<1>2. x \in Messages /\ y \in Messages
  BY <1>1, AssistantTyped
<1>3. Flat(f, x.content) = Flat(f, y.content)
  BY <1>1, SeenAlike
<1> HIDE DEF x, y
<1>4. /\ (before \o <<y>>) \o after \in Seq(Messages)
      /\ Flat(f, Flat(ContentOf, (before \o <<y>>) \o after))
           = (Flat(f, Flat(ContentOf, before)) \o Flat(f, y.content))
               \o Flat(f, Flat(ContentOf, after))
  BY <1>2, SeenAround
<1>5. Flat(f, Flat(ContentOf, (before \o <<x>>) \o after))
        = (Flat(f, Flat(ContentOf, before)) \o Flat(f, x.content))
            \o Flat(f, Flat(ContentOf, after))
  BY <1>2, SeenAround
<1>6. history = (before \o <<x>>) \o after /\ Spoken = (before \o <<y>>) \o after
  BY <1>1 DEF x, y
<1>7. QED
  BY <1>3, <1>4, <1>5, <1>6

\* So what the target is told of it is what was said of it.
LEMMA ToldAsSpoken ==
  ASSUME RInv, Accepted, ~Unwritable, ~KeepsThinking, ~Strayed,
         NEW B, NEW f, Maps(f, MessageBlocks, B), NEW g, Maps(g, MessageBlocks, B),
         Kept(target, f, g), Mergeable(Through(g), B)
  PROVE  /\ SentParts \in Seq(MessageBlocks) /\ Contents(Spoken) \in Seq(MessageBlocks)
         /\ Flat(f, SentParts) = Flat(g, Contents(Spoken))
<1>1. target \in TargetNames /\ history \in Seq(Speakable(target))
  BY CanSpeak
<1>2. Flat(f, Flat(PartsOf, Converted(target, history))) = Flat(g, Flat(ContentOf, history))
  <2> DEFINE t == target
  <2>1. t \in TargetNames /\ history \in Seq(Speakable(t)) /\ Kept(t, f, g)
    BY <1>1
  <2> HIDE DEF t
  <2>2. Flat(f, Flat(PartsOf, Converted(t, history))) = Flat(g, Flat(ContentOf, history))
    BY <2>1, KeptOfAll
  <2>3. QED
    BY <2>2 DEF t
<1>3. Spoken \in Seq(Messages)
      /\ Flat(g, Flat(ContentOf, Spoken)) = Flat(g, Flat(ContentOf, history))
  BY SpokenSeen
<1>4. Sent \in Seq(Wires) /\ SentParts = Flat(PartsOf, Sent)
  BY <1>1, SentFlat
<1>5. SentParts \in Seq(MessageBlocks)
  BY <1>4, PartsFacts
<1>6. Contents(Spoken) = Flat(ContentOf, Spoken)
  BY <1>3, ContentsFlat
<1>7. Contents(Spoken) \in Seq(MessageBlocks)
  <2>1. Maps(ContentOf, Messages, MessageBlocks)
    BY DEF Maps, ContentOf, Messages
  <2>2. QED
    BY <1>3, <1>6, <2>1, FlatType
<1>8. QED
  BY <1>2, <1>3, <1>4, <1>5, <1>6, <1>7 DEF Sent

(* The turn, for Anthropic *)

\* Nothing that a block of the answer means is lost on Anthropic's wire.
LEMMA ConvertedMeans ==
  ASSUME target = "anthropic", NEW a \in ContentBlocks
  PROVE  Meaning(ConvertBlock(Named(a))) = Meant[a]
<1> DEFINE b == Named(a)
<1>1. /\ b \in MessageBlocks
      /\ b.type # "tool_use" => b.name = 0
      /\ Meant[a] = Meaning(b)
  BY NamedFields DEF Meant
<1> HIDE DEF b
<1>2. ConvertBlock(b) \in MessageBlocks /\ ConvertBlock(b).type = b.type
      /\ ConvertBlock(b).id = b.id /\ ConvertBlock(b).body = b.body
      /\ ConvertBlock(b).failed = b.failed
  BY <1>1, ConvertedBlock
<1>3. /\ ConvertBlock(b).name = b.name /\ ConvertBlock(b).data = b.data
      /\ ConvertBlock(b).signature = IF b.type = "tool_use" THEN <<>> ELSE b.signature
  BY <1>1 DEF ConvertBlock, MessageBlocks
<1> DEFINE x == Meaning(ConvertBlock(b))
           y == Meaning(b)
<1>4. /\ x \in MessageBlocks /\ x.type = b.type /\ x.name = b.name /\ x.data = b.data
      /\ x.failed = b.failed /\ x.id = b.id
      /\ x.body = IF b.type = "tool_use" /\ b.body = NoArguments(b.name) THEN <<>> ELSE b.body
      /\ x.signature = IF b.type = "tool_use" THEN <<>> ELSE b.signature
  <2> DEFINE c == ConvertBlock(b)
  <2>1. c \in MessageBlocks
    BY <1>2
  <2> HIDE DEF c
  <2>2. /\ Meaning(c) \in MessageBlocks /\ Meaning(c).type = c.type
        /\ Meaning(c).name = c.name /\ Meaning(c).data = c.data /\ Meaning(c).failed = c.failed
        /\ Meaning(c).id = IF target \in {"gemini", "ollama"} THEN 0 ELSE c.id
        /\ Meaning(c).body = IF c.type = "tool_use" /\ c.body = NoArguments(c.name)
                             THEN <<>> ELSE c.body
        /\ Meaning(c).signature = IF c.type = "tool_use" /\ target # "gemini"
                                  THEN <<>> ELSE c.signature
    BY <2>1, MeaningTyped
  <2>3. /\ c.type = b.type /\ c.id = b.id /\ c.name = b.name /\ c.body = b.body
        /\ c.data = b.data /\ c.failed = b.failed
        /\ c.signature = IF b.type = "tool_use" THEN <<>> ELSE b.signature
    BY <1>2, <1>3 DEF c
  <2>4. x = Meaning(c)
    BY DEF c
  <2> HIDE DEF x
  <2>5. QED
    BY <2>2, <2>3, <2>4
<1>5. /\ y \in MessageBlocks /\ y.type = b.type /\ y.name = b.name /\ y.data = b.data
      /\ y.failed = b.failed /\ y.id = b.id
      /\ y.body = IF b.type = "tool_use" /\ b.body = NoArguments(b.name) THEN <<>> ELSE b.body
      /\ y.signature = IF b.type = "tool_use" THEN <<>> ELSE b.signature
  BY <1>1, MeaningTyped
<1> HIDE DEF x, y
<1>6. x = y
  BY <1>4, <1>5, SameBlock
<1>7. QED
  BY <1>1, <1>6 DEF x, y, b

\* What the answer means, block by block.
LEMMA AnswerMeans ==
  ASSUME target = "anthropic", NEW a \in Seq(ContentBlocks)
  PROVE  LET c == AssistantBlocks(a).content
         IN  /\ Meanings(c) = Flat(AsMeant, a)
             /\ Meanings([j \in 1 .. Len(c) |-> ConvertBlock(c[j])]) = Flat(AsMeant, a)
<1> DEFINE n == Len(a)
           c == [i \in 1 .. n |-> Named(a[i])]
           d == [j \in 1 .. Len(c) |-> ConvertBlock(c[j])]
           m == [i \in 1 .. n |-> Meant[a[i]]]
<1>1. AssistantBlocks(a).content = c
  BY DEF AssistantBlocks, Message
<1>2. n \in Nat /\ \A i \in 1 .. n : a[i] \in ContentBlocks
  BY LenProperties, ElementOfSeq
<1>3. Flat(AsMeant, a) = m
  <2>1. \A b \in ContentBlocks : AsMeant[b] = <<Meant[b]>>
    BY DEF AsMeant
  <2>2. QED
    BY <2>1, FlatEach
<1>4. Len(c) = n /\ Len(d) = n
      /\ \A i \in 1 .. n : c[i] = Named(a[i]) /\ d[i] = ConvertBlock(Named(a[i]))
  BY <1>2
<1>5. \A i \in 1 .. n : Meaning(c[i]) = Meant[a[i]]
  BY <1>2, <1>4 DEF Meant
<1>6. \A i \in 1 .. n : Meaning(d[i]) = Meant[a[i]]
  <2>1. \A i \in 1 .. n : Meaning(ConvertBlock(Named(a[i]))) = Meant[a[i]]
    BY <1>2, ConvertedMeans
  <2> HIDE DEF c, d
  <2>2. QED
    BY <1>4, <2>1
<1> HIDE DEF c, d
<1>7. Meanings(c) = m /\ Meanings(d) = m
  BY <1>4, <1>5, <1>6 DEF Meanings
<1>8. QED
  BY <1>1, <1>3, <1>7 DEF d

\* The message in the middle.
LEMMA InTheMiddle ==
  ASSUME NEW before \in Seq(Messages), NEW m \in Messages, NEW after \in Seq(Messages)
  PROVE  LET h == (before \o <<m>>) \o after
         IN  /\ h \in Seq(Messages) /\ Len(before) + 1 \in 1 .. Len(h)
             /\ h[Len(before) + 1] = m
<1> DEFINE one == <<m>>
           p == before \o one
           n == Len(before)
<1>1. one \in Seq(Messages) /\ Len(one) = 1 /\ one[1] = m
  <2> DEFINE M == Messages
  <2> HIDE DEF M
  <2>1. m \in M => <<m>> \in Seq(M) /\ Len(<<m>>) = 1 /\ <<m>>[1] = m
    OBVIOUS
  <2>2. QED
    BY <2>1 DEF M
<1> HIDE DEF one
<1>2. /\ p \in Seq(Messages) /\ n \in Nat /\ Len(p) = n + Len(one)
      /\ \A i \in 1 .. Len(one) : p[n + i] = one[i]
  <2>1. before \in Seq(Messages) /\ one \in Seq(Messages)
    BY <1>1
  <2>2. /\ before \o one \in Seq(Messages) /\ Len(before) \in Nat /\ Len(one) \in Nat
        /\ Len(before \o one) = Len(before) + Len(one)
        /\ \A i \in 1 .. Len(before) : (before \o one)[i] = before[i]
        /\ \A i \in 1 .. Len(one) : (before \o one)[Len(before) + i] = one[i]
    BY <2>1, ConcatPlaces
  <2>3. QED
    BY <2>2
<1>3. p[n + 1] = m /\ Len(p) = n + 1
  BY <1>1, <1>2
<1> HIDE DEF p
<1>4. /\ p \o after \in Seq(Messages) /\ Len(after) \in Nat
      /\ Len(p \o after) = Len(p) + Len(after)
      /\ \A i \in 1 .. Len(p) : (p \o after)[i] = p[i]
  <2>1. p \in Seq(Messages) /\ after \in Seq(Messages)
    BY <1>2
  <2>2. /\ p \o after \in Seq(Messages) /\ Len(p) \in Nat /\ Len(after) \in Nat
        /\ Len(p \o after) = Len(p) + Len(after)
        /\ \A i \in 1 .. Len(p) : (p \o after)[i] = p[i]
        /\ \A i \in 1 .. Len(after) : (p \o after)[Len(p) + i] = after[i]
    BY <2>1, ConcatPlaces
  <2>3. QED
    BY <2>2
<1>5. n + 1 \in 1 .. Len(p) /\ n + 1 \in 1 .. Len(p \o after)
  BY <1>2, <1>3, <1>4
<1>6. QED
  BY <1>3, <1>4, <1>5 DEF p, one

\* The turn that Anthropic is sent means what the model said.
LEMMA TurnMeans ==
  ASSUME RInv, Accepted, ~Unwritable, ~KeepsThinking, ~Strayed, target = "anthropic"
  PROVE  Merged(Meanings(Sent[turn].parts)) = Merged(Meanings(Spoken[turn].content))
<1>1. PICK before \in Seq(Messages), after \in Seq(Messages),
            a \in Seq(ContentBlocks), b \in Seq(ContentBlocks) :
           /\ history = (before \o <<AssistantBlocks(a)>>) \o after
           /\ Spoken = (before \o <<AssistantBlocks(b)>>) \o after
           /\ turn = Len(before) + 1
           /\ Merged(a) = Merged(b)
  BY SpokenIs
<1> DEFINE x == AssistantBlocks(a)
           y == AssistantBlocks(b)
<1>2. x \in Messages /\ y \in Messages
  BY <1>1, AssistantTyped
<1>3. turn \in 1 .. Len(history) /\ history[turn] = x /\ Spoken[turn] = y
  <2> HIDE DEF x, y
  <2>1. history = (before \o <<x>>) \o after /\ Spoken = (before \o <<y>>) \o after
    BY <1>1 DEF x, y
  <2>2. /\ Len(before) + 1 \in 1 .. Len((before \o <<x>>) \o after)
        /\ ((before \o <<x>>) \o after)[Len(before) + 1] = x
    BY <1>2, InTheMiddle
  <2>3. ((before \o <<y>>) \o after)[Len(before) + 1] = y
    BY <1>2, InTheMiddle
  <2>4. QED
    BY <1>1, <2>1, <2>2, <2>3
<1> DEFINE c == x.content
           parts == [j \in 1 .. Len(c) |-> ConvertBlock(c[j])]
<1>4. Sent[turn].parts = parts
  <2> HIDE DEF x
  <2>1. Sent = AnthropicMessages(history)
    BY DEF Sent, Converted
  <2>2. QED
    BY <1>3, <2>1 DEF AnthropicMessages, Wire
<1>5. Meanings(parts) = Flat(AsMeant, a) /\ Meanings(y.content) = Flat(AsMeant, b)
  BY <1>1, AnswerMeans
<1>6. Merged(Flat(AsMeant, a)) = Merged(Flat(AsMeant, b))
  BY <1>1, MeantMerged
<1> HIDE DEF parts, y
<1>7. QED
  BY <1>3, <1>4, <1>5, <1>6

\* Two lists of results tell the same.
LEMMA ToldResults ==
  ASSUME NEW x \in Seq(MessageBlocks), NEW y \in Seq(MessageBlocks),
         Flat(Telling, x) = Flat(ToTell(target), y)
  PROVE  SameResults(Of(x, {"tool_result"}), Of(y, {"tool_result"}))
<1> DEFINE R == {"tool_result"}
           p == Of(x, R)
           q == Of(y, R)
           g == [b \in MessageBlocks |-> Outcome(b, b.body)]
           l == [b \in MessageBlocks |->
                   Outcome(b, IF target = "anthropic" THEN b.body ELSE Content(b).body)]
<1>1. \A b \in MessageBlocks : Telling[b] = IF b.type \in R THEN <<g[b]>> ELSE <<>>
  BY DEF Telling
<1>2. \A b \in MessageBlocks : ToTell(target)[b] = IF b.type \in R THEN <<l[b]>> ELSE <<>>
  BY DEF ToTell
<1>3. /\ \A b \in MessageBlocks : g[b].failed = b.failed /\ g[b].body = b.body
      /\ \A b \in MessageBlocks :
           /\ l[b].failed = b.failed
           /\ l[b].body = IF target # "anthropic" /\ b.failed /\ b.body = <<>> THEN NoMessage
                          ELSE b.body
  <2>1. \A b \in MessageBlocks :
          Content(b).body = IF b.failed /\ b.body = <<>> THEN NoMessage ELSE b.body
    BY DEF Content, MessageBlocks
  <2>2. \A b \in MessageBlocks : g[b].failed = b.failed /\ g[b].body = b.body
    BY DEF Outcome
  <2>3. \A b \in MessageBlocks :
          /\ l[b].failed = b.failed
          /\ l[b].body = IF target = "anthropic" THEN b.body ELSE Content(b).body
    BY DEF Outcome
  <2> HIDE DEF g, l
  <2>4. QED
    BY <2>1, <2>2, <2>3
<1> HIDE DEF g, l, R
<1>4. /\ Len(Flat(Telling, x)) = Len(p) /\ Len(p) \in Nat
      /\ \A i \in 1 .. Len(p) : Flat(Telling, x)[i] = g[p[i]] /\ p[i] \in MessageBlocks
  <2>1. Each(R, g, Telling, x)
    BY <1>1, EachIs
  <2>2. QED
    BY <2>1 DEF Each
<1>5. /\ Len(Flat(ToTell(target), y)) = Len(q) /\ Len(q) \in Nat
      /\ \A i \in 1 .. Len(q) : Flat(ToTell(target), y)[i] = l[q[i]] /\ q[i] \in MessageBlocks
  <2> DEFINE k == ToTell(target)
  <2>1. \A b \in MessageBlocks : k[b] = IF b.type \in R THEN <<l[b]>> ELSE <<>>
    BY <1>2
  <2> HIDE DEF k
  <2>2. /\ Len(Flat(k, y)) = Len(q) /\ Len(q) \in Nat
        /\ \A i \in 1 .. Len(q) : Flat(k, y)[i] = l[q[i]] /\ q[i] \in MessageBlocks
    <3>1. Each(R, l, k, y)
      BY <2>1, EachIs
    <3>2. QED
      BY <3>1 DEF Each
  <2>3. QED
    BY <2>2 DEF k
<1>6. Len(p) = Len(q)
  BY <1>4, <1>5
<1> HIDE DEF p, q
<1>7. ASSUME NEW i \in 1 .. Len(p) PROVE SameResult(p[i], q[i])
  <2>1. g[p[i]] = l[q[i]] /\ p[i] \in MessageBlocks /\ q[i] \in MessageBlocks
    BY <1>4, <1>5, <1>6
  <2>2. p[i].failed = q[i].failed
        /\ p[i].body = IF target # "anthropic" /\ q[i].failed /\ q[i].body = <<>> THEN NoMessage
                       ELSE q[i].body
    BY <1>3, <2>1
  <2>3. NoMessage # <<>>
    BY Texts
  <2>4. QED
    BY <2>2, <2>3 DEF SameResult
<1>8. QED
  BY <1>6, <1>7 DEF SameResults, p, q, R

\* Where RInv holds, what was said is said back.
LEMMA SaidIsBack ==
  ASSUME RInv
  PROVE  SaidBack
<1> DEFINE sent == SentParts
           said == Contents(Spoken)
<1> SUFFICES ASSUME Accepted, ~KeepsThinking, ~Strayed, ~Unwritable
             PROVE  /\ TextOf(sent) = TextOf(said)
                    /\ CallsOf(sent) = CallsOf(said)
                    /\ MediaOf(sent) = MediaOf(said)
                    /\ SameResults(Of(sent, {"tool_result"}), Of(said, {"tool_result"}))
                    /\ target # "anthropic" => ThinkingOf(sent) = <<>>
                    /\ target = "anthropic" =>
                         Merged(Meanings(Sent[turn].parts)) = Merged(Meanings(Spoken[turn].content))
                    /\ target = "gemini" =>
                         \A i \in DOMAIN Sent :
                           /\ Sent[i].parts # <<>>
                           /\ \A j \in DOMAIN Sent[i].parts : Whole(Sent[i].parts[j])
  BY DEF SaidBack
<1>1. target \in TargetNames /\ history \in Seq(Speakable(target))
  BY CanSpeak
<1>2. Sent \in Seq(Wires) /\ SentParts = Flat(PartsOf, Sent)
  BY <1>1, SentFlat
<1>3. /\ SentParts \in Seq(MessageBlocks) /\ Contents(Spoken) \in Seq(MessageBlocks)
      /\ Flat(Texting, SentParts) = Flat(Texting, Contents(Spoken))
  <2>1. Maps(Texting, MessageBlocks, Nat \X Nat)
    BY SeenMaps
  <2>2. Kept(target, Texting, Texting)
    BY <1>1, AllKeep
  <2>3. Mergeable(Through(Texting), Nat \X Nat)
    BY AllMergeable
  <2>4. QED
    BY <2>1, <2>2, <2>3, ToldAsSpoken
<1>4. Flat(Calling, SentParts) = Flat(Calling, Contents(Spoken))
  <2>1. Maps(Calling, MessageBlocks, MessageBlocks)
    BY SeenMaps
  <2>2. Kept(target, Calling, Calling)
    BY <1>1, CallsKept
  <2>3. Mergeable(Through(Calling), MessageBlocks)
    BY AllMergeable
  <2>4. QED
    BY <2>1, <2>2, <2>3, ToldAsSpoken
<1>5. Flat(Showing, SentParts) = Flat(Showing, Contents(Spoken))
  <2>1. Maps(Showing, MessageBlocks, MessageBlocks)
    BY SeenMaps
  <2>2. Kept(target, Showing, Showing)
    BY <1>1, AllKeep
  <2>3. Mergeable(Through(Showing), MessageBlocks)
    BY AllMergeable
  <2>4. QED
    BY <2>1, <2>2, <2>3, ToldAsSpoken
<1>6. Flat(Telling, SentParts) = Flat(ToTell(target), Contents(Spoken))
  <2> DEFINE g == ToTell(target)
  <2>1. Maps(Telling, MessageBlocks, Outcomes)
    BY SeenMaps
  <2>2. Maps(g, MessageBlocks, Outcomes)
    BY SeenMaps
  <2>3. Kept(target, Telling, g)
    BY <1>1, CallsKept
  <2>4. Mergeable(Through(g), Outcomes)
    BY AllMergeable
  <2> HIDE DEF g
  <2>5. Flat(Telling, SentParts) = Flat(g, Contents(Spoken))
    BY <2>1, <2>2, <2>3, <2>4, ToldAsSpoken
  <2>6. QED
    BY <2>5 DEF g
<1>7. ASSUME target # "anthropic" PROVE ThinkingOf(sent) = <<>>
  <2> DEFINE t == target
             f == Sel(Thoughts)
             c == Flat(ContentOf, history)
  <2>1. Kept(t, f, Unseen)
    BY <1>1, <1>7, AllKeep
  <2>2. Maps(f, MessageBlocks, MessageBlocks) /\ Maps(Unseen, MessageBlocks, MessageBlocks)
    BY SelMaps, SeenMaps
  <2>3. t \in TargetNames /\ history \in Seq(Speakable(t))
    BY <1>1
  <2> HIDE DEF t, f
  <2>4. Flat(f, Flat(PartsOf, Converted(t, history))) = Flat(Unseen, c)
    BY <2>1, <2>2, <2>3, KeptOfAll
  <2>5. c \in Seq(MessageBlocks)
    <3>1. Maps(ContentOf, Messages, MessageBlocks)
      BY DEF Maps, ContentOf, Messages
    <3>2. history \in Seq(Messages)
      BY <2>3, SpeakableTyped
    <3>3. QED
      BY <3>1, <3>2, FlatType
  <2> HIDE DEF c
  <2>6. Flat(Unseen, c) = <<>>
    BY <2>5, UnseenNone
  <2>7. Flat(f, SentParts) = <<>>
    BY <1>2, <2>4, <2>6 DEF Sent, t
  <2>8. Of(SentParts, Thoughts) = <<>>
    BY <1>3, <2>7, OfIsFlat DEF f
  <2>9. QED
    BY <2>8 DEF ThinkingOf, Thoughts
<1>8. ASSUME target = "gemini"
      PROVE  \A i \in DOMAIN Sent : /\ Sent[i].parts # <<>>
                                    /\ \A j \in DOMAIN Sent[i].parts : Whole(Sent[i].parts[j])
  <2>1. history \in Seq(Speakable("gemini"))
    BY <1>1, <1>8
  <2>2. Sent = Converted("gemini", history)
    BY <1>8 DEF Sent
  <2>3. Sent \in Seq(WholeWires)
    BY <2>1, <2>2, GeminiWhole
  <2>4. SUFFICES ASSUME NEW i \in DOMAIN Sent
                 PROVE  /\ Sent[i].parts # <<>>
                        /\ \A j \in DOMAIN Sent[i].parts : Whole(Sent[i].parts[j])
    OBVIOUS
  <2> DEFINE A == WholeWires
             p == Sent[i].parts
             W == WholeBlocks
  <2>5. Sent[i] \in A
    <3>1. Sent \in Seq(A)
      BY <2>3
    <3> HIDE DEF A
    <3>2. QED
      BY <2>4, <3>1
  <2>6. p # <<>> /\ p \in Seq(W)
    BY <2>5 DEF WholeWires
  <2> HIDE DEF p, W
  <2>7. \A j \in DOMAIN p : p[j] \in W
    BY <2>6
  <2>8. QED
    BY <2>6, <2>7 DEF W, WholeBlocks, p
<1>9. target = "anthropic" =>
        Merged(Meanings(Sent[turn].parts)) = Merged(Meanings(Spoken[turn].content))
  BY TurnMeans
<1>10. TextOf(sent) = TextOf(said) /\ CallsOf(sent) = CallsOf(said) /\ MediaOf(sent) = MediaOf(said)
  BY <1>3, <1>4, <1>5, SeenIsFlat
<1>11. SameResults(Of(sent, {"tool_result"}), Of(said, {"tool_result"}))
  BY <1>3, <1>6, ToldResults
<1> HIDE DEF sent, said
<1>12. QED
  BY <1>7, <1>8, <1>9, <1>10, <1>11

\* A request tells the upstream what was said: every text, call, result, image and
\* document, the turn for Anthropic in its order, no thinking for the others, and
\* no empty part or message for Gemini (convertMessages of each provider).
THEOREM AnswersSaidBack == ReplaySpec => []SaidBack
<1>1. RInv => SaidBack
  BY SaidIsBack
<1>2. QED
  BY <1>1, RInvHolds, PTL

=============================================================================
