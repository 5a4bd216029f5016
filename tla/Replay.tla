------------------------------- MODULE Replay -------------------------------
(***************************************************************************)
(* The answer of one call as the history of the next.  A caller appends    *)
(* the content of a streamed answer (module Assembly) to its conversation  *)
(* with the results of the calls in it, and sends the conversation to a    *)
(* provider, the same one or another.  Each provider converts the messages *)
(* to its own wire form: convertMessages and convertMessage of anthropic,  *)
(* gemini, openai and ollama.go, buildResponsesInput of responses.go.      *)
(*                                                                         *)
(* A block of a message and a part on the wire are one kind of record; a   *)
(* conversion clears the fields that the wire form has no place for.       *)
(* Pieces <<0, k>> are of texts that did not come from the answer.         *)
(***************************************************************************)
EXTENDS Assembly

CONSTANTS
  Targets,    \* the providers the conversation may be sent to
  MaxReplied  \* bound: blocks of an answer that is replied to

ASSUME ReplayAssumption ==
  /\ Targets \subseteq {"openai", "responses", "anthropic", "gemini", "ollama"}
  /\ MaxReplied \in Nat

VARIABLES
  history,  \* the messages of the next request, <<>> before there is one
  turn,     \* history: the position of the answer among them
  target    \* the provider it is sent to

replayVars == <<history, turn, target>>

-----------------------------------------------------------------------------
(* Messages *)

Said      == <<<<0, 1>>>>  \* what a user or a tool says
Inline    == <<<<0, 2>>>>  \* the data of an image or a document
URL       == <<<<0, 3>>>>  \* a reference to one
NoMessage == <<<<0, 4>>>>  \* toolresult.UnspecifiedError

Block(type, id, name, body, data, signature, failed) ==
  [type |-> type, id |-> id, name |-> name, body |-> body, data |-> data,
   signature |-> signature, failed |-> failed]

Words(text)          == Block("text", 0, 0, text, <<>>, <<>>, FALSE)
Media(type, source)  == Block(type, 0, 0, <<>>, source, <<>>, FALSE)
Call(id, name, args, signature) == Block("tool_use", id, name, args, <<>>, signature, FALSE)
ToolResultBlock(id, text, failed) == Block("tool_result", id, 0, text, <<>>, <<>>, failed)

Message(role, content) == [role |-> role, content |-> content]

\* The function that a call of the answer calls bears the number of its block,
\* which is its ID, but for Ollama, whose calls all have one ID.
Named(c) ==
  Block(c.type, c.id,
        IF c.type # "tool_use" THEN 0
        ELSE IF provider # "ollama_tools" \/ c.body = <<>> THEN c.id ELSE c.body[1][1],
        c.body, c.data, c.signature, FALSE)

AssistantBlocks(content) == Message("assistant", [i \in 1 .. Len(content) |-> Named(content[i])])

\* The blocks at some positions only.
Only(content, positions) ==
  FlattenSeq([i \in 1 .. Len(content) |-> IF i \in positions THEN <<content[i]>> ELSE <<>>])

Of(content, types) == Only(content, {i \in 1 .. Len(content) : content[i].type \in types})

\* An earlier call of the same provider.  The ID of a call of Gemini is a prefix
\* and the name of the function, the ID of a call of Ollama is always the same.
EarlierCall ==
  CASE provider = "gemini" -> Call(1, 1, Said, Said)
    [] provider \in {"ollama", "ollama_tools"} -> Call(1, 0, Said, <<>>)
    [] OTHER -> Call(0, 0, Said, <<>>)

EarlierResult == ToolResultBlock(EarlierCall.id, Said, FALSE)

\* What the conversation may be before the answer: a question, with nothing said,
\* with an image or a document, after another turn with a call, or after the
\* caller has removed the message with that call.
Openings ==
  LET question == Message("user", <<Words(Said)>>)
  IN  {<<question>>}
      \cup {<<Message("user", <<Words(<<>>), m>>), question>> :
              m \in {Media("image", Inline), Media("image", URL), Media("image", <<>>),
                     Media("document", Inline)}}
      \cup {<<question, Message("assistant", <<EarlierCall>>),
              Message("tool", <<EarlierResult>>)>>,
            <<Message("tool", <<EarlierResult>>)>>}

\* What the caller appends to the answer: the results of its calls, each in a
\* message of its own (the documented loop), in one, or in a message of the user
\* with a text before or after them; or the next question.
Replies(content) ==
  LET calls == Of(content, {"tool_use"})
      Results(text, failed) ==
        [i \in 1 .. Len(calls) |-> ToolResultBlock(calls[i].id, text, failed)]
      Forms(rs) ==
        {[i \in 1 .. Len(rs) |-> Message("tool", <<rs[i]>>)],
         <<Message("tool", rs)>>,
         <<Message("user", Append(rs, Words(Said)))>>,
         <<Message("user", <<Words(Said)>> \o rs)>>}
  IN  IF calls = <<>> THEN {<<Message("user", <<Words(Said)>>)>>}
      ELSE UNION {Forms(Results(Said, FALSE)), Forms(Results(Said, TRUE)),
                  Forms(Results(<<>>, TRUE))}

-----------------------------------------------------------------------------
(* The wire form of each provider: a sequence of messages *)

Wire(role, parts) == [role |-> role, parts |-> parts]

\* toolresult.Content: a failed result says so in its text, which is not empty.
Content(b) == [b EXCEPT !.body = IF b.failed /\ @ = <<>> THEN NoMessage ELSE @]

Joined(content) ==
  Words(FlattenSeq([i \in 1 .. Len(Of(content, {"text"})) |-> Of(content, {"text"})[i].body]))

HasSource(b) == b.type \in {"image", "document"} => b.data # <<>>

Sourced(content) == Only(content, {i \in 1 .. Len(content) : HasSource(content[i])})

(* Anthropic: message for message and block for block. *)

ConvertBlock(b) == [b EXCEPT !.name = IF b.type = "tool_use" THEN @ ELSE 0,
                             !.signature = IF b.type = "tool_use" THEN <<>> ELSE @]

AnthropicMessages(h) ==
  [i \in 1 .. Len(h) |->
     Wire(IF h[i].role = "assistant" THEN "assistant" ELSE "user",
          [j \in 1 .. Len(h[i].content) |-> ConvertBlock(h[i].content[j])])]

(* Gemini: a result names the function, which toolNames remembers by the ID of *)
(* the call; empty parts and empty messages are left out.                      *)

FunctionName(names, id) == IF id \in DOMAIN names THEN names[id] ELSE id

\* mutant: the call is echoed without its thought signature
UnsignedCall(b) == [b EXCEPT !.id = 0, !.signature = <<>>]

FunctionCall(b) == [b EXCEPT !.id = 0]

GeminiParts(names, b) ==
  CASE b.type = "text" -> IF b.body = <<>> THEN <<>> ELSE <<b>>
    [] b.type \in {"image", "document"} -> IF HasSource(b) THEN <<b>> ELSE <<>>
    [] b.type = "tool_use" -> <<FunctionCall(b)>>
    [] b.type = "tool_result" ->
         <<[Content(b) EXCEPT !.id = 0, !.name = FunctionName(names, b.id)]>>
    [] OTHER -> <<>>

Remember(names, b) ==
  IF b.type = "tool_use"
  THEN [id \in {b.id} \cup DOMAIN names |-> IF id = b.id THEN b.name ELSE names[id]]
  ELSE names

\* The conversion threads toolNames through the blocks in order.
GeminiBlock(a, b) ==
  [parts |-> a.parts \o GeminiParts(a.names, b), names |-> Remember(a.names, b)]

GeminiMessage(a, m) ==
  LET done == FoldLeft(GeminiBlock, [parts |-> <<>>, names |-> a.names], m.content)
      role == IF m.role = "assistant" THEN "model" ELSE "user"
  IN  [contents |-> IF done.parts = <<>> THEN a.contents
                    ELSE Append(a.contents, Wire(role, done.parts)),
       names |-> done.names]

Nothing == [contents |-> <<>>, names |-> [id \in {} |-> 0]]

\* mutant: the names of the whole conversation are collected beforehand
NamesAhead(h) ==
  FoldLeft(GeminiMessage,
           [Nothing EXCEPT !.names = FoldLeft(GeminiMessage, Nothing, h).names],
           h).contents

GeminiContents(h) == FoldLeft(GeminiMessage, Nothing, h).contents

(* OpenAI: results are messages of their own, ahead of the rest of a message. *)

ConvertToolMessage(content) ==
  LET results == Of(content, {"tool_result"})
  IN  [i \in 1 .. Len(results) |-> Wire("tool", <<Content(results[i])>>)]

UserParts(content) ==
  IF Of(content, {"image"}) = <<>> THEN <<Joined(content)>>
  ELSE Sourced(Of(content, {"text", "image"}))

Rest(m) == Only(m.content, {i \in 1 .. Len(m.content) : m.content[i].type # "tool_result"})

\* mutant: the rest of a message goes ahead of its results
RestAhead(m, parts) ==
  (IF Rest(m) = <<>> THEN <<>> ELSE <<Wire(m.role, parts)>>)
    \o ConvertToolMessage(m.content)

\* The message, the parts of whose rest are given.
SplitUserToolResults(m, parts) ==
  IF Rest(m) = m.content THEN <<Wire(m.role, parts)>>
  ELSE ConvertToolMessage(m.content)
         \o (IF Rest(m) = <<>> THEN <<>> ELSE <<Wire(m.role, parts)>>)

Unsign(calls) == [i \in 1 .. Len(calls) |-> [calls[i] EXCEPT !.signature = <<>>]]

AssistantText(content) ==
  IF Of(content, {"text"}) = <<>> THEN <<>> ELSE <<Joined(content)>>

OpenAIMessage(m) ==
  CASE m.role = "assistant" ->
         <<Wire("assistant",
                AssistantText(m.content) \o Unsign(Of(m.content, {"tool_use"})))>>
    [] m.role = "tool" -> ConvertToolMessage(m.content)
    [] OTHER -> SplitUserToolResults(m, UserParts(Rest(m)))

(* The Responses API: each call is an item, and so is each result. *)

InputParts(content) == Sourced(Of(content, {"text", "image"}))

ResponsesItems(m) ==
  CASE m.role = "assistant" ->
         LET parts == AssistantText(m.content) \o Unsign(Of(m.content, {"tool_use"}))
         IN  [i \in 1 .. Len(parts) |-> Wire("assistant", <<parts[i]>>)]
    [] m.role = "tool" -> ConvertToolMessage(m.content)
    [] OTHER -> SplitUserToolResults(m, InputParts(Rest(m)))

(* Ollama: calls are written out in the text, where a call without arguments  *)
(* cannot be, and results follow the rest of a message.                        *)

Written(content) == Only(content, {i \in 1 .. Len(content) : content[i].body # <<>>})

OllamaMessage(m) ==
  LET written == Written(Of(m.content, {"text", "tool_use"}))
      images  == Sourced(Of(m.content, {"image"}))
      plain   == [i \in 1 .. Len(written) |-> [written[i] EXCEPT !.id = 0, !.signature = <<>>]]
      results == ConvertToolMessage(m.content)
  IN  (IF plain \o images = <<>> /\ m.content # <<>> THEN <<>>
       ELSE <<Wire(m.role, plain \o images)>>)
      \o [i \in 1 .. Len(results) |-> [results[i] EXCEPT !.parts[1].id = 0]]

Converted(t, h) ==
  CASE t = "anthropic" -> AnthropicMessages(h)
    [] t = "gemini"    -> GeminiContents(h)
    [] t = "openai"    -> FlattenSeq([i \in 1 .. Len(h) |-> OpenAIMessage(h[i])])
    [] t = "responses" -> FlattenSeq([i \in 1 .. Len(h) |-> ResponsesItems(h[i])])
    [] t = "ollama"    -> FlattenSeq([i \in 1 .. Len(h) |-> OllamaMessage(h[i])])

Contents(h) == FlattenSeq([i \in 1 .. Len(h) |-> h[i].content])

\* The request is refused before anything is sent.
Refused(t, h) ==
  \/ t \in {"openai", "responses", "ollama"} /\ Of(Contents(h), {"document"}) # <<>>
  \/ t = "ollama" /\ \E i \in DOMAIN Contents(h) :
                       Contents(h)[i].type = "image" /\ Contents(h)[i].data = URL
  \/ t = "gemini" /\ GeminiContents(h) = <<>>

-----------------------------------------------------------------------------
ReplayInit == Init /\ history = <<>> /\ turn = 0 /\ target = "none"

\* The caller continues the conversation with the content that Collect, or Chat,
\* has returned.
Continue ==
  /\ ending = "done" /\ target = "none" /\ Len(answer) <= MaxReplied
  /\ \E before \in Openings, content \in {acc.content, ParseChatResponse}, t \in Targets :
       \E after \in Replies(AssistantBlocks(content).content) :
         /\ history' = before \o <<AssistantBlocks(content)>> \o after
         /\ turn' = Len(before) + 1
         /\ target' = t
  /\ UNCHANGED vars

ReplayNext == (Next /\ UNCHANGED replayVars) \/ Continue

ReplaySpec == ReplayInit /\ [][ReplayNext]_<<vars, replayVars>>

-----------------------------------------------------------------------------
(* Properties *)

Sent      == Converted(target, history)
SentParts == FlattenSeq([i \in 1 .. Len(Sent) |-> Sent[i].parts])

Accepted == target # "none" /\ ~Refused(target, history)

\* The conversation as it took place: with what the upstream answered, if it came
\* to the end of it, whatever became of the answer on the way.
Spoken ==
  IF AnswerSent THEN [history EXCEPT ![turn] = AssistantBlocks(ParseChatResponse)]
  ELSE history

\* What a block says, but for what the target's wire form has no place for: only
\* Gemini takes a signature with a call, and no ID.  The arguments {} are none.
Meaning(b) ==
  [b EXCEPT !.id = IF target \in {"gemini", "ollama"} THEN 0 ELSE @,
            !.body = IF b.type = "tool_use" /\ @ = NoArguments(b.name) THEN <<>> ELSE @,
            !.signature = IF b.type = "tool_use" /\ target # "gemini" THEN <<>> ELSE @]

Meanings(content) == [i \in 1 .. Len(content) |-> Meaning(content[i])]

TextOf(content)  == Joined(content).body
CallsOf(content) == Meanings(Of(content, {"tool_use"}))
MediaOf(content) == Meanings(Sourced(Of(content, {"image", "document"})))
ThinkingOf(content) == Of(content, {"thinking", "redacted_thinking"})

\* A failed result is told as one and, where there is no flag for it, in words.
SameResult(sent, said) ==
  /\ sent.failed = said.failed
  /\ IF sent.failed /\ said.body = <<>> /\ target # "anthropic"
     THEN sent.body # <<>> ELSE sent.body = said.body

SameResults(sent, said) ==
  /\ Len(sent) = Len(said)
  /\ \A i \in 1 .. Len(sent) : SameResult(sent[i], said[i])

\* Ollama cannot be told of a call without arguments that was streamed.
Unwritable ==
  target = "ollama" /\ \E i \in DOMAIN Contents(history) :
    Contents(history)[i].type = "tool_use" /\ Contents(history)[i].body = <<>>

Whole(p) == p.type # "tool_use" => p.body # <<>> \/ p.data # <<>>

\* A request tells the upstream what was said: the turn of the model as the model
\* made it, with each call once, in order, with its name, arguments and
\* signature, the thinking unchanged and in its place for Anthropic and left out
\* for the others, every result, image and document; and Gemini gets no part and
\* no message that is empty (convertMessages of each provider; types.go, ToolUse
\* and Thinking: "keep assistant messages intact").
SaidBack ==
  Accepted /\ ~KeepsThinking /\ ~Strayed /\ ~Unwritable =>
    LET sent == SentParts  said == Contents(Spoken)
    IN  /\ TextOf(sent) = TextOf(said)
        /\ CallsOf(sent) = CallsOf(said)
        /\ MediaOf(sent) = MediaOf(said)
        /\ SameResults(Of(sent, {"tool_result"}), Of(said, {"tool_result"}))
        /\ target # "anthropic" => ThinkingOf(sent) = <<>>
        /\ target = "anthropic" =>
             Merged(Meanings(Sent[turn].parts)) = Merged(Meanings(Spoken[turn].content))
        /\ target = "gemini" =>
             \A i \in DOMAIN Sent : /\ Sent[i].parts # <<>>
                                    /\ \A j \in DOMAIN Sent[i].parts : Whole(Sent[i].parts[j])

Latest(s, n) == SubSeq(s, Len(s) - n + 1, Len(s))

\* The result is of the call, as the target tells calls apart.
Refers(result, call) ==
  CASE target = "gemini" -> result.name = call.name
    [] target = "ollama" -> TRUE
    [] OTHER -> result.id = call.id

LastCaller ==
  CHOOSE j \in DOMAIN Sent : /\ Of(Sent[j].parts, {"tool_use"}) # <<>>
                             /\ \A i \in j + 1 .. Len(Sent) :
                                  Of(Sent[i].parts, {"tool_use"}) = <<>>

\* The results come directly after the turn that made the calls.  OpenAI sees to
\* it; the others leave the order of a message of the user to the caller, but for
\* Ollama, which puts its text ahead.
Adjacent(n) ==
  IF target \in {"openai", "responses"}
  THEN \A i \in 1 .. n : Sent[LastCaller + i].role = "tool"
  ELSE history[turn + 1].content[1].type = "tool_result"
         /\ (target = "ollama" => history[turn + 1].role = "tool")
       => Sent[LastCaller + 1].parts[1].type = "tool_result"

\* Each call of the answer gets its result, which refers to it by what the target
\* tells calls apart by, although the ID of an earlier call may be the same or
\* its message be gone, and the results follow the calls directly
\* (splitUserToolResults: "OpenAI requires them to follow the assistant message
\* that made the calls directly"; convertMessages of gemini.go, toolNames).
ResultsPaired ==
  Accepted /\ ~Unwritable =>
    LET calls   == Of(SentParts, {"tool_use"})
        results == Of(SentParts, {"tool_result"})
        n       == Len(Of(history[turn].content, {"tool_use"}))
    IN  /\ Len(calls) >= n /\ Len(results) >= n
        /\ \A i \in 1 .. n : Refers(Latest(results, n)[i], Latest(calls, n)[i])
        /\ Len(results) > n /\ (Len(calls) > n \/ provider = "gemini") =>
             Refers(results[1], EarlierCall)
        /\ n > 0 => Adjacent(n)

\* What was sent for the beginning of a conversation is sent again, unchanged, as
\* the beginning of what is sent for the whole of it: upstreams take a replayed
\* block, or a cached prefix, only then (docs/providers.md: "only whilst ... the
\* messages ahead of it are unchanged").
PrefixStable ==
  Accepted =>
    \A n \in 1 .. Len(history) : IsPrefix(Converted(target, SubSeq(history, 1, n)), Sent)

\* Every call that is sent back has its arguments, if only {}: Collect "returns a
\* *ChatResponse with complete BlockToolUse content blocks, and any thinking
\* blocks, ready to pass back to the model" (docs/tool_calling.md).
ReadyToPassBack ==
  Accepted =>
    \A i \in DOMAIN SentParts : SentParts[i].type = "tool_use" => SentParts[i].body # <<>>

=============================================================================
