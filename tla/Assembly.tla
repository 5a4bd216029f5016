------------------------------ MODULE Assembly ------------------------------
(***************************************************************************)
(* The content of one streamed answer.  The ChatStream of each provider    *)
(* translates the answer, as the upstream sends it piece by piece, to      *)
(* chunks; Stream.Collect and the proxy's writeSSE, which has the same     *)
(* accumulator, fold the chunks back to content blocks.  What they return  *)
(* is compared with what the provider's Chat makes of the same answer.     *)
(*                                                                         *)
(* The channels between producer and consumer are those of module Stream,  *)
(* which shows that a consumer holds the first chunks that were sent, in   *)
(* order; so here a chunk is folded as it is sent, and the stream may      *)
(* break between any two.  A string is the sequence of the pieces it was   *)
(* put together from: piece k of block b is <<b, k>>.                      *)
(***************************************************************************)
EXTENDS Naturals, Sequences, SequencesExt

CONSTANTS
  Providers,  \* the providers to consider
  MaxBlocks,  \* bound: blocks of an answer
  MaxPieces   \* bound: pieces of a block

\* "ollama_tools" is Ollama with tools in the request: it withholds content.
AllProviders == {"openai", "responses", "anthropic", "gemini", "ollama", "ollama_tools"}

ASSUME AssemblyAssumption ==
  /\ Providers \subseteq AllProviders
  /\ MaxBlocks \in Nat /\ MaxPieces \in Nat \ {0}

VARIABLES
  provider,  \* which ChatStream produces
  answer,    \* what the model says: a sequence of blocks
  block,     \* the block that is being sent, 0 before the first
  piece,     \* how many of its pieces have been sent
  acc,       \* the accumulator of the consumer
  ending     \* how the stream has ended: "done", "eof", "error", or "open"

vars == <<provider, answer, block, piece, acc, ending>>

-----------------------------------------------------------------------------
(* Answers *)

\* "other" is an item of a type that neither path reads, such as the reasoning
\* items of /v1/responses and the server_tool_use blocks of Anthropic.  Ollama's
\* answer is one string: thinking between tags, text without braces, JSON objects
\* that are a tool call or are not.
Kinds(p) ==
  CASE p = "anthropic" -> {"text", "tool_use", "thinking", "redacted_thinking", "other"}
    [] p = "responses" -> {"text", "tool_use", "other"}
    [] p \in {"openai", "gemini"} -> {"text", "tool_use"}
    [] OTHER -> {"think", "text", "call", "object"}

\* Only Anthropic streams a call without arguments as no piece at all, where the
\* whole answer says {}; a redacted block, and a call of Gemini, come whole.
Sizes(p, kind) ==
  CASE kind = "redacted_thinking" -> {1}
    [] kind = "tool_use" /\ p = "gemini" -> {1}
    [] kind = "thinking" -> 0 .. MaxPieces
    [] kind = "tool_use" /\ p = "anthropic" -> 0 .. MaxPieces
    [] OTHER -> 1 .. MaxPieces

\* The deltas of a block of Anthropic have a type of their own, so that those of an
\* "other" block may be of one that the client reads, or of none ("own").
Deltas(p, kind) ==
  IF p = "anthropic" /\ kind = "other" THEN {"own", "text", "arguments", "thinking"}
  ELSE {"own"}

\* A call of Gemini may be signed.
Blocks(p) ==
  UNION {[kind : {kind}, size : Sizes(p, kind), deltas : Deltas(p, kind),
          signed : IF kind = "tool_use" /\ p = "gemini" THEN BOOLEAN ELSE {FALSE}] :
         kind \in Kinds(p)}

\* A completion has one text, ahead of its tool calls.
InOrder(p, s) ==
  p = "openai" => \A i \in 2 .. Len(s) : s[i].kind # "text"

Answers(p) ==
  {s \in UNION {[1 .. n -> Blocks(p)] : n \in 0 .. MaxBlocks} : InOrder(p, s)}

Pieces(b) == [k \in 1 .. answer[b].size |-> <<b, k>>]

\* The signature of a thinking block or of a call, and the arguments {} of a call
\* that has none, as strings of one piece.
Signature(b) == <<<<b, 0>>>>
NoArguments(b) == <<<<b, 0>>>>

Input(b) == IF answer[b].size = 0 THEN NoArguments(b) ELSE Pieces(b)

-----------------------------------------------------------------------------
(* Content blocks, and what Chat returns *)

ContentBlock(type, id, body, data, signature) ==
  [type |-> type, id |-> id, body |-> body, data |-> data, signature |-> signature]
TextBlock(body)              == ContentBlock("text", 0, body, <<>>, <<>>)
ToolBlock(id, body, signature) == ContentBlock("tool_use", id, body, <<>>, signature)
ThinkingBlock(body, data, signature) ==
  ContentBlock(IF data = <<>> THEN "thinking" ELSE "redacted_thinking",
               0, body, data, signature)

Parsed(b) ==
  CASE answer[b].kind = "text" -> <<TextBlock(Pieces(b))>>
    [] answer[b].kind = "tool_use" ->
         <<ToolBlock(b, Input(b), IF answer[b].signed THEN Signature(b) ELSE <<>>)>>
    [] answer[b].kind = "thinking" -> <<ThinkingBlock(Pieces(b), <<>>, Signature(b))>>
    [] answer[b].kind = "redacted_thinking" -> <<ThinkingBlock(<<>>, Pieces(b), <<>>)>>
    [] OTHER -> <<>>

\* Ollama: the text that is left when the thinking is stripped.
StripThinkTags ==
  FlattenSeq([b \in 1 .. Len(answer) |-> IF answer[b].kind = "think" THEN <<>> ELSE Pieces(b)])

\* The first object in the text, if it is a tool call, else 0.
TryParseToolCall ==
  LET objects == {b \in 1 .. Len(answer) : answer[b].kind \in {"call", "object"}}
  IN  IF objects # {} /\ answer[Min(objects)].kind = "call" THEN Min(objects) ELSE 0

\* What Ollama's answer says: a tool call, if tools were offered, or a text.
OllamaContent ==
  IF StripThinkTags = <<>> THEN <<>>
  ELSE IF provider = "ollama_tools" /\ TryParseToolCall # 0
  THEN <<ToolBlock(1, Pieces(TryParseToolCall), <<>>)>>
  ELSE <<TextBlock(StripThinkTags)>>

\* The content of Chat's response.
ParseChatResponse ==
  IF provider \in {"ollama", "ollama_tools"} THEN OllamaContent
  ELSE FlattenSeq([b \in 1 .. Len(answer) |-> Parsed(b)])

-----------------------------------------------------------------------------
(* The accumulator of the consumers *)

NoThinking == [open |-> FALSE, text |-> <<>>, data |-> <<>>, signature |-> <<>>]
NoTool     == [id |-> 0, signature |-> <<>>]
Empty      == [content |-> <<>>, text |-> <<>>, tool |-> NoTool, toolBuf |-> <<>>,
               thinking |-> NoThinking]

FlushText(a) ==
  IF a.text = <<>> THEN a
  ELSE [a EXCEPT !.content = Append(@, TextBlock(a.text)), !.text = <<>>]

\* mutant: the buffer of the arguments is not reset
BufferKept(a) ==
  IF a.tool = NoTool THEN a
  ELSE [a EXCEPT !.content = Append(@, ToolBlock(a.tool.id, a.toolBuf, a.tool.signature)),
                 !.tool = NoTool]

FlushTool(a) ==
  IF a.tool = NoTool THEN a
  ELSE [a EXCEPT !.content = Append(@, ToolBlock(a.tool.id, a.toolBuf, a.tool.signature)),
                 !.tool = NoTool, !.toolBuf = <<>>]

FlushThinking(a) ==
  LET t == a.thinking
  IN  IF ~t.open THEN a
      ELSE [a EXCEPT !.content = Append(@, ThinkingBlock(t.text, t.data, t.signature)),
                     !.thinking = NoThinking]

FlushAll(a) == FlushThinking(FlushTool(FlushText(a)))

\* mutant: a text does not end the thinking before it
FlushForText(a) == FlushTool(a)

BeforeText(a) == FlushThinking(FlushTool(a))

\* mutant: the block is rebuilt without its signature
Unsigned(c) == [id |-> c.id, signature |-> <<>>]

ToolOf(c) == [id |-> c.id, signature |-> c.signature]

Chunk(type, id, text, data, signature) ==
  [type |-> type, id |-> id, text |-> text, data |-> data, signature |-> signature]
NoChunk == Chunk("none", 0, <<>>, <<>>, <<>>)

\* A chunk is taken.  Of a thinking chunk the text and the signature are
\* concatenated each on its own; a delta without a start is dropped.
Accumulate(a, c) ==
  CASE c.type = "text" ->
         [BeforeText(a) EXCEPT !.text = @ \o c.text]
    [] c.type = "tool_use_start" ->
         [FlushAll(a) EXCEPT !.tool = ToolOf(c), !.toolBuf = @ \o c.text]
    [] c.type = "tool_use_delta" ->
         [a EXCEPT !.toolBuf = @ \o c.text]
    [] c.type = "thinking_start" ->
         [FlushAll(a) EXCEPT !.thinking =
            [open |-> TRUE, text |-> c.text, data |-> c.data, signature |-> c.signature]]
    [] c.type = "thinking_delta" ->
         IF a.thinking.open
         THEN [a EXCEPT !.thinking.text = @ \o c.text,
                        !.thinking.signature = @ \o c.signature]
         ELSE a
    [] OTHER -> a

-----------------------------------------------------------------------------
(* The producers *)

\* The pieces of block b in the order they arrive; a thinking block's signature
\* comes last.
Parts(b) ==
  answer[b].size + (IF answer[b].kind = "thinking" THEN 1 ELSE 0)

\* What announces a block, with its first pieces.
StartChunk(b, first) ==
  LET carried == SubSeq(Pieces(b), 1, first)
  IN  CASE answer[b].kind = "tool_use" ->
             Chunk("tool_use_start", b, carried, <<>>,
                   IF answer[b].signed THEN Signature(b) ELSE <<>>)
        [] answer[b].kind = "thinking" ->
             Chunk("thinking_start", 0, carried, <<>>, <<>>)
        [] answer[b].kind = "redacted_thinking" ->
             Chunk("thinking_start", 0, <<>>, carried, <<>>)
        [] OTHER -> NoChunk

\* How many pieces come with the announcement.
Carried(b) ==
  CASE answer[b].kind = "redacted_thinking" -> {1}
    [] answer[b].kind = "tool_use" /\ provider = "gemini" -> {1}
    [] answer[b].kind = "thinking" -> {n \in {0, 1} : n <= answer[b].size}
    [] OTHER -> {0}

\* A delta of an "other" block is taken for what its type says: ChatStream looks at
\* the type of a block when it starts and not again.
OtherDelta(b, it) ==
  CASE answer[b].deltas = "text"      -> Chunk("text", 0, it, <<>>, <<>>)
    [] answer[b].deltas = "arguments" -> Chunk("tool_use_delta", 0, it, <<>>, <<>>)
    [] answer[b].deltas = "thinking"  -> Chunk("thinking_delta", 0, it, <<>>, <<>>)
    [] OTHER -> NoChunk

\* The chunk for piece k of block b.  With tools Ollama only accumulates.
DeltaChunk(b, k) ==
  LET it == <<<<b, k>>>>
  IN  CASE provider = "ollama_tools" -> NoChunk
        [] answer[b].kind = "other" -> OtherDelta(b, it)
        [] answer[b].kind = "tool_use" -> Chunk("tool_use_delta", 0, it, <<>>, <<>>)
        [] answer[b].kind = "thinking" ->
             IF k <= answer[b].size THEN Chunk("thinking_delta", 0, it, <<>>, <<>>)
             ELSE Chunk("thinking_delta", 0, <<>>, <<>>, Signature(b))
        [] OTHER -> Chunk("text", 0, it, <<>>, <<>>)

\* What is sent ahead of the done chunk: the content that Ollama has withheld.
FinalChunk ==
  IF provider # "ollama_tools" \/ StripThinkTags = <<>> THEN NoChunk
  ELSE IF TryParseToolCall # 0
  THEN Chunk("tool_use_start", 1, Pieces(TryParseToolCall), <<>>, <<>>)
  ELSE Chunk("text", 0, StripThinkTags, <<>>, <<>>)

-----------------------------------------------------------------------------
Init ==
  /\ provider \in Providers
  /\ answer \in Answers(provider)
  /\ block = 0 /\ piece = 0
  /\ acc = Empty /\ ending = "open"

Send(c) == acc' = Accumulate(acc, c)

\* The consumer returns what it has assembled.
End(how, c) ==
  /\ ending' = how
  /\ acc' = FlushAll(Accumulate(acc, c))
  /\ UNCHANGED <<provider, answer, block, piece>>

BlockSent  == block # 0 => piece = Parts(block)
AnswerSent == block = Len(answer) /\ BlockSent

StartBlock ==
  /\ ending = "open" /\ BlockSent /\ block < Len(answer)
  /\ block' = block + 1
  /\ piece' \in Carried(block')
  /\ Send(StartChunk(block', piece'))
  /\ UNCHANGED <<provider, answer, ending>>

SendPiece ==
  /\ ending = "open" /\ ~BlockSent
  /\ piece' = piece + 1
  /\ Send(DeltaChunk(block, piece'))
  /\ UNCHANGED <<provider, answer, block, ending>>

\* The upstream says that the answer is finished.
Finish ==
  /\ ending = "open" /\ AnswerSent
  /\ End("done", FinalChunk)

\* The body ends before the upstream has said so.  The Responses producer sends
\* its done chunk all the same.
CutOff ==
  /\ ending = "open"
  /\ End(IF provider = "responses" THEN "done" ELSE "eof", NoChunk)

\* The stream fails, or the consumer's context is cancelled.
Fail ==
  /\ ending = "open"
  /\ End("error", NoChunk)

Next == StartBlock \/ SendPiece \/ Finish \/ CutOff \/ Fail

Spec == Init /\ [][Next]_vars

-----------------------------------------------------------------------------
(* Properties *)

\* Two lists of blocks say the same when they differ in nothing but where one
\* text ends and the next begins, or in {} for arguments that nothing was sent
\* of: the producers do not tell.
Merge(content, b) ==
  IF b.type = "tool_use" /\ b.body = NoArguments(b.id)
  THEN Append(content, [b EXCEPT !.body = <<>>])
  ELSE IF b.type = "text" /\ content # <<>> /\ Last(content).type = "text"
  THEN [content EXCEPT ![Len(content)].body = @ \o b.body]
  ELSE Append(content, b)

Merged(content) == FoldLeft(Merge, <<>>, content)

\* Where the stream of Ollama differs from what Chat returns: without tools it keeps
\* the thinking that Chat strips, although docs/providers.md:233-241 says that the
\* provider "strips these blocks before returning the response", "unconditionally".
KeepsThinking ==
  provider = "ollama" /\ \E b \in 1 .. Len(answer) : answer[b].kind = "think"

\* Where the stream of Anthropic goes astray, which Chat does not: a block of a
\* type that neither reads has begun whose deltas ChatStream reads.  They become
\* a text of the answer, or part of the thinking or the call that is open, or of
\* the next call.
Strayed == \E b \in 1 .. block : answer[b].deltas # "own"

\* A finished stream is assembled to the content that Chat returns for the same
\* answer, whatever the sizes of the pieces and the order of the blocks, with
\* the signature of each block (parseChatResponse and ChatStream of each
\* provider, Collect, writeSSE), but in the two cases above, in which the code does
\* not do so.
StreamedAsAnswered ==
  ending = "done" /\ AnswerSent /\ ~KeepsThinking /\ ~Strayed =>
    Merged(acc.content) = Merged(ParseChatResponse)

\* s is the beginning of block b.
Begins(s, b) ==
  /\ s.type = b.type /\ s.id = b.id
  /\ IsPrefix(s.body, b.body) /\ IsPrefix(s.data, b.data)
  /\ IsPrefix(s.signature, b.signature)

\* However a stream ends, what is returned is a beginning of the answer: whole
\* blocks but for the last, no piece in a block it is not of, none twice and
\* none out of order (Collect: "the partial response up to the error"), with the
\* same two exceptions.
PartialIsPrefix ==
  ending # "open" /\ ~KeepsThinking /\ ~Strayed =>
    LET got == Merged(acc.content)  whole == Merged(ParseChatResponse)
    IN  /\ Len(got) <= Len(whole)
        /\ \A i \in 1 .. Len(got) : IF i < Len(got) THEN got[i] = whole[i]
                                    ELSE Begins(got[i], whole[i])

AtMostOne(a) ==
  /\ a.tool # NoTool => a.text = <<>> /\ ~a.thinking.open
  /\ a.thinking.open => a.text = <<>>

NoStrayArguments(a) == a.tool = NoTool => a.toolBuf = <<>>

\* At most one block is open, whatever the upstream sends, so that the fixed order
\* in which flushAll closes text, tool call and thinking never reorders blocks.
\* Arguments are buffered for an open call only, or they would become part of the
\* next one, as those of an "other" block of Anthropic do.
OneOpen == AtMostOne(acc) /\ (~Strayed => NoStrayArguments(acc))

=============================================================================
