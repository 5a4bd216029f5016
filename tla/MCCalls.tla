------------------------------- MODULE MCCalls -------------------------------
(***************************************************************************)
(* Two callers of one client, who make the same call or two that share     *)
(* something, for every kind of call and client.                           *)
(***************************************************************************)
EXTENDS Calls, TLC

CONSTANTS c1, c2

Load(r1, r2, accepts, fits) ==
  [requests |-> (c1 :> r1) @@ (c2 :> r2), accepts |-> accepts, fits |-> fits]

-----------------------------------------------------------------------------
Chat(op, effort) == [op |-> op, provider |-> "gemini", effort |-> effort]

\* None and Minimal have one level, High and Max another; Turbo is no effort.
Chats ==
  {Chat(op, effort) : op \in {"chat", "chat_stream"},
                      effort \in {"unset", "None", "Minimal", "High", "Max", "Turbo"}}

ChatLoads ==
  {Load(r1, r2, accepts, 0) : r1 \in Chats, r2 \in Chats, accepts \in SUBSET {"minimal", "high"}}

-----------------------------------------------------------------------------
Embed(provider, op, n, named, known) ==
  [op |-> op, provider |-> provider, n |-> n, named |-> named, known |-> known]

Embeddings ==
  {Embed(p, "embed", 1, TRUE, TRUE) : p \in {"openai", "gemini", "voyage", "anthropic"}}
  \cup {Embed(p, op, n, TRUE, TRUE) : p \in {"openai", "gemini", "voyage"}, n \in 0 .. 2,
                                      op \in {"embed_batch", "multimodal", "rerank"}}
  \cup {Embed("voyage", "multimodal", 1, FALSE, TRUE), Embed("voyage", "multimodal", 1, TRUE, FALSE)}

EmbedLoads ==
  {Load(r1, r2, {}, 0) : <<r1, r2>> \in {rs \in Embeddings \X Embeddings : rs[1].provider = rs[2].provider}}

-----------------------------------------------------------------------------
Batch(op, texts, truncates) ==
  [op |-> op, provider |-> "ollama", texts |-> texts, truncates |-> truncates]

Long   == [size |-> 8, spaces |-> {0, 3, 5}]
NoWord == [size |-> 8, spaces |-> {}]
Short  == [size |-> 3, spaces |-> {1}]
Letter == [size |-> 1, spaces |-> {}]

Batches ==
  {Batch("embed", <<t>>, truncates) : t \in {Long, NoWord, Short, Letter}, truncates \in BOOLEAN}
  \cup {Batch("embed_batch", ts, TRUE) : ts \in {<<>>, <<Short, Long>>}}
  \cup {Batch("rerank", <<>>, TRUE)}

BatchLoads ==
  {Load(r1, r2, {}, fits) :
     r1 \in Batches, r2 \in {Batch("embed", <<Letter>>, FALSE), Batch("embed", <<Short>>, TRUE)},
     fits \in {0, 1, 2, 4, 8}}

-----------------------------------------------------------------------------
Question(name, kind, options) ==
  [name |-> name, kind |-> kind, instructed |-> TRUE, options |-> options]

Ask(provider, questions) ==
  [op |-> "decide", provider |-> provider, input |-> TRUE, images |-> <<>>, questions |-> questions]

\* The labels of the levels are numbers of other levels.
YesNo  == Question(1, "yes_no", <<>>)
Choice == Question(2, "choice", <<3, 1>>)
Score  == Question(3, "score", <<2, 1>>)

Image(url, data, typed) == [url |-> url, data |-> data, typed |-> typed]

Asked ==
  {<<YesNo, Score>>, <<Choice>>, <<Choice, Score>>,
   <<>>, <<YesNo, YesNo>>, <<Question(0, "yes_no", <<>>)>>, <<[YesNo EXCEPT !.instructed = FALSE]>>,
   <<Question(1, "yes_no", <<1>>)>>, <<Question(1, "other", <<>>)>>, <<Question(1, "choice", <<1>>)>>,
   <<Question(1, "choice", <<1, 2, 3, 4>>)>>, <<Question(1, "choice", <<1, 0>>)>>,
   <<Question(1, "score", <<1, 1>>)>>, <<Question(1, "score", <<3, 1, 2>>)>>}

Requests ==
  {Ask(p, qs) : p \in {"openai", "typesafe", "gemini"}, qs \in Asked}
  \cup {[Ask(p, <<YesNo>>) EXCEPT !.input = FALSE, !.images = images] :
          p \in {"openai", "typesafe"},
          images \in {<<>>, <<Image(TRUE, FALSE, FALSE)>>, <<Image(FALSE, TRUE, TRUE)>>,
                      <<Image(FALSE, TRUE, FALSE)>>, <<Image(TRUE, TRUE, TRUE)>>}}

DecisionLoads == {Load(r, Ask(r.provider, <<Score>>), {}, 0) : r \in Requests}

MCLoads == ChatLoads \cup EmbedLoads \cup BatchLoads \cup DecisionLoads
=============================================================================
