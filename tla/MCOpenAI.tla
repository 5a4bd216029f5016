------------------------------ MODULE MCOpenAI -------------------------------
(* Models and requests for OpenAIAdapt, named after the families the comments *)
(* of adapt.go speak of.                                                      *)
EXTENDS OpenAIAdapt

Ask(e, t, m, tools, stops, extra) ==
  [effort |-> e, temperature |-> t, maxTokens |-> m, tools |-> tools,
   stops |-> stops, extra |-> extra]

Model(tokens, temps, levels, effort, tools, only) ==
  [maxTokens |-> tokens, noTemperature |-> temps, levels |-> levels,
   effort |-> effort, toolsNeedNone |-> tools, responsesOnly |-> only]

\* Takes a temperature, and tools on Chat Completions, at effort none alone.
Hybrid == Model(FALSE, {"reasoning"}, {"none", "low", "medium", "high"}, TRUE, TRUE,
                FALSE)
\* Takes "high" only, through /v1/responses only.
Pro == Model(TRUE, {"reasoning"}, {"high"}, TRUE, FALSE, TRUE)

Opposites == {Hybrid, Pro}

\* Levels that need not be taken, nor their neighbours; a temperature,
\* a token limit, tools, stop sequences; an extra field that may be named, and one
\* that replaces the effort beside a temperature.  The first request has four
\* things to give up on Pro and fails there, the others no more than three.
MixedRequests ==
  {Ask("low", TRUE, FALSE, TRUE, FALSE, {}),
   Ask("minimal", FALSE, TRUE, FALSE, FALSE, {"temperature"}),
   Ask(Default, TRUE, FALSE, FALSE, TRUE, {"effort"})}
=============================================================================
