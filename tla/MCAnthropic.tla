----------------------------- MODULE MCAnthropic -----------------------------
(* Models, endpoints and requests for AnthropicAdapt. *)
EXTENDS AnthropicAdapt

Ask(temperature, effort, extended, auto, marks, replayed) ==
  [temperature |-> temperature, effort |-> effort, extended |-> extended,
   auto |-> auto, marks |-> marks, replayed |-> replayed]

Api(temperature, types, levels, beside, marker, marked, first) ==
  [temperature |-> temperature, types |-> types, levels |-> levels,
   besideThinking |-> beside, marker |-> marker, marked |-> marked, signatureFirst |-> first]

\* An endpoint that refuses everything a client can do without, and takes one
\* level beside extended thinking only.
Meagre == Api("refused", {"enabled"}, {"medium", "xhigh"}, {"xhigh"}, FALSE, {"some", "full"}, FALSE)

\* Takes a temperature but 1 without thinking alone, every level and the
\* top-level marker, but no marker on a replayed thinking block or a system block.
Strict == Api("not with thinking", {"adaptive", "enabled"}, Level, {"xhigh"}, TRUE, {"full"},
              TRUE)

Extremes == {Meagre, Strict}

\* Five things to give up at once; extended thinking beside a temperature and a
\* level; a temperature that adaptive thinking shuts out; thinking turned off,
\* with a marker on a replayed block.
MixedRequests ==
  {Ask("one", "xhigh", FALSE, TRUE, "some", "stale"),
   Ask("other", "xhigh", TRUE, FALSE, "full", "valid"),
   Ask("other", "minimal", FALSE, TRUE, "none", "none"),
   Ask(Unset, "none", FALSE, TRUE, "thinking", "stale")}
=============================================================================
