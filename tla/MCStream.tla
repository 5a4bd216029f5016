------------------------------ MODULE MCStream ------------------------------
(* The sets of producers and consumers the runs of Stream range over. *)
EXTENDS Stream

OnlyCollect   == {"collect"}
OnlyOpenAI    == {"openai"}
OnlyAnthropic == {"anthropic"}
=============================================================================
