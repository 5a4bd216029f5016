--------------------------- MODULE StreamContract ---------------------------
(***************************************************************************)
(* What the readers of a stream promise their caller, with neither         *)
(* goroutines nor channels (the doc comments of Stream, Recv and Collect   *)
(* in llm/stream.go): chunks are delivered in the order in which they were *)
(* emitted and none is skipped; a result is given once; the end of the     *)
(* stream is only reported with every chunk delivered, and an error is     *)
(* never reported as a mere end.  A thorough reader (Collect) reports the  *)
(* error with every chunk delivered, too; writeSSE reports it at once.     *)
(***************************************************************************)
EXTENDS Naturals, Sequences

CONSTANTS
  Chunk,      \* what a provider emits
  DoneChunk   \* the chunks that end an answer

VARIABLES
  emitted,    \* chunks the provider emitted
  status,     \* "open", or how emission stopped: "ended" or "failed"
  delivered,  \* chunks in the response
  result,     \* what the caller was told, or "none"
  thorough    \* whether an error waits for the chunks sent before it

vars == <<emitted, status, delivered, result, thorough>>

Init ==
  /\ emitted = <<>>
  /\ status = "open"
  /\ delivered = <<>>
  /\ result = "none"
  /\ thorough \in BOOLEAN

Emit ==
  /\ status = "open"
  /\ \E c \in Chunk : emitted' = Append(emitted, c)
  /\ UNCHANGED <<status, delivered, result, thorough>>

Stop ==
  /\ status = "open"
  /\ status' \in {"ended", "failed"}
  /\ UNCHANGED <<emitted, delivered, result, thorough>>

Deliver ==
  /\ result = "none"
  /\ Len(delivered) < Len(emitted)
  /\ LET c == emitted[Len(delivered) + 1]
     IN  /\ delivered' = Append(delivered, c)
         /\ \/ UNCHANGED result
            \/ c \in DoneChunk /\ result' = "done"
  /\ UNCHANGED <<emitted, status, thorough>>

Finish ==
  /\ result = "none"
  /\ result' \in {"eof", "error", "ctx"}
  /\ result' = "eof" => status = "ended" /\ delivered = emitted
  /\ result' = "error" =>
       status = "failed" /\ (thorough => delivered = emitted)
  /\ UNCHANGED <<emitted, status, delivered, thorough>>

Next == Emit \/ Stop \/ Deliver \/ Finish

Spec == Init /\ [][Next]_vars

=============================================================================
