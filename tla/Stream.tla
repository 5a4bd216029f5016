------------------------------- MODULE Stream -------------------------------
(***************************************************************************)
(* One streaming chat call (llm/stream.go and the ChatStream method of     *)
(* each provider).  A producer goroutine reads events from the upstream    *)
(* body, turns them into chunks and sends them on the buffered channel     *)
(* Chunks; an error goes to the channel Err, of capacity one; deferred     *)
(* calls close Err, then Chunks, then the body.  A consumer, either        *)
(* Stream.Collect or the proxy's writeSSE, takes chunks with Stream.Recv   *)
(* until a terminal chunk, an error, the end of the stream or, for         *)
(* Collect, the cancellation of its context.                               *)
(*                                                                         *)
(* A channel operation is one step, so the goroutines interleave between   *)
(* any two of them.  A chunk is its type and, for a "done" chunk, the      *)
(* token count it carries; which text or tool call it holds is abstracted. *)
(***************************************************************************)
EXTENDS Naturals, Sequences

CONSTANTS
  Providers,  \* the producers to consider, a subset of AllProviders
  Consumers,  \* the consumers to consider, a subset of AllConsumers
  ChunkCap,   \* capacity of the Chunks channel (64 in every provider)
  MaxReads    \* bound: events the upstream sends before it ends

\* "ollama_tools" is Ollama with tools in the request: it withholds content.
AllProviders == {"openai", "responses", "anthropic", "gemini",
                 "ollama", "ollama_tools"}
AllConsumers == {"collect", "sse"}

ASSUME StreamAssumption ==
  /\ Providers \subseteq AllProviders
  /\ Consumers \subseteq AllConsumers
  /\ ChunkCap \in Nat \ {0}
  /\ MaxReads \in Nat

VARIABLES
  provider,      \* which ChatStream produces
  consumer,      \* who consumes
  ppc,           \* where the producer goroutine is
  pending,       \* chunks the current event still has to send
  finishing,     \* the current event also ends the answer: a done follows
  leaving,       \* the read loop is over
  withheld,      \* ollama_tools: content accumulated and not yet emitted
  reported,      \* token count of the latest usage the upstream reported
  finished,      \* history: how the upstream finished, see Finishes
  reads,         \* events read so far
  chunks,        \* contents of the Chunks channel
  chunksClosed,
  errPending,    \* the Err channel holds an error
  errClosed,
  errCause,      \* history: why the producer recorded an error, or "none"
  sent,          \* history: every chunk sent on Chunks
  counted,       \* the client's cumulative usage counter
  cpc,           \* where the consumer is
  got,           \* chunks the consumer has accumulated (and written)
  outcome,       \* how the consumer returned
  canceled,      \* the context of the request and of Collect is cancelled
  expired        \* the http.Client timeout has elapsed

producerVars == <<ppc, pending, finishing, leaving, withheld, reported,
                  finished, reads, errCause, sent, counted>>
consumerVars == <<cpc, got, outcome>>
chanVars     == <<chunks, chunksClosed, errPending, errClosed>>
fixedVars    == <<provider, consumer>>
ctxVars      == <<canceled, expired>>
vars == <<producerVars, consumerVars, chanVars, fixedVars, ctxVars>>

-----------------------------------------------------------------------------
(* Chunks and upstream events *)

ContentType == {"text", "tool_use_start", "tool_use_delta"}
Chunk       == [type : ContentType \cup {"done"}, usage : 0 .. MaxReads]
Content(t)  == [type |-> t, usage |-> 0]
Done(n)     == [type |-> "done", usage |-> n]
Text        == Content("text")
ToolStart   == Content("tool_use_start")
ToolDelta   == Content("tool_use_delta")

\* What one decoded event may carry: the chunks it is translated to, a usage
\* report, the end of the answer (a finish reason, message_stop,
\* response.completed or done:true, according to the provider).
Event == [parts : Seq(Chunk), usage : BOOLEAN, finish : BOOLEAN]

\* Completions and Gemini put all three in one event, in any combination.
MixedEvents(toolCall) ==
  [parts : {<<>>, <<Text>>, toolCall}, usage : BOOLEAN, finish : BOOLEAN]

ContentEvents ==
  [parts : {<<Text>>, <<ToolStart>>, <<ToolDelta>>},
   usage : {FALSE}, finish : {FALSE}]

UpstreamEvents(p) ==
  CASE p = "openai" -> MixedEvents(<<ToolStart, ToolDelta>>)
    [] p = "gemini" -> MixedEvents(<<Text, ToolStart>>)
    [] p = "anthropic" ->
         ContentEvents \cup [parts : {<<>>}, usage : {TRUE}, finish : {FALSE}]
                       \cup [parts : {<<>>}, usage : {FALSE}, finish : {TRUE}]
    [] p = "responses" ->
         ContentEvents \cup [parts : {<<>>}, usage : BOOLEAN, finish : {TRUE}]
    [] OTHER ->   \* Ollama reports usage in its done:true object
         [parts : {<<>>, <<Text>>}, usage : {FALSE}, finish : {FALSE}]
           \cup [parts : {<<>>, <<Text>>}, usage : {TRUE}, finish : {TRUE}]

\* An orderly upstream sends neither content nor a second finish after its
\* finish event, and only OpenAI sends its usage that late.  The producers
\* read on, whatever comes: an upstream that runs over its finish is remembered.
Late(ev) ==
  /\ finished # "no"
  /\ ev.parts # <<>> \/ ev.finish \/ (ev.usage /\ provider # "openai")

Finishes(ev) ==
  IF Late(ev) THEN "over" ELSE IF ev.finish THEN "yes" ELSE finished

-----------------------------------------------------------------------------
Init ==
  /\ provider \in Providers
  /\ consumer \in Consumers
  /\ ppc = "read" /\ pending = <<>> /\ finishing = FALSE /\ leaving = FALSE
  /\ withheld = FALSE /\ reported = 0 /\ finished = "no" /\ reads = 0
  /\ chunks = <<>> /\ chunksClosed = FALSE
  /\ errPending = FALSE /\ errClosed = FALSE /\ errCause = "none"
  /\ sent = <<>> /\ counted = 0
  /\ cpc = IF consumer = "collect" THEN "check" ELSE "recv"
  /\ got = <<>> /\ outcome = "none"
  /\ canceled = FALSE /\ expired = FALSE

-----------------------------------------------------------------------------
(* The producer goroutine *)

\* Whether the done chunk follows at once: the Responses producer keeps the
\* final response and sends its done chunk when the body ends.
DoneTwice(ev) == ev.finish   \* mutant: the Responses producer does not wait
DoneFollows(ev) == ev.finish /\ provider # "responses"

\* Where the goroutine goes when the current event has `left' chunks to send.
NextStage(left, fin, leave) ==
  IF left # <<>> THEN "send"
  ELSE IF fin THEN "finish"
  ELSE IF leave THEN "closeErr"
  ELSE "read"

\* The chunks Ollama emits at done:true when the request has tools: the
\* accumulated content as one tool call or one text, or nothing when it is
\* empty once the <think> blocks are stripped.
Released(accumulated) ==
  IF accumulated THEN {<<>>, <<Text>>, <<ToolStart>>} ELSE {<<>>}

\* The chunks sent for ev before its done chunk, if any.
Emitted(ev) ==
  IF provider # "ollama_tools" THEN {ev.parts}
  ELSE IF ev.finish THEN Released(withheld \/ ev.parts # <<>>)
  ELSE {<<>>}

\* The scanner yields an event that decodes.
ReadEvent ==
  /\ ppc = "read"
  /\ reads < MaxReads
  /\ \E ev \in UpstreamEvents(provider) :
       /\ finished' = Finishes(ev)
       /\ reported' = reported + (IF ev.usage THEN 1 ELSE 0)
       /\ withheld' = (provider = "ollama_tools"
                         /\ (withheld \/ ev.parts # <<>>))
       /\ finishing' = DoneFollows(ev)
       /\ leaving' = (ev.finish /\ provider \in {"ollama", "ollama_tools"})
       /\ pending' \in Emitted(ev)
       /\ ppc' = NextStage(pending', finishing', leaving')
  /\ reads' = reads + 1
  /\ UNCHANGED <<errCause, sent, counted, consumerVars, chanVars, fixedVars,
                 ctxVars>>

\* "[DONE]" ends the loop of the completions and Anthropic producers without
\* reading on to the end of the body; the Responses producer skips it.
ReadMarker ==
  /\ ppc = "read"
  /\ provider \in {"openai", "anthropic"}
  /\ ppc' = "closeErr"
  /\ leaving' = TRUE
  /\ UNCHANGED <<pending, finishing, withheld, reported, finished, reads,
                 errCause, sent, counted, consumerVars, chanVars, fixedVars,
                 ctxVars>>

\* The body ends.  The Responses producer now emits its done chunk.
ReadEOF ==
  /\ ppc = "read"
  /\ leaving' = TRUE
  /\ finishing' = (provider = "responses")
  /\ ppc' = NextStage(<<>>, finishing', leaving')
  /\ UNCHANGED <<pending, withheld, reported, finished, reads, errCause, sent,
                 counted, consumerVars, chanVars, fixedVars, ctxVars>>

\* The error goes into the empty Err channel and the goroutine returns.
RecordError(cause) ==
  /\ ppc = "read"
  /\ errPending' = TRUE
  /\ errCause' = cause
  /\ leaving' = TRUE
  /\ ppc' = "closeErr"
  /\ UNCHANGED <<pending, finishing, withheld, reported, finished, reads,
                 sent, counted, consumerVars, chunks, chunksClosed,
                 errClosed, fixedVars, ctxVars>>

\* An event that does not decode, response.failed, a connection that drops
\* or a body over the size limit.
ReadFailure == RecordError("upstream")

\* mutant: the request is sent without the caller's context
CancelUnheard == expired /\ RecordError("timeout")

\* net/http fails the body read once the request's context is cancelled or
\* the client's timeout, which covers the body, has elapsed.
ReadInterrupted ==
  \/ canceled /\ RecordError("canceled")
  \/ expired  /\ RecordError("timeout")

\* Whether the send of a chunk can proceed.
HasRoom == Len(chunks) < ChunkCap

\* chunks <- c.  It blocks while the channel is full, whatever the context.
SendChunk ==
  /\ ppc = "send"
  /\ HasRoom
  /\ chunks' = Append(chunks, Head(pending))
  /\ sent' = Append(sent, Head(pending))
  /\ pending' = Tail(pending)
  /\ ppc' = NextStage(pending', finishing, leaving)
  /\ UNCHANGED <<finishing, leaving, withheld, reported, finished, reads,
                 errCause, counted, consumerVars, chunksClosed, errPending,
                 errClosed, fixedVars, ctxVars>>

\* addUsage, under the client's mutex.
UsageDropped == UNCHANGED counted   \* mutant: the stream's usage is not added
AddUsage == counted' = counted + reported

\* The end of the answer: add its usage to the client's counter, then send
\* the done chunk that carries it.
Finish ==
  /\ ppc = "finish"
  /\ AddUsage
  /\ pending' = <<Done(reported)>>
  /\ finishing' = FALSE
  /\ ppc' = "send"
  /\ UNCHANGED <<leaving, withheld, reported, finished, reads, errCause, sent,
                 consumerVars, chanVars, fixedVars, ctxVars>>

\* The three deferred calls, last deferred first.
CloseErr ==
  /\ ppc = "closeErr"
  /\ errClosed' = TRUE
  /\ ppc' = "closeChunks"
  /\ UNCHANGED <<pending, finishing, leaving, withheld, reported, finished,
                 reads, errCause, sent, counted, consumerVars, chunks,
                 chunksClosed, errPending, fixedVars, ctxVars>>

\* mutant: the deferred close of Chunks is missing
ChunksLeftOpen ==
  /\ ppc = "closeChunks"
  /\ ppc' = "closeBody"
  /\ UNCHANGED <<pending, finishing, leaving, withheld, reported, finished,
                 reads, errCause, sent, counted, consumerVars, chanVars,
                 fixedVars, ctxVars>>

CloseChunks ==
  /\ ppc = "closeChunks"
  /\ chunksClosed' = TRUE
  /\ ppc' = "closeBody"
  /\ UNCHANGED <<pending, finishing, leaving, withheld, reported, finished,
                 reads, errCause, sent, counted, consumerVars, chunks,
                 errPending, errClosed, fixedVars, ctxVars>>

CloseBody ==
  /\ ppc = "closeBody"
  /\ ppc' = "gone"
  /\ UNCHANGED <<pending, finishing, leaving, withheld, reported, finished,
                 reads, errCause, sent, counted, consumerVars, chanVars,
                 fixedVars, ctxVars>>

Producer ==
  \/ ReadEvent \/ ReadMarker \/ ReadEOF \/ ReadFailure \/ ReadInterrupted
  \/ SendChunk \/ Finish
  \/ CloseErr \/ CloseChunks \/ CloseBody

-----------------------------------------------------------------------------
(* The consumer: the loop of Collect or writeSSE around Recv *)

Return(how) == outcome' = how /\ cpc' = "returned"

\* The consumer's loop body for a chunk Recv returned.  writeSSE also returns where
\* a chunk cannot be encoded (sse.go:136-140), which no producer here brings about:
\* only the raw Input of a call can fail to be JSON, and the chunks that start a
\* call have none, or one that was just encoded or decoded as JSON.
Accept(c) ==
  /\ got' = Append(got, c)
  /\ IF c.type = "done"
     THEN Return("done")
     ELSE /\ cpc' = IF consumer = "collect" THEN "check" ELSE "recv"
          /\ UNCHANGED outcome

\* mutant: Collect returns without draining
FailAtOnce == Return("error") /\ UNCHANGED got

\* The consumer's branch for an error Recv returned: Collect drains what is
\* still buffered, writeSSE writes its error event and returns.
Fail ==
  IF consumer = "collect"
  THEN cpc' = "drain" /\ UNCHANGED <<got, outcome>>
  ELSE Return("error") /\ UNCHANGED got

\* Collect looks at its context before each Recv.
CheckCtx ==
  /\ cpc = "check"
  /\ IF canceled THEN Return("ctx")
                 ELSE cpc' = "recv" /\ UNCHANGED outcome
  /\ UNCHANGED <<got, producerVars, chanVars, fixedVars, ctxVars>>

\* Recv's select takes a chunk ...
RecvChunk ==
  /\ cpc = "recv"
  /\ chunks # <<>>
  /\ chunks' = Tail(chunks)
  /\ Accept(Head(chunks))
  /\ UNCHANGED <<producerVars, chunksClosed, errPending, errClosed,
                 fixedVars, ctxVars>>

\* ... or finds Chunks closed and will look for an error ...
RecvChunksClosed ==
  /\ cpc = "recv"
  /\ chunks = <<>>
  /\ chunksClosed
  /\ cpc' = "lastErr"
  /\ UNCHANGED <<got, outcome, producerVars, chanVars, fixedVars, ctxVars>>

\* ... or takes an error ...
RecvError ==
  /\ cpc = "recv"
  /\ errPending
  /\ errPending' = FALSE
  /\ Fail
  /\ UNCHANGED <<producerVars, chunks, chunksClosed, errClosed, fixedVars,
                 ctxVars>>

\* ... or finds Err closed and will wait for a chunk alone.
RecvErrClosed ==
  /\ cpc = "recv"
  /\ ~errPending
  /\ errClosed
  /\ cpc' = "lastChunks"
  /\ UNCHANGED <<got, outcome, producerVars, chanVars, fixedVars, ctxVars>>

\* Chunks is closed: a buffered error still comes first.
EndOfChunks ==
  IF errPending
  THEN errPending' = FALSE /\ Fail
  ELSE Return("eof") /\ UNCHANGED <<got, errPending>>

\* The inner, non-blocking select on Err once Chunks is closed.
RecvLastErr ==
  /\ cpc = "lastErr"
  /\ EndOfChunks
  /\ UNCHANGED <<producerVars, chunks, chunksClosed, errClosed, fixedVars,
                 ctxVars>>

\* The blocking receive on Chunks once Err is closed.
RecvLastChunks ==
  /\ cpc = "lastChunks"
  /\ \/ /\ chunks # <<>>
        /\ chunks' = Tail(chunks)
        /\ Accept(Head(chunks))
     \/ /\ chunks = <<>>
        /\ chunksClosed
        /\ Return("eof")
        /\ UNCHANGED <<got, chunks>>
  /\ UNCHANGED <<producerVars, chunksClosed, errPending, errClosed,
                 fixedVars, ctxVars>>

\* Collect after an error: take buffered chunks without blocking.
Drain ==
  /\ cpc = "drain"
  /\ IF chunks # <<>>
     THEN /\ chunks' = Tail(chunks)
          /\ got' = Append(got, Head(chunks))
          /\ UNCHANGED <<cpc, outcome>>
     ELSE Return("error") /\ UNCHANGED <<chunks, got>>
  /\ UNCHANGED <<producerVars, chunksClosed, errPending, errClosed,
                 fixedVars, ctxVars>>

Consumer ==
  \/ CheckCtx
  \/ RecvChunk \/ RecvChunksClosed \/ RecvError \/ RecvErrClosed
  \/ RecvLastErr \/ RecvLastChunks
  \/ Drain

\* The caller cancels the context it gave to ChatStream and to Collect.
Cancel ==
  /\ ~canceled
  /\ canceled' = TRUE
  /\ UNCHANGED <<producerVars, consumerVars, chanVars, fixedVars, expired>>

\* mutant: the client is left without a timeout
NoTimeout == ~expired /\ UNCHANGED vars

\* The timeout httpclient.New always leaves on the client (resolveTimeout)
\* elapses before the body is closed.
TimeoutElapses ==
  /\ ~expired
  /\ ppc # "gone"
  /\ expired' = TRUE
  /\ UNCHANGED <<producerVars, consumerVars, chanVars, fixedVars, canceled>>

Next == Producer \/ Consumer \/ Cancel \/ TimeoutElapses

Spec == Init /\ [][Next]_vars

-----------------------------------------------------------------------------
(* Fairness.  Both goroutines are scheduled, and an interrupted body read   *)
(* returns.  Nothing else is assumed of the upstream, which may stall; what *)
(* ends a stalled stream is the client's timeout, or the caller.            *)

Scheduling ==
  /\ WF_vars(SendChunk \/ Finish \/ CloseErr \/ CloseChunks \/ CloseBody)
  /\ WF_vars(ReadInterrupted)
  /\ WF_vars(Consumer)

FairSpec == Spec /\ Scheduling

\* Without it, only cancellation is sure to end a stalled stream.
TimeoutRuns == WF_vars(TimeoutElapses)

-----------------------------------------------------------------------------
(* Properties *)

ProducerStage == {"read", "send", "finish", "closeErr", "closeChunks",
                  "closeBody", "gone"}
ConsumerStage == {"check", "recv", "lastErr", "lastChunks", "drain",
                  "returned"}
Outcome       == {"none", "done", "eof", "error", "ctx"}
ErrCause      == {"none", "upstream", "canceled", "timeout"}

\* Every variable holds a value of its type, and neither channel ever holds
\* more than its capacity: a producer blocks instead.
TypeOK ==
  /\ provider \in Providers
  /\ consumer \in Consumers
  /\ ppc \in ProducerStage
  /\ pending \in Seq(Chunk)
  /\ finishing \in BOOLEAN /\ leaving \in BOOLEAN
  /\ withheld \in BOOLEAN /\ finished \in {"no", "yes", "over"}
  /\ reported \in 0 .. reads /\ reads \in 0 .. MaxReads /\ counted \in Nat
  /\ chunks \in Seq(Chunk) /\ Len(chunks) <= ChunkCap
  /\ chunksClosed \in BOOLEAN
  /\ errPending \in BOOLEAN /\ errClosed \in BOOLEAN
  /\ errCause \in ErrCause
  /\ sent \in Seq(Chunk) /\ got \in Seq(Chunk)
  /\ cpc \in ConsumerStage
  /\ outcome \in Outcome
  /\ canceled \in BOOLEAN /\ expired \in BOOLEAN

\* Recv reports the end of the stream only when the producer recorded no
\* error, whichever of the two closed channels its select happens to see.
ErrorNotMasked == outcome = "eof" => errCause = "none"

\* A consumer that returned the end of the stream holds every chunk the
\* producer sent, and so does a Collect that returned the stream's error,
\* although the error may overtake buffered chunks (Collect's drain).
NothingLost ==
  /\ outcome = "eof" => got = sent
  /\ outcome = "error" /\ consumer = "collect" => got = sent

\* A consumer that holds the done chunk finds its tokens already counted by
\* client.Usage(): the producer adds them before it sends the chunk.
UsageBeforeDone ==
  \A i \in DOMAIN got : got[i].type = "done" => got[i].usage <= counted

\* Once a producer that met no error is gone, the client's counter holds the
\* tokens the upstream reported for the finished answer
\* (docs/streaming.md: "The client accumulates streaming token usage").
UsageAccounted ==
  ppc = "gone" /\ finished = "yes" /\ errCause = "none" => counted = reported

\* All but the completions producer account for what an upstream reports with
\* its finish at the latest (the usage event of completions comes later).
UsageWithFinish == provider # "openai" => UsageAccounted

\* The done chunk is the last chunk of a stream (stream.go: "ChunkDone is the
\* final chunk emitted by a stream"), unless the upstream sends more after its
\* finish or, for completions, finishes twice.
DoneIsFinal ==
  provider # "openai" /\ finished # "over" =>
    \A i \in DOMAIN sent : sent[i].type = "done" => i = Len(sent)

\* RequestTimeout does not end a stream whose events are arriving (types.go:
\* "the stream itself can run longer if the upstream keeps sending events").
TimeoutSparesStartedStream ==
  errCause = "timeout" => reads = 0

\* Every consumer returns: a stalled upstream is ended by the timeout, and no
\* order of closing the two channels leaves Recv blocked.
ConsumerReturns == TimeoutRuns => <>(outcome # "none")

\* Every producer closes both channels and the body, unless Collect gave up on
\* it because its context was cancelled, or the upstream sends more after its
\* finish, when the consumer has left with the done chunk.
ProducerLeaves ==
  TimeoutRuns => <>(ppc = "gone" \/ outcome = "ctx" \/ finished = "over")

\* Cancelling the context ends Collect and writeSSE although the upstream
\* stalls and no timeout elapses.
CancelReturns == canceled ~> outcome # "none"

\* Both channels are closed when the stream is over for its consumer
\* (docs/streaming.md: "Both channels are closed when the stream completes").
ChannelsClosed ==
  TimeoutRuns => (outcome # "none" ~> chunksClosed /\ errClosed)

-----------------------------------------------------------------------------
(* The inductive invariant behind ErrorNotMasked and NothingLost.           *)

Closing == {"closeErr", "closeChunks", "closeBody", "gone"}

\* The channel is first-in first-out and has a single receiver.
InOrder == sent = got \o chunks

\* How far the goroutine has unwound determines which channels are closed,
\* and nothing is sent once an error is recorded.
Unwinding ==
  /\ errClosed <=> (ppc \in {"closeChunks", "closeBody", "gone"})
  /\ chunksClosed <=> (ppc \in {"closeBody", "gone"})
  /\ ppc = "send" => pending # <<>>
  /\ errCause # "none" => ppc \in Closing
  /\ errPending => errCause # "none"

\* A recorded error is in the channel until the consumer takes it, and the
\* consumer that takes it returns it.
ErrorAccounted ==
  /\ errCause # "none" /\ ~errPending =>
       cpc = "drain" \/ (cpc = "returned" /\ outcome = "error")
  /\ cpc = "drain" => errCause # "none" /\ consumer = "collect"

\* What the consumer has learnt at each point of Recv.
Learnt ==
  /\ cpc = "lastErr" => chunksClosed /\ chunks = <<>>
  /\ cpc = "lastChunks" => errClosed /\ errCause = "none"
  /\ cpc = "returned" <=> outcome # "none"

\* What a terminal result means for the channels.
Settled ==
  /\ outcome = "eof" => chunksClosed /\ chunks = <<>> /\ errCause = "none"
  /\ outcome = "error" =>
       /\ errCause # "none"
       /\ consumer = "collect" => chunks = <<>>

\* The parts together; TypeOK first.
IInv == TypeOK /\ InOrder /\ Unwinding /\ ErrorAccounted /\ Learnt /\ Settled

-----------------------------------------------------------------------------
(* The inductive invariant behind UsageBeforeDone, UsageWithFinish and      *)
(* DoneIsFinal.                                                             *)

NoDone(s) == \A i \in DOMAIN s : s[i].type # "done"

\* The client has counted what the done chunks of s carry.
Covered(s) == \A i \in DOMAIN s : s[i].type = "done" => s[i].usage <= counted

\* What each stage of the goroutine says of the event it is busy with.
Stage ==
  /\ ppc # "send" => pending = <<>>
  /\ ppc = "read" => ~finishing /\ ~leaving
  /\ ppc = "finish" => finishing
  /\ ppc \in Closing => leaving /\ ~finishing
  /\ finishing => finished # "no" \/ leaving
  /\ provider = "responses" =>
       /\ finishing => leaving
       /\ finished = "no" => reported = 0

\* The done chunk is still to come, and will if the upstream has finished ...
BeforeDone ==
  /\ counted = 0 /\ NoDone(sent) /\ NoDone(pending)
  /\ finished = "yes" /\ errCause = "none" =>
       finishing \/ (provider = "responses" /\ ~leaving)

\* ... or it is the next chunk, or the last that was sent.
AfterDone ==
  /\ counted = reported /\ ~finishing
  /\ finished = "yes" \/ leaving
  /\ provider = "responses" => leaving
  /\ \/ pending = <<Done(reported)>> /\ NoDone(sent)
     \/ pending = <<>> /\ \A i \in DOMAIN sent : sent[i].type = "done" => i = Len(sent)

DoneInv ==
  /\ Covered(sent) /\ Covered(pending)
  /\ Stage
  /\ provider # "openai" /\ finished # "over" => BeforeDone \/ AfterDone

-----------------------------------------------------------------------------
(* Collect implements the contract of a stream: what the goroutines and the *)
(* two channels look like to the caller.                                    *)

Contract == INSTANCE StreamContract WITH
  DoneChunk <- {c \in Chunk : c.type = "done"},
  emitted   <- sent,
  status    <- IF errCause # "none" THEN "failed"
               ELSE IF errClosed THEN "ended" ELSE "open",
  delivered <- got,
  result    <- outcome,
  thorough  <- consumer = "collect"

\* Collect and writeSSE deliver the chunks in order and skip none, and return
\* once, with every chunk when they report the end of the stream; Collect has
\* every chunk when it reports its error, too.
ContractHonoured == Contract!Spec

=============================================================================
