# Verification of the pgEdge Go LLM library

TLA+ specifications of the library under `src/llm`, TLC configurations that
check them on small instances, and proofs, checked by TLAPS, of the theorems
that matter most. Every definition is translated from the source; the comments
of the modules name the functions they model, and `PROJECT.json` ("map") gives
the lines.

## 1. The system

The library is a client of several LLM providers behind one interface
(`llm.Client`: `Chat`, `ChatStream`, `Embed`, `Decide`, ...) and a proxy that
serves that interface over HTTP.

| Part | Source | State | Operations | Interacts with |
|---|---|---|---|---|
| Stream | `stream.go` | two channels (`Chunks`, `Err`) | `Recv`, the loop of `Collect` | reads what a producer sends; context |
| Streaming producers | `provider/*/…go`, the goroutine of each `ChatStream` | scanner over the body, last usage, withheld content | read an event, send chunks, record an error, close | channels, HTTP body, usage counter under a mutex |
| SSE bridge | `proxy/sse.go` | the partial response | `writeSSE` | second consumer of a stream |
| Content assembly | `stream.go` (`ThinkingAccumulator`, `Collect`), `proxy/sse.go` | open text, tool call and thinking, finished blocks | accumulate, flush | chunks of the producers |
| HTTP transport | `internal/httpclient/retry.go` | attempt, backoff, timer, attempt context | `RoundTrip`, `roundTripWithTimeout` | `net/http`, `OnRetry`, context |
| Hard cancellation | `internal/httpclient/hardcancel.go` | watchdog goroutines, captured connection | `withHardCancel`, `GotConn` hook, release | transport, connection pool |
| HTTP helpers | `internal/httpclient/httpclient.go` | none of their own | `DoJSON`, `DoSSERequest`, limits, headers, `SSEScanner` | all of the above |
| OpenAI adaptation | `provider/openai/adapt.go`, `extrabody.go` | `learned` under `learnedMu`; per call: `applied`, `omitEffort`, `stepped` | `sendWithAdjustments`, `classify`, `learn`, `reasoningEffort` | `buildChatRequest`, `buildResponsesRequest`, concurrent calls |
| Anthropic adaptation | `provider/anthropic/adapt.go` | four learned flags and sets under `mu`; per call: `applied` | `retryAfterRejection`, `omitForCall`, `confirmAdjustments` | `buildChatRequest`, concurrent calls |
| Gemini adaptation | `provider/gemini/adapt.go` | rejected thinking levels under `mu` | one resend without the level | `buildChatRequest`, concurrent calls |
| Message conversion | `convertMessages` of each provider, `buildResponsesInput`, `internal/toolresult` | names of the calls seen so far (Gemini) | convert a conversation to the provider's wire form | every chat; the caller, who appends the answers |
| Proxy pipeline | `proxy/handlers.go`, `proxy.go`, `types.go` | nothing that outlives a request | authorize, parse, transform, call, respond, report | a fresh client per request, the operator's hooks, the caller |
| Registry | `llm.go` | map of factories under a read-write lock | `Register…`, `New…` | provider packages at `init` |
| Decisions | `decision.go`, `*/decide.go` | the client's usage | `Validate`, `Decide`, conversion of the answers | clients |
| Embeddings and reranking | `ollama.go`, `voyage.go`, `openai.go`, `gemini.go` | the client's usage | `Embed`, `EmbedBatch`, `EmbedMultimodal`, `Rerank`, truncation retries | transport |
| Types, errors, redaction, vectors | `types.go`, `errors.go`, `redact.go`, `vec.go` | none | accessors and conversions | everything |

What is hard here: a stream is two goroutines and two channels with a context,
a timeout and an upstream that may stall; a retry starts while the timer and
the watchdog of the attempt before may still fire; a watchdog holds a
connection that a pool may have given to somebody else; a client that learns
from rejections is shared by concurrent calls that built their requests before
the lesson; a streamed answer is taken apart and put together again by code
that never sees the whole; a proxied request can fail after the status of a
success is on the wire; and limits (sends, retries, channel capacity) meet
their boundaries. `PROJECT.json` ("hazards") lists each at its line, with the
property that would catch it.

What makes each part correct:

* Stream: nothing that was sent is lost before the end is reported, an error is
  never reported as a mere end, everyone leaves.
* Content assembly: a streamed answer becomes the blocks that `Chat` returns for
  it, a broken one a beginning of them.
* Message conversion: an answer that is sent back says what the model said, its
  results follow it and are of its calls, and what was sent before is sent again
  unchanged.
* Calls that are answered at once: an embedding is of its text and a probability
  of its option, whatever order a service keeps, and the usage is what was spent.
* Transport: one connection at a time, nothing left behind by a call that has
  returned, the body handed to the caller stays readable, the retry budget is
  spent exactly and reported once per retry.
* Hard cancellation: a stuck write is freed, and no connection of another
  request is closed.
* Adaptation: a client learns only what is true of its model, a call gives up a
  parameter only for a cause, the bound on sends suffices (for Anthropic) or is
  reached only with as many things to give up (for OpenAI), and the client
  settles.
* Proxy: one answer for one request, the hooks told what the caller was told,
  no provider called for a refused request, no handler left behind.

## 2. Modules

| Module | Models |
|---|---|
| `Stream` | a producer, the two channels, `Recv` and the loop of `Collect`, `writeSSE`, context and request timeout |
| `StreamContract` | what `Collect` and `writeSSE` promise, with neither goroutines nor channels |
| `Assembly` | the content of one streamed answer, from the upstream's pieces to blocks, beside `Chat`'s |
| `Replay` | that answer as part of the next request: the caller's loop and the conversion of the messages by every provider; extends `Assembly` |
| `Decisions` | validation of a decision request and conversion of its answers, of OpenAI and TypeSafe |
| `Calls` | concurrent calls of one client that are answered at once: Gemini's chats, embeddings of four providers, reranking, decisions; extends `Decisions` |
| `Transport` | one `DoJSON` or `DoSSERequest` through `RetryTransport`, the watchdogs and the connection pool |
| `OpenAIAdapt`, `AnthropicAdapt` | calls of one client that build, send, learn and retry |
| `Proxy` | one request to the proxy, its hooks, its provider call and its caller |
| `AssemblyProofs`, `ReplayProofs`, `CallsProofs`, `TransportProofs`, `OpenAIProofs`, `AnthropicProofs` | theorems about the module that each is named for |
| `ServingProofs` | theorems about `Proxy` and `Stream` |
| `FoldLemmas` | theorems about the folds of the community modules, for any operator that is folded |
| `MCStream`, `MCTransport`, `MCOpenAI`, `MCAnthropic`, `MCCalls` | the instances that TLC checks (`Replay` and `Proxy` need none) |

How they fit together: a stream begins after the transport has returned headers;
a call of the adaptation is one whole trip through the transport; the proxy's
call is all of that in one action that begins and one that returns. `Stream`
shows that a consumer holds the first chunks that were sent, in order, and
`Assembly` starts from there: it folds a chunk as it is sent and lets the stream
break between any two. `Replay` starts from an assembled answer and ends with
the next request. `Stream` composes producer, channels and consumer and
implements `StreamContract`.

### Stream

`ppc` and `cpc` are the program counters of the producer goroutine and of the
consumer; `chunks` and `errPending` are the contents of the channels, and
`errClosed`, `chunksClosed` say which are closed. One action is one channel
operation or one read of the body, which is the grain at which Go interleaves
them: `ReadEvent`, `ReadMarker`, `ReadEOF`, `ReadFailure`, `ReadInterrupted`
(body), `SendChunk`, `Finish`, `CloseErr`, `CloseChunks`, `CloseBody` (the
deferred calls, in their order), `CheckCtx`, `RecvChunk`, `RecvChunksClosed`,
`RecvError`, `RecvErrClosed`, `EndOfChunks`, `RecvLastErr`, `RecvLastChunks`
(the select of `Recv` and what follows it), `Drain` (the drain of `Collect` on
an error). The producers of the providers differ in what an event carries, when
they add the usage and what they send at the end; `UpstreamEvents`,
`DoneFollows`, `NextStage`, `Emitted` say how. Chunks are their types and the
usage they report. `finished` tells the upstreams that send nothing after their
finish from those that do ("over"), which break what some properties say.

The contract has two readers: a thorough one (`Collect`, which drains what was
sent before an error) and one that reports an error at once (`writeSSE`).

### Assembly

An answer is a sequence of blocks of the kinds its provider knows; a string is
the sequence of the pieces it was put together from, so that two strings are
equal only if nothing was lost, mixed or repeated. `StartBlock`, `SendPiece`,
`Finish`, `CutOff` and `Fail` are what the upstream does; each translates to
chunks as that provider's `ChatStream` does (`StartChunk`, `DeltaChunk`,
`FinalChunk`) and folds them at once with `Accumulate`, the switch that
`Collect` and `writeSSE` share. `ParseChatResponse` is what `Chat` makes of the
same answer, with Ollama's `<think>` stripping and its tool calls in text. A block
of a type that the client does not read ("other") has deltas of a type of its own
or, in Anthropic's stream, of one that the client reads: `ChatStream` then emits
them like those of any block (`OtherDelta`), and the answer has `Strayed`.

### Replay

`Continue` is the one action: a caller has an opening (a question, media, an
earlier turn with a call, or its result alone), the answer as `Collect` or `Chat`
returned it, and the results of its calls in one of four forms, failed or not,
and sends the whole to some provider. Each provider's conversion is an operator
over a sequence of messages (`AnthropicMessages`, `GeminiContents`,
`OpenAIMessage`, `ResponsesItems`, `OllamaMessage`); a part on the wire is the
block with the fields cleared that the wire form has no place for. `GeminiContents`
threads `toolNames` through the blocks as the code does, because a result names
its function by what was remembered so far.

### Calls and Decisions

A load says what two callers ask of one client, and what its model takes. `pc` is
a call before it is built, with its request under way, and at its end; `sends` is
the history of requests and replies. `BuildChat` and `ChatAnswered` are the loop
that Gemini's `Chat` and `ChatStream` share: the level is read under the mutex
when the request is built, and the rejection recorded under it after the reply.
`TextEmbedded` and `TextFailed` are one `embedOnce` of Ollama each, with the
fraction to cut next (`CutSize` is `truncateAtWordBoundary`). The other calls are
sent once, and their reply is anything the service may say: entries in any order,
twice, missing, empty, or with an index that no text has (`Entries`), answers to
questions reordered, missing, repeated, unasked or with one thing wrong
(`DecisionReplies`). An embedding is the number of its text and a probability
names its question and option, so that a misplaced one is seen. A key of OpenAI's
probabilities may be null (`Null`), which is read as the first level's or as no
option's (`Read`).

### Transport

`pc` is the calling goroutine in `RoundTrip` and `DoJSON`; `phase` is the
attempt inside `net/http`; `watch[a]` and `outer` are the watchdog goroutines
of an attempt and of the call, with the connection each captured; `owner` is
the pool. A watchdog is a goroutine that starts ("starting"), parks in its select
at a time of its own (`WatchdogParks`), is committed to a branch as soon as one of
its channels closes ("firing", or "gone" when it is released), and acts later. One
that is released before it parks ("released") is *overtaken*: it leaves, or, with
its context done as well, chooses either branch, as a select does. So the race of
`GotConn` with a watchdog that has left, and those of a released watchdog with a
timer, a cancellation and the pool, are states of the model. Statuses are "ok",
"busy" (429) and "down" (retried 5xx); `EmptyOn` is the statuses whose responses have no body,
because `net/http` returns the connection of such a response to the pool at
once.

### OpenAIAdapt and AnthropicAdapt

What the client has learned is shared; the other variables are the locals of
one call each. Building a request takes several critical sections, each an
action, so that other calls learn in between. The API is a record that says
which parameters and which combinations it takes. It names one fault of the
request, any one; an OpenAI request may also be rejected for something nobody
can adjust, and names an effort in `param` or in the message alone. Extra body
fields of an OpenAI request may be refused themselves, and those that set the
effort, the tools or the model replace the library's: the API then judges any
request that they may make of it (`Wires`, `Judges`), while the client has noted
its own. `misled` records whether it has learned something false from one. An
Anthropic model takes a level always, never, or beside thinking alone. In
`OpenAIAdapt` the functions of `adapt.go` appear in the order in which
`sendWithAdjustments` runs them (`Classify`, `LearnEffort`, `Learn`,
`StepOrOmit`, `Adjust`). In `AnthropicAdapt` an adjustment may hold for one call
only (`cache_control` dropped here, temperature beside thinking, replayed
thinking blocks) and the marker is learned only by `confirmAdjustments`, when
the call that dropped it succeeds.

### Proxy

`pc` is the handler; the stages that a handler does not have are skipped.
`hooks` is the history of the hooks that ran with the status they were given and
whether a duration came with it; `header` and `body` are what is on the wire.
Any hook may panic, which ends the request unanswered (`net/http` closes the
connection). An error is written by `WriteError`, which runs `OnError` first. An
answer may be impossible to encode, in which case nothing of it was written, or
impossible to write, in which case its header was. `Disconnect` is the caller
leaving, which cancels the request's context. Health pings one provider after
another under five seconds each.

## 3. Runs

| Run | Shows |
|---|---|
| `stream_safety` | for every kind of producer and both consumers, every interleaving and whatever the upstream sends: the readers implement the contract, the usage is counted before the done chunk, with the finish, and the done chunk is the last; consumers return, producers leave, a cancellation is enough |
| `transport_safety` | two retries over two connections with a per-attempt timeout: a readable body, one connection, nothing left behind, the budget and the reports of it, no foreign close but by an overtaken watchdog; and liveness |
| `openai_adapts` | two concurrent calls and four sends against opposite models (`MCOpenAI`): nothing false is learned but from a replaced effort, nothing is given up without a cause, the nearest effort is sent, a call that runs out of sends (one does) has as many things to give up, the client settles |
| `anthropic_adapts` | two concurrent calls and six sends against two opposite endpoints (`MCAnthropic`), with adjustments that hold for one call: nothing is learned but what is refused, alone or for lack of thinking, nothing is given up without a cause or comes back, six sends suffice, the client settles |
| `replay_safety` | every answer of up to three blocks in up to two pieces from six producers is assembled as `Chat` returns it, unless it has strayed; every answer of up to two, sent back to each of five targets after every opening, says what was said, with results paired and the beginning stable |
| `calls_safety` | two calls of one client, for every kind of call of `Calls`: vectors and probabilities are of their texts and options, but for that of a null index; usage is what was spent, Gemini's levels are learned true and in two sends, Ollama's retries shrink and report the first error |
| `proxy_requests` | every endpoint, every set of configured hooks, two providers to ping |
| `stream_usage_lost` | violated: usage that OpenAI sends after its finish reason is dropped |
| `stream_timeout` | violated: the request timeout ends a stream that is under way |
| `stream_leak` | violated: a consumer that gave up leaves the producer blocked on a full channel |
| `transport_foreign` | violated: a 429 without a body lets the call's watchdog close a connection of another request |
| `replay_arguments` | violated: a streamed Anthropic call without arguments is sent back without its input |

The violated runs are the findings of `PROJECT.json`, with the sentences of the
documentation that they contradict.

Why the bounds are enough. A channel of two chunks and three upstream events
give a full channel, an error behind buffered chunks, and usage before, with and
after the finish; the code's 64 differs in numbers only, and the theorems hold
for any capacity. Two retries are the first number that has a retry that is
neither first nor last; two connections let every attempt take a fresh one or
the one of the attempt before, with another request on the other. A stale read
and a lesson in between take two calls. Three blocks are a call between two
blocks of any kind; the second piece tells an append from an overwrite.
The requests of `MCOpenAI` ask for levels that are refused with and without
neighbours; one has four things to give up on `Pro`, as many as there are sends,
and one replaces the effort beside a temperature. One of `MCAnthropic` has five to
give up, and two ask for a level that is taken beside thinking alone. Two texts
are a batch with an order, eight bytes are cut differently at each of the three
fractions with and without a space before, and the labels of the levels are the
indices of other levels.
Symmetry is not used: most runs check liveness too, where it is unsound.

Deadlock checking is off in all runs but one: a stream, a call, an answer and a request
end, and an adaptation whose callers stop calling is idle; `Calls` says so itself
(`Ended`), so its run checks for deadlock.

## 4. Fairness

* `Stream!FairSpec`: weak fairness of the goroutines' steps. Go's scheduler runs
  every runnable goroutine, and a channel operation that stays possible is
  eventually done. The upstream is under no fairness. What ends a stalled read
  is the request timeout, which the properties that need it assume themselves
  (`TimeoutRuns => ...`), or a cancellation (`CancelReturns` assumes no timeout).
* `Transport!PromptSpec`: weak fairness of the call, of `net/http` noticing that
  its context is done, and of each watchdog, which Go's scheduler runs like any
  goroutine, but at a time of its own. `StuckFreed` and `HeadersBounded` assume
  running timers (`TimersRun => ...`), `CancelEnds` does not; `StuckFreed` also
  assumes a per-attempt timeout and that no attempt's watchdog is overtaken
  (`NoneOvertaken`), without which the code does not free the connection.
* `OpenAIAdapt!FairSpec`, `AnthropicAdapt!FairSpec`: a call that has begun goes on
  (the API answers, or the transport fails the call, as checked in `Transport`);
  no caller has to call again.
* `Proxy!FairRequestSpec`: the handler runs, a cancelled call ends, a ping's
  timer fires. `RequestFinishes` assumes that the provider answers
  (`ProviderAnswers`), except for a health check; `AbandonedEnds` does not.

## 5. Proofs

All theorems hold for every value of the constants under the named assumption of
the module (`StreamAssumption`, `TransportAssumption`, ...).

* `ServingProofs`, on `Stream`: `IInv` adds to the types that what was sent is
  what was received followed by the channel (`InOrder`), where the unwinding
  producer is (`Unwinding`), where its error is (`ErrorAccounted`), and what the
  consumer has learnt (`Learnt`, `Settled`). Without the position of the error
  no step of `Recv` can be shown to report it. From it: `ErrorsSurface`,
  `ChunksComplete`.
* `ServingProofs`, theorem `ReadersImplementContract`: with `IInv`, initial
  states map to initial states of the contract and every step to a step or a
  stutter, for both readers.
* `ServingProofs`, theorems `UsageCountedFirst`, `UsageCountedAtFinish` and
  `DoneEndsStream`: `DoneInv` says where the goroutine is in the answer. Before
  its done chunk (`BeforeDone`) nothing is counted, and a finished answer has its
  end still to come; after it (`AfterDone`) the counter holds what was reported
  and the done chunk is the next or the last. `Stage` excludes that the loop reads
  on with an end pending. Completions are excepted, since their usage follows the
  finish, as is an upstream that runs over its finish.
* `FoldLemmas`: what `FoldLeft`, `FoldSet` and `SumFunctionOnSet` compute, step
  by step. They are one recursive function over sets in the community modules;
  the facts about it are proved by induction over the natural numbers (a set of
  them that has no least member is empty), for an operator that is a constant of
  the module. `AssemblyProofs` instantiates it with the merging of blocks,
  `ReplayProofs` with Gemini's conversion of a message, `CallsProofs` with
  addition. The same induction gives what `FlattenSeq` computes, at the head of
  `AssemblyProofs`. The module extends little, since each of its instances
  repeats what it extends.
* `AssemblyProofs`, theorems `StreamsAsAnswered`, `PartialsArePrefixes` and
  `OneBlockOpen`: `AInv` says that what the consumer has is what was sent
  (`Holds`: the blocks before the one that is arriving, merged, and the pieces
  of that one so far) and that its buffers are as the open block wants them
  (`Tidy`), as long as the answer has not strayed; of one that has it says what
  remains (`Loose`): one block open at most. The property speaks of the end of an answer only; it is inductive
  only with what is said of every beginning of one. That merging block after
  block gives the same as merging the whole is the fold's doing. Of Ollama's
  answers a consumer has one text that grows or, with tools, nothing before the
  end, which sends all at once.
* `ReplayProofs`, theorem `PrefixesStable`: `RInv` adds to `AInv` where the
  conversation came from (`Conversed`), from which its types follow. That what
  is sent only grows (`ConvertedGrows`) is shown for each provider: a conversion
  message by message grows because flattening does; Gemini's threads `toolNames`
  through the whole and grows because one more message is one more step of the
  fold.
* `ReplayProofs`, theorem `ResultsFollowCalls`: what is sent of a message is
  first brought to one form for all targets (`Told`): its calls and its results
  are those of its blocks, one by one, as the target gets a call (`CallTo`) and
  a result (`ResultTo`, given the names that are known). A conversation is then
  a concatenation (`ConvertedStep`), and the calls and results of the wire are
  those of the opening, then of the answer and of the reply (`Paired`). Gemini's
  results have the right name because the answer's calls with one ID are calls
  of one function and are remembered last (`GeminiRemembers`): a call's function
  goes with its ID except for Ollama with tools, whose answer has one call at most
  (`OwnCalls`). None of this depends on the arguments, so that it holds of answers
  that have strayed. That the results stand next to the calls is
  `ToolsFirst` for OpenAI, whatever the form of the reply, and `ResultsNext` for
  the others.
* `ReplayProofs`, theorem `AnswersSaidBack`: every way the property looks at a
  content is a concatenation of what is seen of its blocks (`SeenIsFlat`: the
  text, the calls, the results, the media). For each target it is shown that
  what is seen of the parts a message becomes is what is seen of the message
  (`Kept`, in `AllKeep` and `CallsKept`), whence of the whole conversation
  (`KeptOfAll`); this needs that the blocks are ones a caller sends and that the
  request is not refused (`CanSpeak`). What is seen of an answer is not changed
  by merging its texts (`Mergeable`), so that the turn a stream assembled is
  seen as the one that `Chat` returns (`SpokenSeen`, from `StreamedAsAnswered`,
  and so of answers that have not strayed; of the others the stream does not have
  what was said).
  For Anthropic, whose wire keeps the order of the blocks, merging and meaning
  commute (`MeantMerged`); that Gemini gets nothing empty is `GeminiWhole`.
* `TransportProofs`: `TInv` says where timers and watchdogs may wait (`Waiting`),
  when a connection and a body are held (`Holds`), when an attempt's context is
  released (`ContextReleased`), and what is spent (`Spent`). From it: cleaning
  up, one connection, the budget.
* `TransportProofs`, second part: `PoolInv` adds whose connection a watchdog that
  nobody has released may close (`CallGuarded`, `AttemptGuarded`, `BodyGuarded`),
  and that the connections of earlier attempts are closed or given up. It assumes
  that no response is without a body (`EmptyOn = {}`), which `transport_foreign`
  shows to be necessary. From it: `BodyStaysUsable`, which no overtaken watchdog
  can break while the call's context is live, and `WatchdogsSpareOthers`, which
  leaves overtaken watchdogs as the only ones that close a connection of another
  request.
* `OpenAIProofs`: `IInv` ties each part of a request, as it is built, to a cause
  in the model (`BuiltForCause`), the locals `omitEffort` and `stepped` to a
  cause (`OmittedForCause`), and a rejection to the request that was sent
  (`ComplaintOfSent`); a lesson is true only because of the last. All of this is said of requests that
  the client knows (`Known`): of one in which an extra field replaced the effort,
  the tools or the model nothing follows, and the history variable `misled` keeps
  what such a one taught apart. The lemmas on
  `NearestAccepted` cover every set of refused levels. From it: `LearnsTruth`,
  `AdjustsForCause`, `ReplacesByNearest`, and, of a client whose callers set no such
  fields, `LearnsTruthOfItsOwn`, without exception.
* `OpenAIProofs`, theorem `NoSendWasted`: `JInv` adds that the adjustments of a
  call are a set of one member fewer than its sends (`SendsCounted`), that each
  has a cause (`AppliedForCause`), and that an effort is given up at most twice,
  first for another and then for good (`EffortsCounted`). A call that ran out of
  sends then had as many things to give up as sends.
* `AnthropicProofs`: the same argument, with one more tie than `OpenAIProofs`: a marker dropped for
  one call has its cause in that call until the call succeeds (`MarkersCause`),
  so that confirming it teaches the truth. An adjustment is made at most once in
  a call (`AdjustmentsLast`), and of the six kinds two exclude each other, so at
  most five come before the last send: `SixSendsSuffice`.
* `CallsProofs`, theorem `LevelsAlwaysAdapt`: `LInv` says what a chat was sent
  with before (`SentBefore`: at most once, and then with a level that is
  rejected by now) and what it carries (`Carries`). A second rejection is
  impossible only because the level was recorded before the request was built
  anew. The steps of all other calls are shown to leave the chats alone
  (`OtherStepKept`).
* `CallsProofs`, theorems `EmbeddingsMatch`, `DecisionsMatch`,
  `UsageAlwaysCounted`: `CInv` says of each call that what it returns is of its
  request and what it owes a number (`CallInv`), and of all together that the
  usage is the sum. The number of an option is that of its key, unless the option is
  the first level of a score, whose key is also what a null is read as
  (`ToldFields`, `NullFields`). A step is one call's (`StepOf`) and adds to the usage what
  it adds to that call's debt (`Counts`). The callers are assumed to be finitely
  many and their requests to be well formed (`LoadsAssumption`).
* `CallsProofs`, theorem `TruncationAlwaysHonest`: `TInv` says of Ollama's sends
  that those of the texts before are settled and that those of the text on its
  way are the whole of it and then its pieces, shorter each time, since the
  first send of it.
* `ServingProofs`, on `Proxy`: `RequestInv` adds `Progress`, which says, from
  where the handler is, what was sent and whether a provider was called; an
  error written anywhere is then the only thing written. From it:
  `CallersGetOneAnswer`, `RefusedRequestsNotCalled`.
* `ServingProofs`, theorem `OutcomesTold`: `SInv` adds which hooks have run at
  each stage, with what status (`Telling`), and that they ran in their order
  (`OrderedUpTo`), from which the one report that the property counts is the
  only.

Only model-checked: the liveness properties (`ConsumerReturns`,
`ProducerLeaves`, `CancelReturns`, `StuckFreed`, `HeadersBounded`, `CancelEnds`,
`Settles`, `RequestFinishes`, `AbandonedEnds`), since fairness and ENABLED are
outside the prover. Every invariant and every action property of a passing run
is proved. The instance of `TransportProofs` with empty bodies is the finding
`transport_foreign`.

## 6. Observations

Met while modelling, beside the findings; none of them is a run.

* The first wait of a retry is `InitialBackoff` itself, uncapped (`retry.go:96`),
  although `types.go:502` calls `MaxBackoff` the cap of the wait; and seconds of a
  `Retry-After` header above 9.2e9 overflow the product (`retry.go:283`).
* A watchdog that reaches its select only after it was released and its context
  ended may choose either branch (`hardcancel.go:79-90`). Choosing the context, it
  closes a connection that is back in the pool or at another request; for the
  watchdog of an attempt it suffices that the caller closed the body, which cancels
  the attempt's context (`cancelBody`, `retry.go:269-273`). `NoForeignClose` excepts
  this (`OvertakenCloses`), and nothing else. Choosing the release, the watchdog of
  an attempt that timed out (`retry.go:223-224`) leaves a stuck connection open.
* Without a per-attempt timeout, the default, the only watchdog is that of `DoJSON`
  and follows the caller's context, not `http.Client.Timeout`
  (`httpclient.go:261`): a write that is stuck when the `RequestTimeout` elapses
  keeps its connection. `StuckFreed` is of calls with a per-attempt timeout.
* The body of the last failed response is closed before `RoundTrip` returns it
  (`retry.go:163`), so `DoJSON` finds no error message in it.
* `writeSSE` reports an error that overtook chunks without draining them, where
  `sse.go:58` says that it mirrors `Stream.Collect`; this is the `thorough` of the
  contract.
* A body that ends early without an error (no finish event, no `done: true`,
  `ollama.go:587`) is reported as a complete answer.
* A `tool_use_delta` does not name its call (`stream.go:246`); only the order that
  the upstream APIs keep makes the accumulator right.
* Anthropic's `ChatStream` looks at the type of a block when it starts, and at that
  of each delta by itself (`anthropic.go:723-755`). Of a block of a type that it
  does not read, such as `server_tool_use`, the text deltas become text of the
  answer and the argument deltas part of the open call or, with no call open, of
  the next one (`stream.go:213-220, 246`), where `Chat` drops the block.
  `StreamedAsAnswered`, `PartialIsPrefix` and `SaidBack` except such answers
  (`Strayed`); that one block is open at most holds of them too.
* Streamed by Ollama without tools, an answer keeps its `<think>` block, which
  `docs/providers.md:233-241` says is stripped "unconditionally"; `StreamedAsAnswered`,
  `PartialIsPrefix` and `SaidBack` except such answers (`KeepsThinking`).
* An assistant turn with thinking alone is sent to OpenAI as a message with null
  content, and an empty text to Anthropic as a block without its `text`.
* Calls of the same function in one answer of Gemini have one ID, so results are
  paired with them by their order alone.
* Ollama puts the text of a user's message ahead of the results in it.
* An entry that is missing from OpenAI's batch of embeddings is a nil vector and
  no error, where Voyage and Gemini fail; an index below 0 ends the program
  (`openai.go:918`).
* In OpenAI's score answers, a probability whose `value` is null is taken for
  that of the first level (`openai/decide.go:237-241`), although the comment above
  says that matching by index cannot misplace one. `AnswersMatch` excepts that
  probability of that level, and no other.
* Embeddings of Gemini and Voyage that cannot be used are not counted in the
  client's usage, although the tokens were spent; decisions are.
* Ollama's retries may send the same text twice, as two fractions may end at the
  same space; Voyage's reranking passes on any index.
* An error in encoding an answer is reported with a zero `ErrorInfo.Duration`
  (`handlers.go:226-233`), as is a failed listing of models, although
  `proxy.go:124-126` promises the duration of errors "during or after that call".
* When the caller has gone, `OnError` is given 500 although 200 was the header.
* A degraded health check answers 503 without `OnError`.
* The proxy builds a client for each request, so what the adaptation learns is
  forgotten with it, and a model that refuses a parameter is asked twice each
  time.
* Four sends are not always enough for OpenAI. On a model that takes one level
  only, through `/v1/responses` only, and no temperature beside it (`Pro` of
  `MCOpenAI`), a low effort with a temperature is refused four times (the endpoint,
  the temperature, the level, its neighbour) and would be accepted at the fifth
  send, while `adapt.go:27-31` and `361-366` say that the chain completes and that
  such a model gets a request it accepts within `maxSends`. `ExhaustedForCause`
  says when four sends can run out.
* An extra `reasoning_effort`, `tools` or `model` replaces the library's field after
  the library has noted what it sent (`openai.go:304-313`, `extrabody.go:72-92`).
  A temperature refused beside the extra effort is learned under the class of the
  library's own (`adapt.go:305`) and withheld from later calls that the model would
  take it from. `LearnedTrue` excepts a client that was misled so.
* Anthropic refuses some levels when thinking is disabled (`adapt.go:217-219`); the
  client remembers the level for all its requests (`adapt.go:224`). On a model that
  takes no adaptive thinking, the request that lost its thinking loses its level
  too, and a later one with extended thinking goes without it although the model
  would take it. `RefusedLevels` counts such a level as refused.
* Gemini's client takes any 400 that mentions thinking for a refused level
  (`gemini/adapt.go:82-84`); `ChatReplies` assumes that there is no other.

## 7. What is not modelled

Listed in `PROJECT.json` ("components") with the reason: floating-point vectors,
log redaction, the tool calls that Ollama's models write as text, the registry,
and plain data types. Within the modelled parts: the bytes of chunks and bodies,
HTTP/2 connections, the value of a `Retry-After` header, the checks of
`AnthropicAdapt` and `OpenAIAdapt` that fail a call before its first request, a
failure of `writeSSE` to marshal what it has assembled (`sse.go:136-140`), which
writes no event and cannot happen with content of this repository's producers, the
proxy's request IDs and routing by path, system prompts and cache markers in the
conversion of messages, listings of models and pings of the providers.

## 8. Plan

Done, in this order: `Stream` with its contract, `Transport`, `OpenAIAdapt`,
`AnthropicAdapt`, `Assembly`, `Proxy`, each with its first theorems; then `Replay`,
`Decisions` and `Calls`, with Gemini's adaptation, the embeddings and the
decisions that the first plan listed one by one.

1. Limited bodies and the SSE scanner.
2. The conversion of system prompts, cache markers and response formats.
