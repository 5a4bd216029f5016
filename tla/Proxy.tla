-------------------------------- MODULE Proxy --------------------------------
(***************************************************************************)
(* One request to the proxy (llm/proxy): a handler authorizes it, parses   *)
(* it, lets the operator's hooks see and rewrite it, builds a client for   *)
(* it, calls the provider, writes the response and reports the outcome to  *)
(* the hooks.  Meanwhile the caller may go away, which cancels the context *)
(* of the request, and any hook may panic, which net/http answers by       *)
(* closing the connection.  The handlers share nothing that changes, so    *)
(* one request is the whole system.                                        *)
(*                                                                         *)
(* A provider call is one action that begins and one that returns; how it  *)
(* gets there is the matter of Transport, Stream and the adaptation        *)
(* modules.  A body is the sequence of the things written to it.           *)
(***************************************************************************)
EXTENDS Naturals, Sequences

CONSTANTS
  Endpoints,  \* the endpoints to consider, a subset of AllEndpoints
  ProviderNames,  \* the configured providers
  None        \* no provider

AllEndpoints == {"providers", "models", "health", "chat", "chat_stream",
                 "embed", "embed_multimodal", "rerank"}
ChatEndpoints == {"chat", "chat_stream"}

Hooks == {"Authorize", "TransformRequest", "OnRequest", "OnResponse", "OnError"}

ASSUME ProxyAssumption ==
  Endpoints \subseteq AllEndpoints /\ None \notin ProviderNames

VARIABLES
  endpoint,    \* what is requested
  configured,  \* the hooks that the operator has configured
  pc,          \* where the handler is
  hooks,       \* history: the hooks that ran, with the status they were given
  header,      \* the status on the wire, 0 before it is sent
  body,        \* what has been written after it
  upstream,    \* the provider call: "none", "pending", "answered", ...
  broken,      \* the stream has ended with an error
  gone,        \* the caller has gone away
  left, pinged, down  \* health: to be pinged, being pinged, found down

requestVars == <<endpoint, configured, pc, hooks, header, body, upstream, broken, gone,
                 left, pinged, down>>
wire == <<header, body>>
health == <<left, pinged, down>>
fixed == <<endpoint, configured>>

Ended == pc \in {"done", "aborted"}

RequestInit ==
  /\ endpoint \in Endpoints
  /\ configured \in SUBSET Hooks
  /\ pc = "authorize" /\ hooks = <<>>
  /\ header = 0 /\ body = <<>>
  /\ upstream = "none" /\ broken = FALSE /\ gone = FALSE
  /\ left = ProviderNames /\ pinged = None /\ down = {}

-----------------------------------------------------------------------------
(* Hooks and errors *)

\* A hook that ran: the status in its argument, and whether a duration of the
\* provider call came with it.
Ran(hook, status, timed) == [hook |-> hook, status |-> status, timed |-> timed]

With(hs, ran) == IF ran.hook \in configured THEN Append(hs, ran) ELSE hs

\* The first status that is written is the one that is sent.
Sent(before, status) == IF before = 0 THEN status ELSE before

\* mutant: the handler does not return after an error
FallsThrough == "call"

AfterError == "done"

\* The response has the given header already (0 if none); OnError runs before
\* the error is written, and what it panics about is never written.
WriteError(hs, before, status, timed) ==
  /\ hooks' = With(hs, Ran("OnError", status, timed))
  /\ \/ /\ pc' = AfterError
        /\ header' = Sent(before, status) /\ body' = Append(body, "error")
     \/ /\ "OnError" \in configured /\ pc' = "aborted"
        /\ header' = before /\ body' = body
  /\ UNCHANGED <<fixed, upstream, broken, gone, health>>

\* Nothing has been written yet.
Refuse(hs, status) == WriteError(hs, 0, status, FALSE)

Proceed(stage) ==
  /\ pc' = stage
  /\ UNCHANGED <<fixed, wire, upstream, broken, gone, health>>

\* mutant: a stream counts as a success once it has begun
NeverFailed == 200

\* The status of a chat response: that of a broken stream says so, although 200
\* is on the wire.
ResponseStatus == IF broken THEN 502 ELSE 200

\* The hook that the handler runs at each stage, with its status.
HookOf ==
  CASE pc = "authorize" -> Ran("Authorize", 0, FALSE)
    [] pc = "transform" -> Ran("TransformRequest", 0, FALSE)
    [] pc = "notify"    -> Ran("OnRequest", 0, FALSE)
    [] pc = "report"    -> Ran("OnResponse", ResponseStatus, TRUE)
    [] pc = "reportError" -> Ran("OnError", 502, TRUE)
    [] OTHER            -> Ran("none", 0, FALSE)

HookPanics ==
  /\ HookOf.hook \in configured
  /\ hooks' = With(hooks, HookOf)
  /\ Proceed("aborted")

-----------------------------------------------------------------------------
(* From the arrival to the provider call *)

AfterAuthorize ==
  CASE endpoint = "providers" -> "respond"
    [] endpoint = "health"    -> "ping"
    [] OTHER                  -> "parse"

Authorize ==
  /\ pc = "authorize"
  /\ \/ hooks' = With(hooks, HookOf) /\ Proceed(AfterAuthorize)
     \/ /\ "Authorize" \in configured
        /\ \E status \in {401, 403} : Refuse(With(hooks, HookOf), status)

\* A body that is malformed or too large, a provider that is missing or not
\* configured, and empty input, are all refused.
ParseRequest ==
  /\ pc = "parse"
  /\ \/ /\ hooks' = hooks
        /\ Proceed(IF endpoint \in ChatEndpoints THEN "transform" ELSE "build")
     \/ Refuse(hooks, 400)

Transform ==
  /\ pc = "transform"
  /\ \/ hooks' = With(hooks, HookOf) /\ Proceed("notify")
     \/ /\ "TransformRequest" \in configured
        /\ \E status \in {400, 422} : Refuse(With(hooks, HookOf), status)

Notify ==
  /\ pc = "notify"
  /\ hooks' = With(hooks, HookOf)
  /\ Proceed("build")

NewClient ==
  /\ pc = "build"
  /\ \/ /\ hooks' = hooks
        /\ Proceed(IF endpoint = "embed_multimodal" THEN "images" ELSE "call")
     \/ Refuse(hooks, 500)

\* Images are decoded once the client exists.
DecodeImages ==
  /\ pc = "images"
  /\ \/ hooks' = hooks /\ Proceed("call")
     \/ Refuse(hooks, 400)

StartCall ==
  /\ pc = "call"
  /\ pc' = "wait" /\ upstream' = "pending"
  /\ UNCHANGED <<fixed, hooks, wire, broken, gone, health>>

-----------------------------------------------------------------------------
(* The provider and the caller *)

\* ErrNotSupported has a status of its own where a provider may lack the call.
Results ==
  {"answered", "failed"} \cup
  (IF endpoint \in {"embed", "embed_multimodal", "rerank"} THEN {"unsupported"} ELSE {})

UpstreamReturns ==
  /\ upstream = "pending"
  /\ upstream' \in Results
  /\ UNCHANGED <<fixed, pc, hooks, wire, broken, gone, health>>

\* The upstream ends the stream it has begun.
StreamEnds ==
  /\ upstream = "streaming"
  /\ upstream' = "ended" /\ broken' \in BOOLEAN
  /\ UNCHANGED <<fixed, pc, hooks, wire, gone, health>>

\* mutant: the provider is called with a context of its own
Detached == FALSE

RequestContext == TRUE

\* The context of a caller that has gone ends the call or the stream.
Interrupted ==
  /\ gone /\ RequestContext
  /\ \/ upstream = "pending" /\ upstream' = "failed" /\ UNCHANGED broken
     \/ upstream = "streaming" /\ upstream' = "ended" /\ broken' = TRUE
  /\ UNCHANGED <<fixed, pc, hooks, wire, gone, health>>

Disconnect ==
  /\ ~Ended /\ ~gone /\ gone' = TRUE
  /\ UNCHANGED <<fixed, pc, hooks, wire, upstream, broken, health>>

-----------------------------------------------------------------------------
(* The response *)

\* Listing models does not time its call.
CallFails ==
  /\ pc = "wait" /\ upstream \in {"failed", "unsupported"}
  /\ WriteError(hooks, header, IF upstream = "unsupported" THEN 501 ELSE 502,
                endpoint # "models")

CallAnswered ==
  /\ pc = "wait" /\ upstream = "answered" /\ endpoint # "chat_stream"
  /\ hooks' = hooks
  /\ Proceed("respond")

\* Only a chat answer may be impossible to encode: the arguments of a tool call
\* are what the model wrote.
Unencodable == endpoint = "chat"

\* mutant: an answer is sent before it is known to encode
HeaderFirst == 200

NoHeader == 0

WriteAnswer ==
  /\ header' = 200 /\ body' = Append(body, "answer")
  /\ pc' = IF endpoint = "chat" THEN "report" ELSE "done"
  /\ UNCHANGED <<fixed, hooks, upstream, broken, gone, health>>

\* An answer that cannot be encoded leaves nothing written; one that cannot be
\* written to a caller who has gone has had its header.
Respond ==
  /\ pc = "respond"
  /\ \/ WriteAnswer
     \/ Unencodable /\ WriteError(hooks, NoHeader, 500, FALSE)
     \/ gone /\ WriteError(hooks, 200, 500, FALSE)

StartStream ==
  /\ pc = "wait" /\ upstream = "answered" /\ endpoint = "chat_stream"
  /\ header' = 200 /\ upstream' = "streaming"
  /\ pc' = "stream"
  /\ UNCHANGED <<fixed, hooks, body, broken, gone, health>>

\* The stream's last event.  A chunk can always be encoded (Stream!Accept).
WriteSSE ==
  /\ pc = "stream" /\ upstream = "ended"
  /\ body' = Append(body, IF broken THEN "error_event" ELSE "done_event")
  /\ pc' = "report"
  /\ UNCHANGED <<fixed, hooks, header, upstream, broken, gone, health>>

\* Every chat answer is reported, however its stream ended.
Report ==
  /\ pc = "report"
  /\ hooks' = With(hooks, HookOf)
  /\ Proceed(IF broken THEN "reportError" ELSE "done")

ReportError ==
  /\ pc = "reportError"
  /\ hooks' = With(hooks, HookOf)
  /\ Proceed("done")

-----------------------------------------------------------------------------
(* Health *)

\* Providers are pinged one at a time, in the order of a map's iteration.  One
\* without a client is down.
StartPing ==
  /\ pc = "ping" /\ pinged = None
  /\ \E p \in left :
       /\ left' = left \ {p}
       /\ \/ pinged' = p /\ down' = down
          \/ pinged' = None /\ down' = down \cup {p}
  /\ UNCHANGED <<fixed, pc, hooks, wire, upstream, broken, gone>>

EndPing(found) ==
  /\ pinged # None
  /\ pinged' = None /\ down' = down \cup found
  /\ UNCHANGED <<fixed, pc, hooks, wire, upstream, broken, gone, left>>

PingReturns == EndPing({}) \/ EndPing({pinged})

\* mutant: a ping waits for as long as the provider does
NoDeadline == FALSE

\* Five seconds for each provider, or the caller's context.
Deadline == TRUE

PingExpires == Deadline /\ EndPing({pinged})

HealthResponds ==
  /\ pc = "ping" /\ pinged = None /\ left = {}
  /\ header' = IF down = {} THEN 200 ELSE 503
  /\ body' = Append(body, "answer")
  /\ pc' = "done"
  /\ UNCHANGED <<fixed, hooks, upstream, broken, gone, health>>

-----------------------------------------------------------------------------
Prepare == Authorize \/ ParseRequest \/ Transform \/ Notify \/ NewClient
           \/ DecodeImages \/ StartCall
Answer  == CallFails \/ CallAnswered \/ Respond \/ StartStream \/ WriteSSE
           \/ Report \/ ReportError
Health  == StartPing \/ HealthResponds

Handler == Prepare \/ Answer \/ Health \/ HookPanics

RequestNext == Handler \/ UpstreamReturns \/ StreamEnds \/ Interrupted \/ Disconnect
        \/ PingReturns \/ PingExpires

RequestSpec == RequestInit /\ [][RequestNext]_requestVars

\* The handler runs, a cancelled call ends and the timers of the pings fire; a
\* provider need not answer.
FairRequestSpec ==
  RequestSpec /\ WF_requestVars(Handler) /\ WF_requestVars(Interrupted) /\ WF_requestVars(PingExpires)

-----------------------------------------------------------------------------
(* Properties *)

Told == {"OnRequest", "OnResponse", "OnError"}

Stages == {"authorize", "parse", "transform", "notify", "build", "images", "call",
           "wait", "respond", "stream", "report", "reportError", "ping", "done", "aborted"}

Statuses == {200, 400, 401, 403, 422, 500, 501, 502}
Outputs == {"answer", "error", "done_event", "error_event"}

\* A hook that reports an outcome is given its status, the others have none.
Runs == [hook : {"Authorize", "TransformRequest", "OnRequest"}, status : {0}, timed : {FALSE}]
        \cup [hook : {"OnResponse", "OnError"}, status : Statuses, timed : BOOLEAN]

\* Every variable holds a value of its type.
RequestTypeOK ==
  /\ endpoint \in Endpoints /\ configured \subseteq Hooks
  /\ pc \in Stages
  /\ hooks \in Seq(Runs)
  /\ header \in {0, 503} \cup Statuses
  /\ body \in Seq(Outputs)
  /\ upstream \in {"none", "pending", "streaming", "ended"} \cup Results
  /\ broken \in BOOLEAN /\ gone \in BOOLEAN
  /\ left \subseteq ProviderNames /\ down \subseteq ProviderNames
  /\ pinged \in ProviderNames \cup {None}

\* The order in which the hooks run, each at most once.
Order == [Authorize |-> 1, TransformRequest |-> 2, OnRequest |-> 3, OnResponse |-> 4, OnError |-> 5]

HooksInOrder ==
  \A i, j \in 1 .. Len(hooks) : i < j => Order[hooks[i].hook] < Order[hooks[j].hook]

Reports == {hooks[i].hook : i \in 1 .. Len(hooks)} \cap Told

Failed == \E i \in 1 .. Len(body) : body[i] \in {"error", "error_event"}

\* The operator's telemetry is complete: no hook runs twice or after a later one; a
\* chat request that got as far as OnRequest is told of once more, as a response, as
\* an error, or as both when its stream broke; one that was refused is an error
\* alone; the other endpoints tell of errors alone.  A caller that is still there was
\* sent an error exactly when OnError ran, and the status a hook is given is the one
\* that was sent, or 502 in both hooks when the stream broke after its header
\* (handleChat, handleChatStream, writeError).
OutcomeTold ==
  /\ HooksInOrder
  /\ pc = "done" =>
       /\ Reports \in
            {names \cap configured : names \in
               IF endpoint \notin ChatEndpoints THEN {{}, {"OnError"}}
               ELSE {{"OnError"}, {"OnRequest", "OnError"}, {"OnRequest", "OnResponse"}}
                    \cup (IF broken THEN {Told} ELSE {})}
       /\ broken => Reports = Told \cap configured
       /\ ~gone /\ "OnError" \in configured => (Failed <=> "OnError" \in Reports)
       /\ ~gone =>
            \A i \in 1 .. Len(hooks) :
              hooks[i].hook \in {"OnResponse", "OnError"} =>
                hooks[i].status = IF broken THEN 502 ELSE header

\* A caller that is still there gets one answer or one error, under a status that
\* says which, although the answer is encoded after the call and an encoding may
\* fail (encodeJSON, writeError).
OneAnswer ==
  pc = "done" /\ ~gone =>
    /\ Len(body) = 1
    /\ body[1] = "error" <=> header \notin {200, 503}
    /\ body[1] \in {"done_event", "error_event"} <=> endpoint = "chat_stream" /\ header = 200

\* No provider is called, and so no token spent, for a request that was refused;
\* a duration is reported only of a call that was made (authorize, transform,
\* parseChatRequest; ErrorInfo.Duration).
RefusedNotCalled ==
  /\ header \in {400, 401, 403, 422} => upstream = "none"
  /\ upstream = "none" => \A i \in 1 .. Len(hooks) : ~hooks[i].timed

\* A request ends if its provider answers, and a health check even if none does
\* ("a hanging provider doesn't block the health check", handleHealth).
ProviderAnswers == WF_requestVars(UpstreamReturns) /\ WF_requestVars(StreamEnds)
RequestFinishes == ProviderAnswers \/ endpoint = "health" => <>Ended

\* The handler of a caller that has gone does not stay behind.
AbandonedEnds == gone ~> Ended

=============================================================================
