---------------------------- MODULE ServingProofs ----------------------------
(***************************************************************************)
(* Theorems about what is served: one request to the proxy (Proxy) and one *)
(* stream (Stream), which writeSSE reads for the proxy as Collect does for *)
(* a caller of the library.                                                *)
(*                                                                         *)
(* For every endpoint, every set of hooks and any number of providers, a   *)
(* caller who stays gets one answer under a status that says what it is, a *)
(* refused request reaches no provider, and the hooks are told what the    *)
(* caller was told, in order (SInv).                                       *)
(*                                                                         *)
(* For every set of providers and consumers, every capacity of the Chunks  *)
(* channel and every number of upstream events, a reader is told of the    *)
(* error or holds every chunk (IInv), the usage is counted before it is    *)
(* told of the end (DoneInv), and both readers implement StreamContract.   *)
(***************************************************************************)
EXTENDS Proxy, Stream, SequenceTheorems, TLAPS

-----------------------------------------------------------------------------
(* One request *)

Refusals == {400, 401, 403, 422}

Untimed(hs) == \A i \in 1 .. Len(hs) : ~hs[i].timed

BeforeCall == {"authorize", "parse", "transform", "notify", "build", "images", "call"}

\* What has been sent, and whether a provider was called, is known from where the
\* handler is.
Progress ==
  /\ pc \in BeforeCall => header = 0 /\ body = <<>> /\ upstream = "none"
  /\ pc = "wait" => header = 0 /\ body = <<>> /\ upstream # "none"
  /\ pc = "respond" => /\ header = 0 /\ body = <<>> /\ endpoint # "chat_stream"
                       /\ upstream = "none" => endpoint = "providers"
  /\ pc = "stream" => /\ header = 200 /\ body = <<>> /\ endpoint = "chat_stream"
                      /\ upstream # "none"
  /\ pc \in {"report", "reportError"} =>
       /\ header = 200 /\ upstream # "none" /\ Len(body) = 1
       /\ body[1] = "answer" <=> endpoint # "chat_stream"
       /\ body[1] # "error"
  /\ pc = "ping" => header = 0 /\ body = <<>> /\ endpoint = "health"

RequestInv == RequestTypeOK /\ Progress /\ OneAnswer /\ RefusedNotCalled

LEMMA RequestInvInit == RequestInit => RequestInv
<1> SUFFICES ASSUME RequestInit PROVE RequestInv
  OBVIOUS
<1>1. RequestTypeOK
  <2>1. hooks \in Seq(Runs) /\ body \in Seq(Outputs)
    BY DEF RequestInit
  <2>2. /\ endpoint \in Endpoints /\ configured \subseteq Hooks
        /\ pc = "authorize" /\ header = 0 /\ upstream = "none"
        /\ broken \in BOOLEAN /\ gone \in BOOLEAN
        /\ left \subseteq ProviderNames /\ down \subseteq ProviderNames /\ pinged = None
    BY DEF RequestInit
  <2>3. QED
    BY <2>1, <2>2 DEF RequestTypeOK, Stages
<1>2. Progress /\ OneAnswer /\ RefusedNotCalled
  BY DEF RequestInit, Progress, OneAnswer, RefusedNotCalled, BeforeCall
<1>3. QED
  BY <1>1, <1>2 DEF RequestInv

-----------------------------------------------------------------------------
(* Hooks and errors *)

\* Running a hook keeps the history well formed, and untimed if the hook is.
LEMMA WithKeeps ==
  ASSUME NEW hs \in Seq(Runs), NEW ran, ran \in Runs \/ ran.hook = "none",
         configured \subseteq Hooks
  PROVE  /\ With(hs, ran) \in Seq(Runs)
         /\ Untimed(hs) /\ ~ran.timed => Untimed(With(hs, ran))
<1>1. CASE ran.hook \in configured
  <2>1. ran \in Runs /\ With(hs, ran) = Append(hs, ran)
    BY <1>1 DEF With, Hooks
  <2>2. Append(hs, ran) \in Seq(Runs) /\ Len(Append(hs, ran)) = Len(hs) + 1
    BY <2>1
  <2>3. ASSUME Untimed(hs), ~ran.timed, NEW i \in 1 .. Len(hs) + 1
        PROVE  ~Append(hs, ran)[i].timed
    <3>1. CASE i = Len(hs) + 1
      BY <2>3, <3>1
    <3>2. CASE i \in 1 .. Len(hs)
      <4>1. Append(hs, ran)[i] = hs[i]
        BY <2>1, <3>2
      <4>2. QED
        BY <2>3, <3>2, <4>1 DEF Untimed
    <3>3. QED
      BY <3>1, <3>2
  <2>4. QED
    BY <2>1, <2>2, <2>3 DEF Untimed
<1>2. CASE ran.hook \notin configured
  BY <1>2 DEF With
<1>3. QED
  BY <1>1, <1>2

\* An error that is written before anything else, or after the header of an
\* answer to a caller who has gone, is the only thing that is written.
LEMMA WriteErrorKeeps ==
  ASSUME RequestInv, NEW hs \in Seq(Runs), NEW before \in {0, 200},
         NEW status \in Statuses \ {200}, NEW timed \in BOOLEAN,
         WriteError(hs, before, status, timed),
         body = <<>>, before = 200 => gone,
         upstream = "none" => Untimed(hs) /\ ~timed,
         status \in Refusals => upstream = "none"
  PROVE  RequestInv'
<1> DEFINE ran == Ran("OnError", status, timed)
<1>1. ran \in Runs /\ ran.timed = timed
  BY DEF Ran, Runs
<1>2. /\ hooks' = With(hs, ran)
      /\ hooks' \in Seq(Runs)
      /\ upstream = "none" => Untimed(hooks')
  <2>1. hooks' = With(hs, ran)
    BY DEF WriteError
  <2>2. configured \subseteq Hooks
    BY DEF RequestInv, RequestTypeOK
  <2>3. QED
    BY <1>1, <2>1, <2>2, WithKeeps
<1>3. /\ UNCHANGED <<fixed, upstream, broken, gone, health>>
      /\ \/ /\ pc' = "done" /\ header' = Sent(before, status)
            /\ body' = <<"error">>
         \/ pc' = "aborted" /\ header' = before /\ body' = <<>>
  BY DEF WriteError, AfterError
<1>4. Sent(before, status) \in {200, status} /\ (before = 0 => Sent(before, status) = status)
  BY DEF Sent
<1>5. RequestTypeOK'
  <2>1. body' \in Seq(Outputs) /\ hooks' \in Seq(Runs)
    <3>1. <<>> \in Seq(Outputs) /\ <<"error">> \in Seq(Outputs)
      BY DEF Outputs
    <3>2. QED
      BY <1>2, <1>3, <3>1
  <2>2. header' \in {0, 503} \cup Statuses
    BY <1>3, <1>4 DEF Statuses
  <2>3. QED
    BY <1>3, <2>1, <2>2 DEF RequestInv, RequestTypeOK, Stages, fixed, health, Results
<1>6. Progress'
  BY <1>3 DEF Progress, BeforeCall
<1>7. OneAnswer'
  <2>1. CASE pc' = "aborted"
    BY <2>1 DEF OneAnswer
  <2>2. CASE pc' = "done" /\ gone'
    BY <2>2 DEF OneAnswer
  <2>3. CASE pc' = "done" /\ ~gone'
    <3>1. header' = status /\ body' = <<"error">>
      BY <1>3, <1>4, <2>3
    <3>2. header' \notin {200, 503} /\ Len(body') = 1 /\ body'[1] = "error"
      BY <3>1 DEF Statuses
    <3>3. QED
      BY <3>2 DEF OneAnswer
  <2>4. QED
    BY <1>3, <2>1, <2>2, <2>3
<1>8. RefusedNotCalled'
  BY <1>2, <1>3, <1>4 DEF RefusedNotCalled, Refusals, Untimed
<1>9. QED
  BY <1>5, <1>6, <1>7, <1>8 DEF RequestInv

\* A request that is refused before its provider is called.
LEMMA RefuseKeeps ==
  ASSUME RequestInv, pc \in BeforeCall, NEW hs \in Seq(Runs), Untimed(hs),
         NEW status \in Statuses \ {200}, Refuse(hs, status)
  PROVE  RequestInv'
<1>1. body = <<>> /\ upstream = "none"
  BY DEF RequestInv, Progress
<1>2. WriteError(hs, 0, status, FALSE)
  BY DEF Refuse
<1>3. 0 \in {0, 200} /\ FALSE \in BOOLEAN /\ 0 # 200
  OBVIOUS
<1>4. QED
  BY <1>1, <1>2, <1>3, WriteErrorKeeps

\* The hook of each stage keeps the history well formed, and reports a duration
\* only once a provider was called.
LEMMA HookOfKeeps ==
  ASSUME RequestInv
  PROVE  /\ With(hooks, HookOf) \in Seq(Runs)
         /\ upstream = "none" => Untimed(With(hooks, HookOf))
         /\ pc \in BeforeCall => upstream = "none" /\ Untimed(hooks)
<1>1. hooks \in Seq(Runs) /\ configured \subseteq Hooks
  BY DEF RequestInv, RequestTypeOK
<1>2. upstream = "none" => Untimed(hooks)
  BY DEF RequestInv, RefusedNotCalled, Untimed
<1>3. HookOf \in Runs \/ HookOf.hook = "none"
  <2>1. ResponseStatus \in Statuses
    BY DEF ResponseStatus, Statuses
  <2>2. QED
    BY <2>1 DEF HookOf, Ran, Runs, Statuses
<1>4. upstream = "none" => ~HookOf.timed
  BY DEF RequestInv, Progress, HookOf, Ran
<1>5. pc \in BeforeCall => upstream = "none"
  BY DEF RequestInv, Progress
<1>6. QED
  BY <1>1, <1>2, <1>3, <1>4, <1>5, WithKeeps

\* Moving on without writing anything.
LEMMA ProceedKeeps ==
  ASSUME RequestInv, NEW stage \in Stages, Proceed(stage),
         hooks' \in Seq(Runs), upstream = "none" => Untimed(hooks'),
         Progress', OneAnswer'
  PROVE  RequestInv'
<1>1. RequestTypeOK'
  BY DEF RequestInv, RequestTypeOK, Proceed, fixed, wire, health, Results
<1>2. RefusedNotCalled'
  BY DEF RequestInv, RefusedNotCalled, Proceed, wire, Untimed
<1>3. QED
  BY <1>1, <1>2 DEF RequestInv

-----------------------------------------------------------------------------
(* From the arrival to the provider call *)

LEMMA HookPanicsKeeps == RequestInv /\ HookPanics => RequestInv'
<1> SUFFICES ASSUME RequestInv, HookPanics PROVE RequestInv'
  OBVIOUS
<1>1. Proceed("aborted") /\ hooks' = With(hooks, HookOf)
  BY DEF HookPanics
<1>2. Progress' /\ OneAnswer'
  BY <1>1 DEF Proceed, Progress, OneAnswer, BeforeCall
<1>3. "aborted" \in Stages
  BY DEF Stages
<1>4. QED
  BY <1>1, <1>2, <1>3, HookOfKeeps, ProceedKeeps

\* A stage before the call that goes on to another one, or to the answer of an
\* endpoint that calls no provider.
LEMMA PrepareKeeps ==
  ASSUME RequestInv, pc \in BeforeCall, NEW stage, Proceed(stage),
         \/ stage \in BeforeCall
         \/ stage = "ping" /\ endpoint = "health"
         \/ stage = "respond" /\ endpoint = "providers",
         hooks' \in {hooks, With(hooks, HookOf)}
  PROVE  RequestInv'
<1>1. Progress' /\ OneAnswer'
  BY DEF RequestInv, Progress, OneAnswer, Proceed, BeforeCall, wire, fixed
<1>2. stage \in Stages
  BY DEF Stages, BeforeCall
<1>3. hooks \in Seq(Runs)
  BY DEF RequestInv, RequestTypeOK
<1>4. hooks' \in Seq(Runs) /\ (upstream = "none" => Untimed(hooks'))
  BY <1>3, HookOfKeeps
<1>5. QED
  BY <1>1, <1>2, <1>4, ProceedKeeps

LEMMA AuthorizeKeeps == RequestInv /\ Authorize => RequestInv'
<1> SUFFICES ASSUME RequestInv, Authorize PROVE RequestInv'
  OBVIOUS
<1>1. pc \in BeforeCall
  BY DEF Authorize, BeforeCall
<1>2. CASE hooks' = With(hooks, HookOf) /\ Proceed(AfterAuthorize)
  <2>1. \/ AfterAuthorize \in BeforeCall
        \/ AfterAuthorize = "ping" /\ endpoint = "health"
        \/ AfterAuthorize = "respond" /\ endpoint = "providers"
    BY DEF AfterAuthorize, BeforeCall
  <2>2. QED
    BY <1>1, <1>2, <2>1, PrepareKeeps
<1>3. CASE \E status \in {401, 403} : Refuse(With(hooks, HookOf), status)
  <2>1. PICK status \in {401, 403} : Refuse(With(hooks, HookOf), status)
    BY <1>3
  <2>2. status \in Statuses \ {200}
    BY DEF Statuses
  <2>3. QED
    BY <1>1, <2>1, <2>2, HookOfKeeps, RefuseKeeps
<1>4. QED
  BY <1>2, <1>3 DEF Authorize

LEMMA TransformKeeps == RequestInv /\ Transform => RequestInv'
<1> SUFFICES ASSUME RequestInv, Transform PROVE RequestInv'
  OBVIOUS
<1>1. pc \in BeforeCall /\ "notify" \in BeforeCall
  BY DEF Transform, BeforeCall
<1>2. CASE hooks' = With(hooks, HookOf) /\ Proceed("notify")
  BY <1>1, <1>2, PrepareKeeps
<1>3. CASE \E status \in {400, 422} : Refuse(With(hooks, HookOf), status)
  <2>1. PICK status \in {400, 422} : Refuse(With(hooks, HookOf), status)
    BY <1>3
  <2>2. status \in Statuses \ {200}
    BY DEF Statuses
  <2>3. QED
    BY <1>1, <2>1, <2>2, HookOfKeeps, RefuseKeeps
<1>4. QED
  BY <1>2, <1>3 DEF Transform

LEMMA OtherPreparationsKeep ==
  RequestInv /\ (ParseRequest \/ Notify \/ NewClient \/ DecodeImages) => RequestInv'
<1> SUFFICES ASSUME RequestInv, ParseRequest \/ Notify \/ NewClient \/ DecodeImages
             PROVE  RequestInv'
  OBVIOUS
<1>1. pc \in BeforeCall
  BY DEF ParseRequest, Notify, NewClient, DecodeImages, BeforeCall
<1>2. \/ \E stage \in BeforeCall :
           hooks' \in {hooks, With(hooks, HookOf)} /\ Proceed(stage)
      \/ \E status \in {400, 500} : Refuse(hooks, status)
  BY DEF ParseRequest, Notify, NewClient, DecodeImages, BeforeCall
<1>3. CASE \E stage \in BeforeCall :
             hooks' \in {hooks, With(hooks, HookOf)} /\ Proceed(stage)
  BY <1>1, <1>3, PrepareKeeps
<1>4. CASE \E status \in {400, 500} : Refuse(hooks, status)
  <2>1. PICK status \in {400, 500} : Refuse(hooks, status)
    BY <1>4
  <2>2. status \in Statuses \ {200} /\ hooks \in Seq(Runs) /\ Untimed(hooks)
    BY <1>1, HookOfKeeps DEF Statuses, RequestInv, RequestTypeOK
  <2>3. QED
    BY <1>1, <2>1, <2>2, RefuseKeeps
<1>5. QED
  BY <1>2, <1>3, <1>4

LEMMA StartCallKeeps == RequestInv /\ StartCall => RequestInv'
<1> SUFFICES ASSUME RequestInv, StartCall PROVE RequestInv'
  OBVIOUS
<1>1. RequestTypeOK'
  BY DEF RequestInv, RequestTypeOK, Stages, StartCall, fixed, wire, health, Results
<1>2. Progress' /\ OneAnswer'
  BY DEF RequestInv, Progress, OneAnswer, StartCall, BeforeCall, wire, fixed
<1>3. RefusedNotCalled'
  BY DEF RequestInv, Progress, RefusedNotCalled, StartCall, BeforeCall, wire
<1>4. QED
  BY <1>1, <1>2, <1>3 DEF RequestInv

\* What changes neither the response, nor the hooks, nor whether a call was made,
\* keeps what is said of them.
LEMMA SameOutcome ==
  ASSUME OneAnswer, RefusedNotCalled, UNCHANGED <<endpoint, pc, hooks, header, body>>,
         upstream' = "none" <=> upstream = "none", gone => gone'
  PROVE  OneAnswer' /\ RefusedNotCalled'
<1>1. /\ endpoint' = endpoint /\ pc' = pc /\ hooks' = hooks
      /\ header' = header /\ body' = body
  OBVIOUS
<1>2. OneAnswer'
  <2>1. CASE gone'
    BY <2>1 DEF OneAnswer
  <2>2. CASE ~gone' /\ pc' = "done"
    <3>1. /\ Len(body) = 1
          /\ body[1] = "error" <=> header \notin {200, 503}
          /\ body[1] \in {"done_event", "error_event"} <=>
               endpoint = "chat_stream" /\ header = 200
      BY <1>1, <2>2, Zenon DEF OneAnswer
    <3>2. QED
      <4>1. /\ Len(body') = 1
            /\ body'[1] = "error" <=> header' \notin {200, 503}
            /\ body'[1] \in {"done_event", "error_event"} <=>
                 endpoint' = "chat_stream" /\ header' = 200
        <5>1. body'[1] = body[1] /\ Len(body') = Len(body)
          BY <1>1
        <5>2. QED
          BY <1>1, <3>1, <5>1
      <4>2. QED
        BY <4>1 DEF OneAnswer
  <2>3. QED
    BY <2>1, <2>2, Zenon DEF OneAnswer
<1>3. RefusedNotCalled'
  <2>1. /\ header \in {400, 401, 403, 422} => upstream = "none"
        /\ upstream = "none" => \A i \in 1 .. Len(hooks) : ~hooks[i].timed
    BY DEF RefusedNotCalled
  <2>2. header' \in {400, 401, 403, 422} => upstream' = "none"
    BY <1>1, <2>1
  <2>3. upstream' = "none" => \A i \in 1 .. Len(hooks') : ~hooks'[i].timed
    BY <1>1, <2>1
  <2>4. QED
    BY <2>2, <2>3 DEF RefusedNotCalled
<1>4. QED
  BY <1>2, <1>3

-----------------------------------------------------------------------------
(* The response *)

LEMMA CallFailsKeeps == RequestInv /\ CallFails => RequestInv'
<1> SUFFICES ASSUME RequestInv, CallFails PROVE RequestInv'
  OBVIOUS
<1> DEFINE status == IF upstream = "unsupported" THEN 501 ELSE 502
           timed == endpoint # "models"
<1>1. header = 0 /\ body = <<>> /\ upstream # "none"
  BY DEF RequestInv, Progress, CallFails
<1>2. WriteError(hooks, 0, status, timed)
  BY <1>1 DEF CallFails
<1>3. /\ hooks \in Seq(Runs) /\ status \in Statuses \ {200} /\ timed \in BOOLEAN
      /\ status \notin Refusals
  BY DEF RequestInv, RequestTypeOK, Statuses, Refusals
<1> HIDE DEF status, timed
<1>4. QED
  BY <1>1, <1>2, <1>3, WriteErrorKeeps

LEMMA CallAnsweredKeeps == RequestInv /\ CallAnswered => RequestInv'
<1> SUFFICES ASSUME RequestInv, CallAnswered PROVE RequestInv'
  OBVIOUS
<1>1. Proceed("respond") /\ hooks' = hooks /\ "respond" \in Stages
  BY DEF CallAnswered, Stages
<1>2. Progress' /\ OneAnswer'
  BY DEF RequestInv, Progress, OneAnswer, CallAnswered, Proceed, BeforeCall, wire, fixed
<1>3. hooks \in Seq(Runs) /\ (upstream = "none" => Untimed(hooks))
  BY DEF RequestInv, RequestTypeOK, RefusedNotCalled, Untimed
<1>4. QED
  BY <1>1, <1>2, <1>3, ProceedKeeps

LEMMA RespondKeeps == RequestInv /\ Respond => RequestInv'
<1> SUFFICES ASSUME RequestInv, Respond PROVE RequestInv'
  OBVIOUS
<1>1. /\ pc = "respond" /\ header = 0 /\ body = <<>> /\ endpoint # "chat_stream"
      /\ upstream = "none" => endpoint = "providers"
  BY DEF RequestInv, Progress, Respond
<1>2. /\ hooks \in Seq(Runs) /\ (upstream = "none" => Untimed(hooks))
      /\ 500 \in Statuses \ {200} /\ 500 \notin Refusals
  BY DEF RequestInv, RequestTypeOK, RefusedNotCalled, Untimed, Statuses, Refusals
<1>3. ASSUME NEW before \in {0, 200}, before = 200 => gone,
             WriteError(hooks, before, 500, FALSE)
      PROVE  RequestInv'
  <2> DEFINE timed == FALSE
  <2>1. timed \in BOOLEAN /\ ~timed /\ WriteError(hooks, before, 500, timed)
    BY <1>3
  <2> HIDE DEF timed
  <2>2. upstream = "none" => Untimed(hooks) /\ ~timed
    BY <1>2, <2>1
  <2>3. 500 \in Refusals => upstream = "none"
    BY <1>2
  <2>4. QED
    BY <1>1, <1>2, <1>3, <2>1, <2>2, <2>3, WriteErrorKeeps
<1>4. CASE \E before \in {0, 200} :
             (before = 200 => gone) /\ WriteError(hooks, before, 500, FALSE)
  <2>1. PICK before \in {0, 200} :
          (before = 200 => gone) /\ WriteError(hooks, before, 500, FALSE)
    BY <1>4
  <2>2. QED
    BY <1>3, <2>1
<1>5. CASE WriteAnswer
  <2>1. body' = <<"answer">> /\ <<"answer">> \in Seq(Outputs)
    BY <1>1, <1>5 DEF WriteAnswer, Outputs
  <2>2. RequestTypeOK'
    BY <1>5, <2>1 DEF WriteAnswer, RequestInv, RequestTypeOK, Stages, Statuses, fixed, health, Results
  <2>3. Progress'
    BY <1>1, <1>5, <2>1 DEF WriteAnswer, Progress, BeforeCall, fixed
  <2>4. OneAnswer'
    BY <1>1, <1>5, <2>1 DEF WriteAnswer, OneAnswer, fixed
  <2>5. RefusedNotCalled'
    BY <1>2, <1>5 DEF WriteAnswer, RefusedNotCalled, Untimed
  <2>6. QED
    BY <2>2, <2>3, <2>4, <2>5 DEF RequestInv
<1>6. NoHeader = 0
  BY DEF NoHeader
<1>7. \/ WriteAnswer
      \/ WriteError(hooks, 0, 500, FALSE)
      \/ gone /\ WriteError(hooks, 200, 500, FALSE)
  BY <1>6, Zenon DEF Respond
<1>8. 0 \in {0, 200} /\ 200 \in {0, 200} /\ 0 # 200
  OBVIOUS
<1>9. QED
  BY <1>4, <1>5, <1>7, <1>8, Zenon

LEMMA StartStreamKeeps == RequestInv /\ StartStream => RequestInv'
<1> SUFFICES ASSUME RequestInv, StartStream PROVE RequestInv'
  OBVIOUS
<1>1. RequestTypeOK'
  BY DEF RequestInv, RequestTypeOK, Stages, Statuses, StartStream, fixed, health, Results
<1>2. Progress' /\ OneAnswer'
  BY DEF RequestInv, Progress, OneAnswer, StartStream, BeforeCall, fixed
<1>3. RefusedNotCalled'
  BY DEF RefusedNotCalled, StartStream
<1>4. QED
  BY <1>1, <1>2, <1>3 DEF RequestInv

LEMMA WriteSSEKeeps == RequestInv /\ WriteSSE => RequestInv'
<1> SUFFICES ASSUME RequestInv, WriteSSE PROVE RequestInv'
  OBVIOUS
<1>1. body = <<>> /\ header = 200 /\ endpoint = "chat_stream" /\ upstream # "none"
  BY DEF RequestInv, Progress, WriteSSE
<1>2. body' = <<"done_event">> \/ body' = <<"error_event">>
  <2>1. CASE broken
    <3>1. body' = Append(body, "error_event")
      BY <2>1 DEF WriteSSE
    <3>2. QED
      BY <1>1, <3>1
  <2>2. CASE ~broken
    <3>1. body' = Append(body, "done_event")
      BY <2>2 DEF WriteSSE
    <3>2. QED
      BY <1>1, <3>1
  <2>3. QED
    BY <2>1, <2>2
<1>7. /\ body' \in Seq(Outputs) /\ Len(body') = 1
      /\ body'[1] = "done_event" \/ body'[1] = "error_event"
  <2>1. <<"done_event">> \in Seq(Outputs) /\ <<"error_event">> \in Seq(Outputs)
    BY DEF Outputs
  <2>2. CASE body' = <<"done_event">>
    BY <2>1, <2>2
  <2>3. CASE body' = <<"error_event">>
    BY <2>1, <2>3
  <2>4. QED
    BY <1>2, <2>2, <2>3
<1>3. RequestTypeOK'
  BY <1>7 DEF RequestInv, RequestTypeOK, Stages, WriteSSE, fixed, health, Results
<1>4. Progress' /\ OneAnswer'
  BY <1>1, <1>7 DEF Progress, OneAnswer, WriteSSE, BeforeCall, fixed
<1>5. RefusedNotCalled'
  <2>1. header' = 200 /\ upstream' # "none"
    BY <1>1 DEF WriteSSE
  <2>2. QED
    <3>1. header' \notin {400, 401, 403, 422}
      BY <2>1
    <3>2. QED
      BY <2>1, <3>1, Zenon DEF RefusedNotCalled
<1>6. QED
  BY <1>3, <1>4, <1>5 DEF RequestInv

LEMMA ReportsKeep == RequestInv /\ (Report \/ ReportError) => RequestInv'
<1> SUFFICES ASSUME RequestInv, Report \/ ReportError PROVE RequestInv'
  OBVIOUS
<1>1. PICK stage \in {"reportError", "done"} : Proceed(stage)
  BY DEF Report, ReportError
<1>2. /\ pc \in {"report", "reportError"} /\ stage \in Stages
      /\ hooks' = With(hooks, HookOf)
  BY DEF Report, ReportError, Stages
<1>3. /\ header = 200 /\ upstream # "none" /\ Len(body) = 1
      /\ body[1] = "answer" <=> endpoint # "chat_stream"
      /\ body[1] \in Outputs \ {"error"}
  BY <1>2 DEF RequestInv, Progress, RequestTypeOK
<1>4. Progress'
  BY <1>1, <1>3 DEF Progress, Proceed, BeforeCall, wire, fixed
<1>5. OneAnswer'
  BY <1>1, <1>3 DEF OneAnswer, Proceed, wire, fixed, Outputs
<1>6. QED
  BY <1>1, <1>2, <1>4, <1>5, HookOfKeeps, ProceedKeeps

-----------------------------------------------------------------------------
(* Health, the provider and the caller *)

LEMMA PingsKeep == RequestInv /\ (StartPing \/ PingReturns \/ PingExpires) => RequestInv'
<1> SUFFICES ASSUME RequestInv, StartPing \/ PingReturns \/ PingExpires PROVE RequestInv'
  OBVIOUS
<1>1. UNCHANGED <<fixed, pc, hooks, wire, upstream, broken, gone>>
  BY DEF StartPing, PingReturns, PingExpires, EndPing
<1>2. /\ left' \subseteq ProviderNames /\ down' \subseteq ProviderNames
      /\ pinged' \in ProviderNames \cup {None}
  BY DEF StartPing, PingReturns, PingExpires, EndPing, RequestInv, RequestTypeOK
<1>3. RequestTypeOK'
  BY <1>1, <1>2 DEF RequestInv, RequestTypeOK, fixed, wire, Results
<1>4. Progress'
  BY <1>1 DEF RequestInv, Progress, fixed, wire
<1>5. OneAnswer' /\ RefusedNotCalled'
  BY <1>1, SameOutcome DEF RequestInv, fixed, wire
<1>6. QED
  BY <1>3, <1>4, <1>5 DEF RequestInv

LEMMA HealthRespondsKeeps == RequestInv /\ HealthResponds => RequestInv'
<1> SUFFICES ASSUME RequestInv, HealthResponds PROVE RequestInv'
  OBVIOUS
<1>1. body = <<>> /\ endpoint = "health"
  BY DEF RequestInv, Progress, HealthResponds
<1>2. body' = <<"answer">> /\ <<"answer">> \in Seq(Outputs) /\ header' \in {200, 503}
  BY <1>1 DEF HealthResponds, Outputs
<1>3. RequestTypeOK'
  BY <1>2 DEF RequestInv, RequestTypeOK, Stages, Statuses, HealthResponds, fixed, health, Results
<1>4. Progress' /\ OneAnswer'
  BY <1>1, <1>2 DEF Progress, OneAnswer, HealthResponds, BeforeCall, fixed
<1>5. RefusedNotCalled'
  BY <1>2 DEF RequestInv, RefusedNotCalled, HealthResponds, Untimed
<1>6. QED
  BY <1>3, <1>4, <1>5 DEF RequestInv

\* What the provider and the caller do leaves the handler where it is, and no
\* call becomes one that was never made.
LEMMA OthersKeep ==
  RequestInv /\ (UpstreamReturns \/ StreamEnds \/ Interrupted \/ Disconnect) => RequestInv'
<1> SUFFICES ASSUME RequestInv, UpstreamReturns \/ StreamEnds \/ Interrupted \/ Disconnect
             PROVE  RequestInv'
  OBVIOUS
<1>1. /\ UNCHANGED <<fixed, pc, hooks, wire, health>>
      /\ upstream' = "none" <=> upstream = "none"
      /\ gone => gone'
  BY DEF UpstreamReturns, StreamEnds, Interrupted, Disconnect, Results
<1>2. /\ upstream' \in {"none", "pending", "streaming", "ended"} \cup Results
      /\ broken' \in BOOLEAN /\ gone' \in BOOLEAN
  BY DEF UpstreamReturns, StreamEnds, Interrupted, Disconnect, Results, RequestInv, RequestTypeOK
<1>3. RequestTypeOK'
  BY <1>1, <1>2 DEF RequestInv, RequestTypeOK, fixed, wire, health, Results
<1>4. Progress'
  BY <1>1 DEF RequestInv, Progress, fixed, wire
<1>5. OneAnswer' /\ RefusedNotCalled'
  BY <1>1, SameOutcome DEF RequestInv, fixed, wire
<1>6. QED
  BY <1>3, <1>4, <1>5 DEF RequestInv

-----------------------------------------------------------------------------
(* Theorems *)

LEMMA NextKeepsRequestInv == RequestInv /\ [RequestNext]_requestVars => RequestInv'
<1>1. ASSUME RequestInv, UNCHANGED requestVars PROVE RequestInv'
  <2>1. RequestTypeOK' /\ Progress'
    BY <1>1 DEF requestVars, RequestInv, RequestTypeOK, Progress, Results
  <2>2. OneAnswer' /\ RefusedNotCalled'
    BY <1>1, SameOutcome DEF requestVars, RequestInv
  <2>3. QED
    BY <2>1, <2>2 DEF RequestInv
<1>2. RequestInv /\ Prepare => RequestInv'
  BY AuthorizeKeeps, TransformKeeps, OtherPreparationsKeep, StartCallKeeps DEF Prepare
<1>3. RequestInv /\ Answer => RequestInv'
  BY CallFailsKeeps, CallAnsweredKeeps, RespondKeeps, StartStreamKeeps, WriteSSEKeeps,
     ReportsKeep DEF Answer
<1>4. RequestInv /\ Health => RequestInv'
  BY PingsKeep, HealthRespondsKeeps DEF Health
<1>5. QED
  BY <1>1, <1>2, <1>3, <1>4, HookPanicsKeeps, OthersKeep, PingsKeep DEF RequestNext, Handler

\* The inductive invariant holds in every reachable state.
THEOREM RequestInvariance == RequestSpec => []RequestInv
<1>1. QED
  BY RequestInvInit, NextKeepsRequestInv, PTL DEF RequestSpec

\* Every variable of a request keeps its type, and the hooks are given statuses
\* that the proxy sends.
THEOREM RequestTypes == RequestSpec => []RequestTypeOK
<1>1. RequestInv => RequestTypeOK
  BY DEF RequestInv
<1>2. QED
  BY <1>1, RequestInvariance, PTL

\* A caller who stays gets one answer or one error, under a status that says which
\* (the handlers of handlers.go, writeError).
THEOREM CallersGetOneAnswer == RequestSpec => []OneAnswer
<1>1. RequestInv => OneAnswer
  BY DEF RequestInv
<1>2. QED
  BY <1>1, RequestInvariance, PTL

\* A refused request reaches no provider, and no duration is reported of a call
\* that was never made (authorize, transform, the parsing in each handler).
THEOREM RefusedRequestsNotCalled == RequestSpec => []RefusedNotCalled
<1>1. RequestInv => RefusedNotCalled
  BY DEF RequestInv
<1>2. QED
  BY <1>1, RequestInvariance, PTL

-----------------------------------------------------------------------------
(***************************************************************************)
(* What the hooks are told.  The inductive invariant is SInv: the history  *)
(* is in order up to the place of the handler (LastPlace), what it tells   *)
(* of an outcome is known from where the handler is (Telling), and only    *)
(* the handler of a stream sees one break (Streams).                       *)
(***************************************************************************)

\* The entries of a history that tell of an outcome.
ToldIn(hs) == {hs[i] : i \in {k \in 1 .. Len(hs) : hs[k].hook \in Told}}

\* The hooks of hs ran in order, none of them after the given place.
OrderedUpTo(hs, last) ==
  /\ \A i \in 1 .. Len(hs) : Order[hs[i].hook] <= last
  /\ \A i, j \in 1 .. Len(hs) : i < j => Order[hs[i].hook] < Order[hs[j].hook]

\* The place, in the order of the hooks, of the last one that may have run.
LastPlace ==
  CASE pc = "authorize"               -> 0
    [] pc \in {"parse", "transform"}  -> 1
    [] pc = "notify"                  -> 2
    [] pc = "reportError"             -> 4
    [] pc \in {"done", "aborted"}     -> 5
    [] OTHER                          -> 3

If(ran) == IF ran.hook \in configured THEN {ran} ELSE {}

Noticed == IF endpoint \in ChatEndpoints THEN If(Ran("OnRequest", 0, FALSE)) ELSE {}

Early == {"authorize", "parse", "transform", "notify"}
LateSteps  == {"build", "images", "call", "wait", "respond", "stream", "report", "ping"}

\* How a request that is done ended: refused or failed, answered without a word,
\* reported, or reported as a stream that broke.
EndedInError ==
  \E status \in Statuses, timed \in BOOLEAN, before \in {{}, Noticed} :
    /\ ToldIn(hooks) = before \cup If(Ran("OnError", status, timed))
    /\ ~broken /\ body = <<"error">> /\ (gone \/ header = status)

EndedSilently ==
  ToldIn(hooks) = {} /\ endpoint \notin ChatEndpoints /\ ~broken /\ ~Failed

EndedReported ==
  /\ ToldIn(hooks) = Noticed \cup If(Ran("OnResponse", 200, TRUE))
  /\ endpoint \in ChatEndpoints /\ ~broken /\ ~Failed /\ header = 200

EndedBroken ==
  /\ ToldIn(hooks) = (Noticed \cup If(Ran("OnResponse", 502, TRUE))) \cup If(Ran("OnError", 502, TRUE))
  /\ endpoint \in ChatEndpoints /\ broken /\ Failed

Telling ==
  /\ pc \in Early => ToldIn(hooks) = {}
  /\ pc \in LateSteps => ToldIn(hooks) = Noticed
  /\ pc = "reportError" =>
       broken /\ ToldIn(hooks) = Noticed \cup If(Ran("OnResponse", 502, TRUE))
  /\ pc = "done" => EndedInError \/ EndedSilently \/ EndedReported \/ EndedBroken

Streams ==
  /\ broken => upstream = "ended"
  /\ upstream = "streaming" => pc \in {"stream", "aborted"}
  /\ upstream = "ended" => pc \in {"stream", "report", "reportError", "done", "aborted"}
  /\ pc \in {"transform", "notify", "stream", "report", "reportError"} => endpoint \in ChatEndpoints
  /\ pc \in {"report", "reportError"} => (Failed <=> broken)

SInv == Streams /\ Telling /\ OrderedUpTo(hooks, LastPlace)

LEMMA InitSInv == RequestInit => SInv
<1> SUFFICES ASSUME RequestInit PROVE SInv
  OBVIOUS
<1>1. pc = "authorize" /\ hooks = <<>> /\ ~broken /\ upstream = "none" /\ Len(hooks) = 0
  BY DEF RequestInit
<1>2. ToldIn(hooks) = {} /\ OrderedUpTo(hooks, LastPlace)
  BY <1>1 DEF ToldIn, OrderedUpTo
<1>3. QED
  BY <1>1, <1>2 DEF SInv, Streams, Telling, Early, LateSteps

LEMMA OrderOfHooks ==
  /\ \A h \in Hooks : Order[h] \in 1 .. 5
  /\ Order["Authorize"] = 1 /\ Order["TransformRequest"] = 2 /\ Order["OnRequest"] = 3
  /\ Order["OnResponse"] = 4 /\ Order["OnError"] = 5
  /\ \A r \in Runs : r.hook \in Hooks /\ Order[r.hook] \in 1 .. 5
<1>1. /\ Order["Authorize"] = 1 /\ Order["TransformRequest"] = 2 /\ Order["OnRequest"] = 3
      /\ Order["OnResponse"] = 4 /\ Order["OnError"] = 5
  BY DEF Order
<1>2. \A h \in Hooks : Order[h] \in 1 .. 5
  BY <1>1 DEF Hooks
<1>3. \A r \in Runs : r.hook \in Hooks
  BY DEF Runs, Hooks
<1>4. QED
  BY <1>1, <1>2, <1>3

\* A hook that runs in its place keeps the order and is all that is told anew.
LEMMA WithTells ==
  ASSUME NEW hs \in Seq(Runs), NEW ran \in Runs, NEW last \in 0 .. 4,
         OrderedUpTo(hs, last), last < Order[ran.hook]
  PROVE  /\ OrderedUpTo(With(hs, ran), Order[ran.hook])
         /\ ToldIn(With(hs, ran)) = ToldIn(hs) \cup (IF ran.hook \in Told THEN If(ran) ELSE {})
<1>1. \A r \in Runs : r.hook \in Hooks /\ Order[r.hook] \in 1 .. 5
  BY OrderOfHooks
<1>2. CASE ran.hook \notin configured
  <2>1. With(hs, ran) = hs
    BY <1>2 DEF With
  <2>2. \A i \in 1 .. Len(hs) : hs[i] \in Runs /\ Order[hs[i].hook] <= last
    BY DEF OrderedUpTo
  <2>3. \A i \in 1 .. Len(hs) : Order[hs[i].hook] <= Order[ran.hook]
    BY <1>1, <2>2
  <2>4. OrderedUpTo(With(hs, ran), Order[ran.hook])
    BY <2>1, <2>3 DEF OrderedUpTo
  <2>5. QED
    BY <1>2, <2>1, <2>4 DEF If
<1>3. CASE ran.hook \in configured
  <2> DEFINE t == Append(hs, ran)
             n == Len(hs)
  <2>1. With(hs, ran) = t /\ If(ran) = {ran}
    BY <1>3 DEF With, If
  <2>2. n \in Nat /\ Len(t) = n + 1 /\ t[n + 1] = ran /\ \A i \in 1 .. n : t[i] = hs[i] /\ hs[i] \in Runs
    OBVIOUS
  <2> HIDE DEF t, n
  <2>3. \A i \in 1 .. n : Order[hs[i].hook] <= last /\ Order[hs[i].hook] < Order[ran.hook]
    <3>1. \A i \in 1 .. n : Order[hs[i].hook] <= last
      BY DEF OrderedUpTo, n
    <3>2. ASSUME NEW i \in 1 .. n PROVE Order[hs[i].hook] < Order[ran.hook]
      <4> DEFINE before == Order[hs[i].hook]
                 now == Order[ran.hook]
      <4>1. before \in 1 .. 5 /\ now \in 1 .. 5
        BY <1>1, <2>2
      <4>2. before <= last
        BY <3>1
      <4> HIDE DEF before
      <4>3. before < now
        BY <4>1, <4>2
      <4>4. QED
        BY <4>3 DEF before
    <3>3. QED
      BY <3>1, <3>2
  <2>4. \A i \in 1 .. n + 1 : i = n + 1 \/ i \in 1 .. n
    BY <2>2
  <2>5. \A i \in 1 .. n + 1 : Order[t[i].hook] <= Order[ran.hook]
    <3>1. Order[ran.hook] <= Order[ran.hook]
      BY <1>1
    <3>2. ASSUME NEW i \in 1 .. n PROVE Order[hs[i].hook] <= Order[ran.hook]
      <4>1. Order[hs[i].hook] \in 1 .. 5 /\ Order[ran.hook] \in 1 .. 5
        BY <1>1, <2>2
      <4>2. Order[hs[i].hook] < Order[ran.hook]
        BY <2>3
      <4>3. QED
        BY <4>1, <4>2
    <3>3. QED
      BY <2>2, <2>4, <3>1, <3>2
  <2>6. ASSUME NEW i \in 1 .. n + 1, NEW j \in 1 .. n + 1, i < j
        PROVE  Order[t[i].hook] < Order[t[j].hook]
    <3>1. i \in 1 .. n
      BY <2>2, <2>6
    <3>2. CASE j = n + 1
      BY <2>2, <2>3, <3>1, <3>2
    <3>3. CASE j \in 1 .. n
      BY <2>2, <2>6, <3>1, <3>3 DEF OrderedUpTo, n
    <3>4. QED
      BY <2>4, <3>2, <3>3
  <2>7. OrderedUpTo(t, Order[ran.hook])
    BY <2>2, <2>5, <2>6 DEF OrderedUpTo
  <2>8. ToldIn(t) = ToldIn(hs) \cup (IF ran.hook \in Told THEN {ran} ELSE {})
    BY <2>2, <2>4 DEF ToldIn, n
  <2>9. QED
    BY <2>1, <2>7, <2>8
<1>4. QED
  BY <1>2, <1>3

LEMMA OrderedWeakens ==
  ASSUME NEW hs \in Seq(Runs), NEW a \in 0 .. 5, NEW b \in 0 .. 5, a <= b, OrderedUpTo(hs, a)
  PROVE  OrderedUpTo(hs, b)
<1>1. \A i \in 1 .. Len(hs) : hs[i] \in Runs /\ Order[hs[i].hook] \in 1 .. 5
  BY OrderOfHooks
<1>2. QED
  BY <1>1 DEF OrderedUpTo

LEMMA Places ==
  /\ LastPlace \in 0 .. 5
  /\ pc \in Early => LastPlace \in 0 .. 2
  /\ pc \in LateSteps => LastPlace = 3
  /\ pc \in {"done", "aborted"} => LastPlace = 5
  /\ pc = "reportError" => LastPlace = 4
  /\ pc = "authorize" => LastPlace = 0
  /\ pc \in {"parse", "transform"} => LastPlace = 1
  /\ pc = "notify" => LastPlace = 2
BY DEF LastPlace, Early, LateSteps

\* The hook of the stage runs in its place.
LEMMA HookTells ==
  ASSUME RequestInv, SInv, pc \in {"authorize", "transform", "notify", "report", "reportError"}
  PROVE  /\ With(hooks, HookOf) \in Seq(Runs)
         /\ OrderedUpTo(With(hooks, HookOf), Order[HookOf.hook])
         /\ ToldIn(With(hooks, HookOf)) =
              ToldIn(hooks) \cup (IF HookOf.hook \in Told THEN If(HookOf) ELSE {})
<1>1. hooks \in Seq(Runs) /\ OrderedUpTo(hooks, LastPlace)
  BY DEF RequestInv, RequestTypeOK, SInv
<1>2. HookOf \in Runs
  <2>1. ResponseStatus \in Statuses
    BY DEF ResponseStatus, Statuses
  <2>2. QED
    BY <2>1 DEF HookOf, Ran, Runs, Statuses
<1>3. LastPlace \in 0 .. 4 /\ LastPlace < Order[HookOf.hook]
  <2>1. CASE pc = "authorize"
    BY <2>1, Places, OrderOfHooks DEF HookOf, Ran
  <2>2. CASE pc = "transform"
    BY <2>2, Places, OrderOfHooks DEF HookOf, Ran
  <2>3. CASE pc = "notify"
    BY <2>3, Places, OrderOfHooks DEF HookOf, Ran
  <2>4. CASE pc = "report"
    BY <2>4, Places, OrderOfHooks DEF HookOf, Ran, LateSteps
  <2>5. CASE pc = "reportError"
    BY <2>5, Places, OrderOfHooks DEF HookOf, Ran
  <2>6. QED
    BY <2>1, <2>2, <2>3, <2>4, <2>5
<1>4. With(hooks, HookOf) \in Seq(Runs)
  BY HookOfKeeps
<1> HIDE DEF HookOf
<1>5. QED
  BY <1>1, <1>2, <1>3, <1>4, WithTells

LEMMA SameHooks ==
  ASSUME UNCHANGED fixed
  PROVE  Noticed' = Noticed /\ \A ran : If(ran)' = If(ran)
BY DEF fixed, Noticed, If, Ran

\* An error ends a request that has been told of once at most.
LEMMA WriteErrorTells ==
  ASSUME RequestInv, SInv, NEW hs \in Seq(Runs), NEW before \in {0, 200},
         NEW status \in Statuses, NEW timed \in BOOLEAN,
         WriteError(hs, before, status, timed), OrderedUpTo(hs, 4),
         ToldIn(hs) \in {{}, Noticed},
         body = <<>>, before = 200 => gone, upstream \notin {"streaming", "ended"}
  PROVE  SInv'
<1> DEFINE ran == Ran("OnError", status, timed)
<1>1. ran \in Runs /\ ran.hook = "OnError" /\ "OnError" \in Told
  BY DEF Ran, Runs, Told
<1>2. hooks' = With(hs, ran)
  BY DEF WriteError
<1>3. OrderedUpTo(hooks', 5) /\ ToldIn(hooks') = ToldIn(hs) \cup If(ran)
  <2>1. 4 < Order[ran.hook] /\ Order[ran.hook] = 5
    BY <1>1, OrderOfHooks
  <2> HIDE DEF ran
  <2>2. QED
    BY <1>1, <1>2, <2>1, WithTells
<1>4. ~broken /\ UNCHANGED <<fixed, upstream, broken, gone>>
  BY DEF WriteError, SInv, Streams
<1>5. Noticed' = Noticed /\ If(ran)' = If(ran)
  BY <1>4, SameHooks DEF If, fixed
<1>6. /\ pc' \in {"done", "aborted"}
      /\ pc' = "done" => body' = <<"error">> /\ header' = Sent(before, status)
  BY DEF WriteError, AfterError
<1>7. OrderedUpTo(hooks, LastPlace)'
  <2>1. LastPlace' = 5
    BY <1>6 DEF LastPlace
  <2>2. QED
    BY <1>3, <2>1 DEF OrderedUpTo
<1>8. Streams'
  BY <1>4, <1>6 DEF Streams
<1>9. Telling'
  <2>1. CASE pc' = "aborted"
    BY <2>1 DEF Telling, Early, LateSteps
  <2>2. CASE pc' = "done"
    <3>1. gone' \/ header' = status
      BY <1>4, <1>6, <2>2 DEF Sent
    <3>2. ToldIn(hooks)' = ToldIn(hs) \cup If(ran)'
      BY <1>3, <1>5 DEF ToldIn
    <3>3. ToldIn(hs) \in {{}, Noticed'} /\ ~broken' /\ body' = <<"error">>
      BY <1>4, <1>5, <1>6, <2>2
    <3>4. EndedInError'
      BY <3>1, <3>2, <3>3 DEF EndedInError
    <3>5. QED
      BY <2>2, <3>4 DEF Telling, Early, LateSteps
  <2>3. QED
    BY <1>6, <2>1, <2>2
<1>10. QED
  BY <1>7, <1>8, <1>9 DEF SInv

\* A request is refused before its provider is called.
LEMMA RefuseTells ==
  ASSUME RequestInv, SInv, pc \in BeforeCall, NEW hs \in Seq(Runs), NEW status \in Statuses,
         OrderedUpTo(hs, 4), ToldIn(hs) \in {{}, Noticed}, Refuse(hs, status)
  PROVE  SInv'
<1>1. body = <<>> /\ upstream = "none"
  BY DEF RequestInv, Progress
<1>2. WriteError(hs, 0, status, FALSE)
  BY DEF Refuse
<1>3. 0 \in {0, 200} /\ FALSE \in BOOLEAN /\ 0 # 200
  OBVIOUS
<1>4. QED
  BY <1>1, <1>2, <1>3, WriteErrorTells

\* Going on to a stage: what the hooks have been told by now is what the stage knows.
LEMMA ProceedTells ==
  ASSUME RequestInv, SInv, NEW stage, Proceed(stage), NEW last \in 0 .. 5,
         hooks' \in Seq(Runs), OrderedUpTo(hooks', last), last <= LastPlace', Streams', Telling'
  PROVE  SInv'
<1>1. LastPlace' \in 0 .. 5
  BY DEF LastPlace
<1>2. OrderedUpTo(hooks', LastPlace')
  BY <1>1, OrderedWeakens
<1>3. QED
  BY <1>2 DEF SInv, OrderedUpTo

LEMMA HookPanicsTells == RequestInv /\ SInv /\ HookPanics => SInv'
<1> SUFFICES ASSUME RequestInv, SInv, HookPanics PROVE SInv'
  OBVIOUS
<1>1. Proceed("aborted") /\ hooks' = With(hooks, HookOf)
  BY DEF HookPanics
<1>2. pc \in {"authorize", "transform", "notify", "report", "reportError"}
  <2>1. HookOf.hook # "none"
    BY DEF HookPanics, RequestInv, RequestTypeOK, Hooks
  <2>2. QED
    BY <2>1 DEF HookOf, Ran
<1>3. hooks' \in Seq(Runs) /\ OrderedUpTo(hooks', Order[HookOf.hook])
  BY <1>1, <1>2, HookTells
<1>4. Order[HookOf.hook] \in 0 .. 5
  BY <1>2, OrderOfHooks DEF HookOf, Ran
<1>5. pc' = "aborted" /\ LastPlace' = 5
  BY <1>1 DEF Proceed, LastPlace
<1>6. Streams'
  BY <1>1, <1>5 DEF SInv, Streams, Proceed
<1>7. Telling'
  BY <1>5 DEF Telling, Early, LateSteps
<1>8. QED
  BY <1>1, <1>3, <1>4, <1>5, <1>6, <1>7, ProceedTells

LEMMA AuthorizeTells == RequestInv /\ SInv /\ Authorize => SInv'
<1> SUFFICES ASSUME RequestInv, SInv, Authorize PROVE SInv'
  OBVIOUS
<1>1. pc = "authorize" /\ pc \in BeforeCall /\ HookOf.hook = "Authorize"
  BY DEF Authorize, BeforeCall, HookOf, Ran
<1>2. /\ With(hooks, HookOf) \in Seq(Runs) /\ OrderedUpTo(With(hooks, HookOf), 1)
      /\ ToldIn(With(hooks, HookOf)) = {}
  <2>1. ToldIn(hooks) = {}
    BY <1>1 DEF SInv, Telling, Early
  <2>2. "Authorize" \notin Told /\ Order["Authorize"] = 1
    BY OrderOfHooks DEF Told
  <2>3. QED
    BY <1>1, <2>1, <2>2, HookTells
<1>3. CASE hooks' = With(hooks, HookOf) /\ Proceed(AfterAuthorize)
  <2>1. /\ pc' = AfterAuthorize /\ pc' \in {"respond", "ping", "parse"}
        /\ pc' \in {"respond", "ping"} => endpoint' \notin ChatEndpoints
        /\ UNCHANGED <<endpoint, upstream, broken>>
    BY <1>3 DEF Proceed, AfterAuthorize, ChatEndpoints, fixed
  <2>2. 1 <= LastPlace'
    BY <2>1 DEF LastPlace
  <2>3. Streams'
    BY <1>1, <2>1 DEF SInv, Streams
  <2>4. Telling'
    <3>1. ToldIn(hooks)' = {}
      BY <1>2, <1>3 DEF ToldIn
    <3>2. QED
      BY <2>1, <3>1 DEF Telling, Early, LateSteps, Noticed
  <2>5. QED
    BY <1>2, <1>3, <2>2, <2>3, <2>4, ProceedTells
<1>4. CASE \E status \in {401, 403} : Refuse(With(hooks, HookOf), status)
  <2>1. PICK status \in {401, 403} : Refuse(With(hooks, HookOf), status)
    BY <1>4
  <2>2. status \in Statuses /\ OrderedUpTo(With(hooks, HookOf), 4)
    BY <1>2, OrderedWeakens DEF Statuses
  <2>3. QED
    BY <1>1, <1>2, <2>1, <2>2, RefuseTells
<1>5. QED
  BY <1>3, <1>4 DEF Authorize

LEMMA TransformTells == RequestInv /\ SInv /\ Transform => SInv'
<1> SUFFICES ASSUME RequestInv, SInv, Transform PROVE SInv'
  OBVIOUS
<1>1. pc = "transform" /\ pc \in BeforeCall /\ HookOf.hook = "TransformRequest"
  BY DEF Transform, BeforeCall, HookOf, Ran
<1>2. /\ With(hooks, HookOf) \in Seq(Runs) /\ OrderedUpTo(With(hooks, HookOf), 2)
      /\ ToldIn(With(hooks, HookOf)) = {}
  <2>1. ToldIn(hooks) = {}
    BY <1>1 DEF SInv, Telling, Early
  <2>2. "TransformRequest" \notin Told /\ Order["TransformRequest"] = 2
    BY OrderOfHooks DEF Told
  <2>3. QED
    BY <1>1, <2>1, <2>2, HookTells
<1>3. CASE hooks' = With(hooks, HookOf) /\ Proceed("notify")
  <2>1. pc' = "notify" /\ UNCHANGED <<endpoint, upstream, broken>>
    BY <1>3 DEF Proceed, fixed
  <2>2. 2 <= LastPlace'
    BY <2>1 DEF LastPlace
  <2>3. Streams'
    BY <1>1, <2>1 DEF SInv, Streams
  <2>4. Telling'
    <3>1. ToldIn(hooks)' = {}
      BY <1>2, <1>3 DEF ToldIn
    <3>2. QED
      BY <2>1, <3>1 DEF Telling, LateSteps
  <2>5. QED
    BY <1>2, <1>3, <2>2, <2>3, <2>4, ProceedTells
<1>4. CASE \E status \in {400, 422} : Refuse(With(hooks, HookOf), status)
  <2>1. PICK status \in {400, 422} : Refuse(With(hooks, HookOf), status)
    BY <1>4
  <2>2. status \in Statuses /\ OrderedUpTo(With(hooks, HookOf), 4)
    BY <1>2, OrderedWeakens DEF Statuses
  <2>3. QED
    BY <1>1, <1>2, <2>1, <2>2, RefuseTells
<1>5. QED
  BY <1>3, <1>4 DEF Transform

LEMMA NotifyTells == RequestInv /\ SInv /\ Notify => SInv'
<1> SUFFICES ASSUME RequestInv, SInv, Notify PROVE SInv'
  OBVIOUS
<1>1. pc = "notify" /\ HookOf = Ran("OnRequest", 0, FALSE) /\ HookOf.hook = "OnRequest"
      /\ hooks' = With(hooks, HookOf) /\ Proceed("build") /\ endpoint \in ChatEndpoints
  BY DEF Notify, HookOf, Ran, SInv, Streams
<1>2. hooks' \in Seq(Runs) /\ OrderedUpTo(hooks', 3) /\ ToldIn(hooks') = Noticed
  <2>1. ToldIn(hooks) = {}
    BY <1>1 DEF SInv, Telling, Early
  <2>2. "OnRequest" \in Told /\ Order["OnRequest"] = 3
    BY OrderOfHooks DEF Told
  <2>3. QED
    BY <1>1, <2>1, <2>2, HookTells DEF Noticed
<1>3. pc' = "build" /\ UNCHANGED <<endpoint, upstream, broken>> /\ Noticed' = Noticed
  BY <1>1, SameHooks DEF Proceed, fixed
<1>4. 3 <= LastPlace'
  BY <1>3 DEF LastPlace
<1>5. Streams'
  BY <1>1, <1>3 DEF SInv, Streams
<1>6. Telling'
  BY <1>2, <1>3 DEF Telling, Early, ToldIn
<1>7. Proceed("build") /\ 3 \in 0 .. 5
  BY <1>1
<1>8. QED
  BY <1>2, <1>4, <1>5, <1>6, <1>7, ProceedTells

\* A stage that runs no hook goes on to one that knows the same.
LEMMA QuietTells ==
  ASSUME RequestInv, SInv, NEW stage, Proceed(stage), hooks' = hooks,
         \/ pc \in Early /\ stage \in Early
         \/ pc \in Early /\ stage \in LateSteps /\ endpoint \notin ChatEndpoints
         \/ pc \in LateSteps /\ stage \in LateSteps,
         LastPlace <= LastPlace',
         stage \in {"transform", "notify", "stream", "report", "reportError"} =>
           endpoint \in ChatEndpoints,
         stage \notin {"report", "reportError"},
         upstream \notin {"streaming", "ended"}
  PROVE  SInv'
<1>1. /\ pc' = stage /\ UNCHANGED <<endpoint, upstream, broken>> /\ ~broken
      /\ Noticed' = Noticed /\ ToldIn(hooks)' = ToldIn(hooks)
  BY SameHooks DEF Proceed, fixed, SInv, Streams, ToldIn
<1>2. Streams'
  BY <1>1 DEF Streams
<1>3. Telling'
  BY <1>1 DEF SInv, Telling, Early, LateSteps, Noticed
<1>4. hooks' \in Seq(Runs) /\ OrderedUpTo(hooks', LastPlace) /\ LastPlace \in 0 .. 5
  BY Places DEF RequestInv, RequestTypeOK, SInv
<1>5. QED
  BY <1>2, <1>3, <1>4, ProceedTells

LEMMA OtherPreparationsTell ==
  RequestInv /\ SInv /\ (ParseRequest \/ NewClient \/ DecodeImages) => SInv'
<1> SUFFICES ASSUME RequestInv, SInv, ParseRequest \/ NewClient \/ DecodeImages
             PROVE  SInv'
  OBVIOUS
<1>1. pc \in BeforeCall /\ upstream = "none" /\ pc \in {"parse", "build", "images"}
  BY DEF ParseRequest, NewClient, DecodeImages, BeforeCall, RequestInv, Progress
<1>2. /\ hooks \in Seq(Runs) /\ OrderedUpTo(hooks, 4) /\ ToldIn(hooks) \in {{}, Noticed}
      /\ LastPlace \in 0 .. 3
  <2>1. LastPlace \in 0 .. 3
    BY <1>1, Places DEF Early, LateSteps
  <2>2. QED
    BY <1>1, <2>1, OrderedWeakens DEF RequestInv, RequestTypeOK, SInv, Telling, Early, LateSteps
<1>3. CASE \E status \in {400, 500} : Refuse(hooks, status)
  <2>1. PICK status \in {400, 500} : Refuse(hooks, status)
    BY <1>3
  <2>2. status \in Statuses
    BY DEF Statuses
  <2>3. QED
    BY <1>1, <1>2, <2>1, <2>2, RefuseTells
<1>4. CASE pc = "parse" /\ hooks' = hooks
           /\ Proceed(IF endpoint \in ChatEndpoints THEN "transform" ELSE "build")
  <2>1. CASE endpoint \in ChatEndpoints
    <3>1. LastPlace = 1 /\ LastPlace' = 1
      BY <1>4, <2>1 DEF Proceed, LastPlace
    <3>2. QED
      BY <1>1, <1>4, <2>1, <3>1, QuietTells DEF Early
  <2>2. CASE endpoint \notin ChatEndpoints
    <3>1. LastPlace = 1 /\ LastPlace' = 3
      BY <1>4, <2>2 DEF Proceed, LastPlace
    <3>2. QED
      BY <1>1, <1>4, <2>2, <3>1, QuietTells DEF Early, LateSteps
  <2>3. QED
    BY <2>1, <2>2
<1>5. CASE pc \in {"build", "images"} /\ hooks' = hooks
           /\ \E stage \in {"images", "call"} : Proceed(stage)
  <2>1. PICK stage \in {"images", "call"} : Proceed(stage)
    BY <1>5
  <2>2. LastPlace = 3 /\ LastPlace' = 3
    BY <1>5, <2>1 DEF Proceed, LastPlace
  <2>3. QED
    BY <1>1, <1>5, <2>1, <2>2, QuietTells DEF LateSteps
<1>6. QED
  BY <1>3, <1>4, <1>5 DEF ParseRequest, NewClient, DecodeImages

LEMMA StartCallTells == RequestInv /\ SInv /\ (StartCall \/ StartStream) => SInv'
<1> SUFFICES ASSUME RequestInv, SInv, StartCall \/ StartStream PROVE SInv'
  OBVIOUS
<1>1. /\ pc \in {"call", "wait"} /\ UNCHANGED <<fixed, hooks, broken>>
      /\ \/ pc' = "wait" /\ upstream' = "pending"
         \/ pc' = "stream" /\ upstream' = "streaming" /\ endpoint = "chat_stream"
      /\ upstream \notin {"streaming", "ended"}
  BY DEF StartCall, StartStream, SInv, Streams
<1>2. LastPlace = 3 /\ LastPlace' = 3
  BY <1>1 DEF LastPlace
<1>3. Streams'
  BY <1>1 DEF SInv, Streams, ChatEndpoints, fixed
<1>4. Telling'
  <2>1. Noticed' = Noticed /\ ToldIn(hooks)' = ToldIn(hooks) /\ pc' \in {"wait", "stream"}
    BY <1>1, SameHooks DEF ToldIn
  <2>2. QED
    BY <1>1, <2>1 DEF SInv, Telling, Early, LateSteps
<1>5. OrderedUpTo(hooks, LastPlace)'
  BY <1>1, <1>2 DEF SInv, OrderedUpTo
<1>6. QED
  BY <1>3, <1>4, <1>5 DEF SInv

\* Before the answer the hooks know of the request at most.
LEMMA WaitingTold ==
  ASSUME RequestInv, SInv, pc \in {"wait", "respond"}
  PROVE  /\ hooks \in Seq(Runs) /\ OrderedUpTo(hooks, 4) /\ ToldIn(hooks) = Noticed
         /\ body = <<>> /\ header = 0
<1>1. LastPlace = 3
  BY Places DEF LateSteps
<1>2. QED
  BY <1>1, OrderedWeakens DEF RequestInv, RequestTypeOK, Progress, SInv, Telling, LateSteps

LEMMA CallFailsTells == RequestInv /\ SInv /\ CallFails => SInv'
<1> SUFFICES ASSUME RequestInv, SInv, CallFails PROVE SInv'
  OBVIOUS
<1> DEFINE status == IF upstream = "unsupported" THEN 501 ELSE 502
           timed == endpoint # "models"
<1>1. pc = "wait" /\ WriteError(hooks, header, status, timed) /\ upstream \notin {"streaming", "ended"}
  BY DEF CallFails
<1>2. header \in {0, 200} /\ header # 200 /\ status \in Statuses /\ timed \in BOOLEAN
  BY <1>1, WaitingTold DEF Statuses
<1> HIDE DEF status, timed
<1>3. QED
  BY <1>1, <1>2, WaitingTold, WriteErrorTells

LEMMA CallAnsweredTells == RequestInv /\ SInv /\ CallAnswered => SInv'
<1> SUFFICES ASSUME RequestInv, SInv, CallAnswered PROVE SInv'
  OBVIOUS
<1>1. pc = "wait" /\ Proceed("respond") /\ hooks' = hooks /\ upstream \notin {"streaming", "ended"}
  BY DEF CallAnswered
<1>2. LastPlace <= LastPlace'
  BY <1>1 DEF LastPlace, Proceed
<1>3. QED
  BY <1>1, <1>2, QuietTells DEF LateSteps

LEMMA WriteAnswerTells ==
  ASSUME RequestInv, SInv, pc = "respond", WriteAnswer
  PROVE  SInv'
<1>1. /\ header = 0 /\ body = <<>> /\ endpoint # "chat_stream"
      /\ ToldIn(hooks) = Noticed /\ ~broken /\ upstream \notin {"streaming", "ended"}
  BY WaitingTold DEF RequestInv, Progress, SInv, Streams
<1>2. /\ header' = 200 /\ UNCHANGED <<fixed, hooks, upstream, broken, gone>>
      /\ pc' = (IF endpoint = "chat" THEN "report" ELSE "done")
  BY DEF WriteAnswer
<1>3. body' = <<"answer">> /\ ~Failed'
  <2>1. body' = <<"answer">>
    BY <1>1 DEF WriteAnswer
  <2>2. QED
    BY <2>1 DEF Failed
<1>4. Noticed' = Noticed /\ ToldIn(hooks)' = ToldIn(hooks) /\ endpoint' = endpoint
  BY <1>2, SameHooks DEF ToldIn, fixed
<1>5. Streams'
  BY <1>1, <1>2, <1>3, <1>4 DEF SInv, Streams, ChatEndpoints
<1>6. Telling'
  <2>1. CASE endpoint = "chat"
    BY <1>1, <1>2, <1>4, <2>1 DEF Telling, Early, LateSteps
  <2>2. CASE endpoint # "chat"
    <3>1. endpoint \notin ChatEndpoints /\ Noticed = {}
      BY <1>1, <2>2 DEF ChatEndpoints, Noticed
    <3>2. EndedSilently' /\ pc' = "done"
      BY <1>1, <1>2, <1>3, <1>4, <2>2, <3>1 DEF EndedSilently
    <3>3. QED
      BY <3>2 DEF Telling, Early, LateSteps
  <2>3. QED
    BY <2>1, <2>2
<1>7. OrderedUpTo(hooks, LastPlace)'
  <2>1. LastPlace = 3 /\ LastPlace' \in {3, 5}
    BY <1>2 DEF LastPlace
  <2>2. OrderedUpTo(hooks, LastPlace')
    BY <2>1, OrderedWeakens DEF RequestInv, RequestTypeOK, SInv
  <2>3. QED
    BY <1>2, <2>2 DEF OrderedUpTo
<1>8. QED
  BY <1>5, <1>6, <1>7 DEF SInv

LEMMA RespondTells == RequestInv /\ SInv /\ Respond => SInv'
<1> SUFFICES ASSUME RequestInv, SInv, Respond PROVE SInv'
  OBVIOUS
<1>1. pc = "respond" /\ upstream \notin {"streaming", "ended"}
  BY DEF Respond, SInv, Streams
<1>2. ASSUME NEW before \in {0, 200}, before = 200 => gone,
             WriteError(hooks, before, 500, FALSE)
      PROVE  SInv'
  <2> DEFINE timed == FALSE
             status == 500
  <2>1. status \in Statuses
    BY DEF Statuses
  <2>2. timed \in BOOLEAN /\ WriteError(hooks, before, status, timed)
    BY <1>2
  <2> HIDE DEF timed, status
  <2>3. QED
    BY <1>1, <1>2, <2>1, <2>2, WaitingTold, WriteErrorTells
<1>3. \/ WriteAnswer
      \/ WriteError(hooks, 0, 500, FALSE)
      \/ gone /\ WriteError(hooks, 200, 500, FALSE)
  BY Zenon DEF Respond, NoHeader
<1>4. 0 \in {0, 200} /\ 200 \in {0, 200} /\ 0 # 200
  OBVIOUS
<1>5. QED
  BY <1>1, <1>2, <1>3, <1>4, WriteAnswerTells, Zenon

LEMMA WriteSSETells == RequestInv /\ SInv /\ WriteSSE => SInv'
<1> SUFFICES ASSUME RequestInv, SInv, WriteSSE PROVE SInv'
  OBVIOUS
<1>1. /\ pc = "stream" /\ body = <<>> /\ upstream = "ended" /\ endpoint = "chat_stream"
      /\ broken \in BOOLEAN /\ ToldIn(hooks) = Noticed
  BY DEF WriteSSE, RequestInv, RequestTypeOK, Progress, SInv, Telling, LateSteps
<1>2. /\ UNCHANGED <<fixed, hooks, upstream, broken>> /\ pc' = "report"
      /\ endpoint' = endpoint
  BY DEF WriteSSE, fixed
<1>3. Failed' <=> broken
  <2>1. CASE broken
    <3>1. body' = <<"error_event">>
      BY <1>1, <2>1 DEF WriteSSE
    <3>2. QED
      BY <2>1, <3>1 DEF Failed
  <2>2. CASE ~broken
    <3>1. body' = <<"done_event">>
      BY <1>1, <2>2 DEF WriteSSE
    <3>2. QED
      BY <2>2, <3>1 DEF Failed
  <2>3. QED
    BY <2>1, <2>2
<1>4. Streams'
  BY <1>1, <1>2, <1>3 DEF Streams, ChatEndpoints
<1>5. Telling'
  <2>1. Noticed' = Noticed /\ ToldIn(hooks)' = ToldIn(hooks)
    BY <1>2, SameHooks DEF ToldIn
  <2>2. QED
    BY <1>1, <1>2, <2>1 DEF Telling, Early
<1>6. OrderedUpTo(hooks, LastPlace)'
  <2>1. LastPlace = 3 /\ LastPlace' = 3
    BY <1>1, <1>2 DEF LastPlace
  <2>2. QED
    BY <1>2, <2>1 DEF SInv, OrderedUpTo
<1>7. QED
  BY <1>4, <1>5, <1>6 DEF SInv

LEMMA ReportTells == RequestInv /\ SInv /\ Report => SInv'
<1> SUFFICES ASSUME RequestInv, SInv, Report PROVE SInv'
  OBVIOUS
<1>1. /\ pc = "report" /\ HookOf = Ran("OnResponse", ResponseStatus, TRUE)
      /\ hooks' = With(hooks, HookOf) /\ broken \in BOOLEAN
      /\ endpoint \in ChatEndpoints /\ (Failed <=> broken) /\ header = 200
      /\ ToldIn(hooks) = Noticed
  BY DEF Report, HookOf, RequestInv, RequestTypeOK, Progress, SInv, Streams, Telling, LateSteps
<1>2. /\ hooks' \in Seq(Runs) /\ OrderedUpTo(hooks', 4)
      /\ ToldIn(hooks') = Noticed \cup If(Ran("OnResponse", ResponseStatus, TRUE))
  <2>1. HookOf.hook = "OnResponse" /\ "OnResponse" \in Told /\ Order["OnResponse"] = 4
    BY <1>1, OrderOfHooks DEF Ran, Told
  <2> HIDE DEF HookOf
  <2>2. QED
    BY <1>1, <2>1, HookTells
<1>3. /\ UNCHANGED <<fixed, header, body, upstream, broken>>
      /\ endpoint' = endpoint /\ Failed' = Failed
      /\ Noticed' = Noticed /\ \A ran : If(ran)' = If(ran)
  <2>1. UNCHANGED <<fixed, header, body, upstream, broken>>
    BY DEF Report, Proceed, wire
  <2>2. QED
    BY <2>1, SameHooks DEF fixed, Failed
<1>4. CASE broken
  <2>1. Proceed("reportError") /\ pc' = "reportError" /\ LastPlace' = 4 /\ ResponseStatus = 502
    BY <1>4 DEF Report, Proceed, LastPlace, ResponseStatus
  <2>2. Streams'
    BY <1>1, <1>3, <1>4, <2>1 DEF SInv, Streams
  <2>3. If(Ran("OnResponse", 502, TRUE))' = If(Ran("OnResponse", 502, TRUE))
    BY <1>3 DEF If, Ran, fixed
  <2>4. Telling'
    BY <1>2, <1>3, <1>4, <2>1, <2>3 DEF Telling, Early, LateSteps, ToldIn
  <2>5. 4 <= LastPlace' /\ 4 \in 0 .. 5
    BY <2>1
  <2>6. QED
    BY <1>2, <2>1, <2>2, <2>4, <2>5, ProceedTells
<1>5. CASE ~broken
  <2>1. Proceed("done") /\ pc' = "done" /\ LastPlace' = 5 /\ ResponseStatus = 200
    BY <1>5 DEF Report, Proceed, LastPlace, ResponseStatus
  <2>2. Streams'
    BY <1>1, <1>3, <1>5, <2>1 DEF SInv, Streams
  <2>3. If(Ran("OnResponse", 200, TRUE))' = If(Ran("OnResponse", 200, TRUE))
    BY <1>3 DEF If, Ran, fixed
  <2>4. EndedReported'
    BY <1>1, <1>2, <1>3, <1>5, <2>1, <2>3 DEF EndedReported, ToldIn
  <2>5. Telling'
    BY <2>1, <2>4 DEF Telling, Early, LateSteps
  <2>6. 4 <= LastPlace' /\ 4 \in 0 .. 5
    BY <2>1
  <2>7. QED
    BY <1>2, <2>1, <2>2, <2>5, <2>6, ProceedTells
<1>6. QED
  BY <1>4, <1>5

LEMMA ReportErrorTells == RequestInv /\ SInv /\ ReportError => SInv'
<1> SUFFICES ASSUME RequestInv, SInv, ReportError PROVE SInv'
  OBVIOUS
<1>1. /\ pc = "reportError" /\ HookOf = Ran("OnError", 502, TRUE)
      /\ hooks' = With(hooks, HookOf) /\ broken /\ Failed /\ endpoint \in ChatEndpoints
      /\ ToldIn(hooks) = Noticed \cup If(Ran("OnResponse", 502, TRUE))
  <2>1. pc = "reportError" /\ hooks' = With(hooks, HookOf)
    BY DEF ReportError
  <2>2. HookOf = Ran("OnError", 502, TRUE)
    BY <2>1 DEF HookOf
  <2>3. broken /\ ToldIn(hooks) = Noticed \cup If(Ran("OnResponse", 502, TRUE))
    BY <2>1 DEF SInv, Telling
  <2>4. Failed /\ endpoint \in ChatEndpoints
    BY <2>1, <2>3 DEF SInv, Streams
  <2>5. QED
    BY <2>1, <2>2, <2>3, <2>4
<1>2. /\ hooks' \in Seq(Runs) /\ OrderedUpTo(hooks', 5)
      /\ ToldIn(hooks') = (Noticed \cup If(Ran("OnResponse", 502, TRUE)))
                            \cup If(Ran("OnError", 502, TRUE))
  <2>1. HookOf.hook = "OnError" /\ "OnError" \in Told /\ Order["OnError"] = 5
    BY <1>1, OrderOfHooks DEF Ran, Told
  <2> HIDE DEF HookOf
  <2>2. pc \in {"authorize", "transform", "notify", "report", "reportError"}
    BY DEF ReportError
  <2>3. /\ With(hooks, HookOf) \in Seq(Runs) /\ OrderedUpTo(With(hooks, HookOf), 5)
        /\ ToldIn(With(hooks, HookOf)) = ToldIn(hooks) \cup If(HookOf)
    BY <2>1, <2>2, HookTells, Zenon
  <2> DEFINE hs == With(hooks, HookOf)
             now == If(HookOf)
             earlier == Noticed \cup If(Ran("OnResponse", 502, TRUE))
  <2>4. /\ hs \in Seq(Runs) /\ OrderedUpTo(hs, 5) /\ ToldIn(hs) = ToldIn(hooks) \cup now
        /\ hooks' = hs /\ ToldIn(hooks) = earlier /\ now = If(Ran("OnError", 502, TRUE))
    BY <1>1, <2>3
  <2> HIDE DEF hs, now, earlier
  <2>5. /\ hooks' \in Seq(Runs) /\ OrderedUpTo(hooks', 5)
        /\ ToldIn(hooks') = earlier \cup If(Ran("OnError", 502, TRUE))
    BY <2>4
  <2>6. QED
    BY <2>5 DEF earlier
<1>3. /\ UNCHANGED <<fixed, header, body, upstream, broken>>
      /\ endpoint' = endpoint /\ Failed' = Failed /\ Noticed' = Noticed
      /\ If(Ran("OnResponse", 502, TRUE))' = If(Ran("OnResponse", 502, TRUE))
      /\ If(Ran("OnError", 502, TRUE))' = If(Ran("OnError", 502, TRUE))
  <2>1. UNCHANGED <<fixed, header, body, upstream, broken>>
    BY DEF ReportError, Proceed, wire
  <2>2. QED
    BY <2>1, SameHooks DEF fixed, Failed, If, Ran
<1>4. Proceed("done") /\ pc' = "done" /\ LastPlace' = 5
  BY DEF ReportError, Proceed, LastPlace
<1>5. Streams'
  BY <1>1, <1>3, <1>4 DEF SInv, Streams
<1>6. EndedBroken'
  <2>1. ToldIn(hooks)' = ToldIn(hooks')
    BY DEF ToldIn
  <2> DEFINE earlier == Noticed \cup If(Ran("OnResponse", 502, TRUE))
             now == If(Ran("OnError", 502, TRUE))
  <2>2. ToldIn(hooks') = earlier \cup now /\ now' = now
    BY <1>2, <1>3
  <2>3. earlier' = earlier
    <3>1. /\ Noticed' = Noticed
          /\ If(Ran("OnResponse", 502, TRUE))' = If(Ran("OnResponse", 502, TRUE))
      BY <1>3
    <3>2. QED
      BY <3>1
  <2> HIDE DEF earlier, now
  <2>4. ToldIn(hooks)' = earlier' \cup now'
    BY <2>1, <2>2, <2>3
  <2>5. endpoint' \in ChatEndpoints /\ broken' /\ Failed'
    BY <1>1, <1>3
  <2>6. QED
    BY <2>4, <2>5 DEF EndedBroken, earlier, now
<1>7. Telling'
  BY <1>4, <1>6 DEF Telling, Early, LateSteps
<1>8. 5 <= LastPlace' /\ 5 \in 0 .. 5
  BY <1>4
<1>9. QED
  BY <1>2, <1>4, <1>5, <1>7, <1>8, ProceedTells

\* Nothing that the hooks were told changes when the handler does not move.
LEMMA StillTells ==
  ASSUME SInv, UNCHANGED <<fixed, pc, hooks, wire>>, Streams', gone => gone',
         pc = "done" => broken' = broken,
         broken => broken'
  PROVE  SInv'
<1>1. /\ UNCHANGED <<endpoint, pc, hooks, header, body>> /\ ToldIn(hooks)' = ToldIn(hooks)
      /\ Noticed' = Noticed /\ (Failed <=> Failed') /\ LastPlace' = LastPlace
  BY SameHooks DEF fixed, wire, ToldIn, Failed, LastPlace
<1>2. /\ If(Ran("OnResponse", 502, TRUE))' = If(Ran("OnResponse", 502, TRUE))
      /\ If(Ran("OnResponse", 200, TRUE))' = If(Ran("OnResponse", 200, TRUE))
      /\ If(Ran("OnError", 502, TRUE))' = If(Ran("OnError", 502, TRUE))
      /\ \A status, timed : If(Ran("OnError", status, timed))' = If(Ran("OnError", status, timed))
  BY DEF If, Ran, fixed
<1>3. OrderedUpTo(hooks, LastPlace)'
  BY <1>1 DEF SInv, OrderedUpTo
<1>4. ASSUME pc = "done" PROVE Telling'
  <2>1. broken' = broken
    BY <1>4
  <2>2. EndedInError => EndedInError'
    BY <1>1, <1>2, <2>1 DEF EndedInError
  <2>3. EndedSilently => EndedSilently'
    BY <1>1, <2>1 DEF EndedSilently
  <2>4. EndedReported => EndedReported'
    <3>1. If(Ran("OnResponse", 200, TRUE))' = If(Ran("OnResponse", 200, TRUE))
      BY <1>2
    <3>2. QED
      BY <1>1, <2>1, <3>1 DEF EndedReported
  <2>5. EndedBroken => EndedBroken'
    <3> DEFINE told == If(Ran("OnResponse", 502, TRUE))
               failed == If(Ran("OnError", 502, TRUE))
    <3>1. told' = told /\ failed' = failed
      BY <1>2
    <3> HIDE DEF told, failed
    <3>2. EndedBroken =>
            ToldIn(hooks) = (Noticed \cup told) \cup failed
      BY DEF EndedBroken, told, failed
    <3>3. EndedBroken =>
            ToldIn(hooks)' = (Noticed' \cup told') \cup failed'
      BY <1>1, <3>1, <3>2
    <3>4. EndedBroken => endpoint' \in ChatEndpoints /\ broken' /\ Failed'
      BY <1>1, <2>1 DEF EndedBroken
    <3>5. QED
      BY <3>3, <3>4 DEF EndedBroken, told, failed
  <2>6. pc' = "done"
    BY <1>1, <1>4
  <2>7. QED
    BY <1>4, <2>2, <2>3, <2>4, <2>5, <2>6 DEF SInv, Telling, Early, LateSteps
<1>5. ASSUME pc # "done" PROVE Telling'
  <2>1. If(Ran("OnResponse", 502, TRUE))' = If(Ran("OnResponse", 502, TRUE))
    BY <1>2
  <2>2. /\ pc \in Early => ToldIn(hooks) = {}
        /\ pc \in LateSteps => ToldIn(hooks) = Noticed
        /\ pc = "reportError" =>
             broken /\ ToldIn(hooks) = Noticed \cup If(Ran("OnResponse", 502, TRUE))
    BY DEF SInv, Telling
  <2>3. /\ pc' \in Early => ToldIn(hooks)' = {}
        /\ pc' \in LateSteps => ToldIn(hooks)' = Noticed'
    BY <1>1, <2>2
  <2>4. pc' = "reportError" =>
          broken' /\ ToldIn(hooks)' = Noticed' \cup If(Ran("OnResponse", 502, TRUE))'
    <3> DEFINE told == If(Ran("OnResponse", 502, TRUE))
    <3>1. told' = told
      BY <2>1
    <3>2. pc' = "reportError" => broken' /\ ToldIn(hooks) = Noticed \cup told
      BY <1>1, <2>2
    <3> HIDE DEF told
    <3>3. pc' = "reportError" => ToldIn(hooks)' = Noticed' \cup told'
      BY <1>1, <3>1, <3>2
    <3>4. QED
      BY <3>2, <3>3 DEF told
  <2>5. pc' # "done"
    BY <1>1, <1>5
  <2>6. QED
    BY <2>3, <2>4, <2>5 DEF Telling, Early, LateSteps
<1>6. QED
  BY <1>3, <1>4, <1>5 DEF SInv

LEMMA HealthRespondsTells == RequestInv /\ SInv /\ HealthResponds => SInv'
<1> SUFFICES ASSUME RequestInv, SInv, HealthResponds PROVE SInv'
  OBVIOUS
<1>1. /\ pc = "ping" /\ body = <<>> /\ endpoint = "health" /\ ToldIn(hooks) = Noticed
      /\ upstream \notin {"streaming", "ended"} /\ ~broken
      /\ endpoint \notin ChatEndpoints /\ Noticed = {}
  BY DEF HealthResponds, RequestInv, Progress, SInv, Streams, Telling, LateSteps, ChatEndpoints, Noticed
<1>2. UNCHANGED <<fixed, hooks, upstream, broken, endpoint>> /\ pc' = "done"
  BY DEF HealthResponds, fixed
<1>3. ~Failed'
  <2>1. body' = <<"answer">>
    BY <1>1 DEF HealthResponds
  <2>2. QED
    BY <2>1 DEF Failed
<1>4. Streams'
  BY <1>1, <1>2 DEF Streams
<1>5. EndedSilently'
  BY <1>1, <1>2, <1>3 DEF EndedSilently, ToldIn
<1>6. Telling'
  BY <1>2, <1>5 DEF Telling, Early, LateSteps
<1>7. OrderedUpTo(hooks, LastPlace)'
  <2>1. LastPlace = 3 /\ LastPlace' = 5
    BY <1>1, <1>2 DEF LastPlace
  <2>2. OrderedUpTo(hooks, 5)
    BY <2>1, OrderedWeakens DEF RequestInv, RequestTypeOK, SInv
  <2>3. QED
    BY <1>2, <2>1, <2>2 DEF OrderedUpTo
<1>8. QED
  BY <1>4, <1>6, <1>7 DEF SInv

LEMMA OthersTell ==
  RequestInv /\ SInv /\ (UpstreamReturns \/ StreamEnds \/ Interrupted \/ Disconnect
                   \/ StartPing \/ PingReturns \/ PingExpires) => SInv'
<1> SUFFICES ASSUME RequestInv, SInv,
                    UpstreamReturns \/ StreamEnds \/ Interrupted \/ Disconnect
                      \/ StartPing \/ PingReturns \/ PingExpires
             PROVE  SInv'
  OBVIOUS
<1>1. /\ UNCHANGED <<fixed, pc, hooks, wire>> /\ (gone => gone')
  BY DEF UpstreamReturns, StreamEnds, Interrupted, Disconnect, StartPing, PingReturns,
         PingExpires, EndPing
<1>2. \/ UNCHANGED <<upstream, broken>>
      \/ upstream = "pending" /\ upstream' \in {"answered", "failed", "unsupported"}
         /\ broken' = broken
      \/ upstream = "streaming" /\ upstream' = "ended"
  BY DEF UpstreamReturns, StreamEnds, Interrupted, Disconnect, StartPing, PingReturns,
         PingExpires, EndPing, Results
<1>3. Streams'
  <2>1. endpoint' = endpoint /\ pc' = pc /\ (Failed <=> Failed')
    BY <1>1 DEF fixed, wire, Failed
  <2>2. QED
    BY <1>2, <2>1 DEF SInv, Streams
<1>4. (pc = "done" => broken' = broken) /\ (broken => broken')
  BY <1>2 DEF SInv, Streams
<1>5. QED
  BY <1>1, <1>3, <1>4, StillTells

LEMMA NextKeepsSInv == RequestInv /\ SInv /\ [RequestNext]_requestVars => SInv'
<1>1. ASSUME RequestInv, SInv, UNCHANGED requestVars PROVE SInv'
  <2>1. UNCHANGED <<fixed, pc, hooks, wire, endpoint, upstream, broken, gone, body>>
    BY <1>1 DEF requestVars, fixed, wire
  <2>2. Streams'
    BY <1>1, <2>1 DEF SInv, Streams, Failed
  <2>3. QED
    BY <1>1, <2>1, <2>2, StillTells
<1>2. RequestInv /\ SInv /\ Prepare => SInv'
  BY AuthorizeTells, TransformTells, NotifyTells, OtherPreparationsTell, StartCallTells
  DEF Prepare
<1>3. RequestInv /\ SInv /\ Answer => SInv'
  BY CallFailsTells, CallAnsweredTells, RespondTells, StartCallTells, WriteSSETells,
     ReportTells, ReportErrorTells DEF Answer
<1>4. RequestInv /\ SInv /\ Health => SInv'
  BY OthersTell, HealthRespondsTells DEF Health
<1>5. QED
  BY <1>1, <1>2, <1>3, <1>4, HookPanicsTells, OthersTell DEF RequestNext, Handler

\* What is known at the end is what the operator is to be told.
LEMMA OutcomeOfTelling == RequestInv /\ SInv => OutcomeTold
<1> SUFFICES ASSUME RequestInv, SInv PROVE OutcomeTold
  OBVIOUS
<1>1. HooksInOrder
  BY DEF SInv, OrderedUpTo, HooksInOrder
<1>2. Reports = {e.hook : e \in ToldIn(hooks)}
  BY DEF Reports, ToldIn
<1>3. \A ran : ran.hook \in {"OnRequest", "OnResponse", "OnError"} =>
        {e.hook : e \in If(ran)} = {ran.hook} \cap configured
  BY DEF If
<1>4. \A hook, status, timed : Ran(hook, status, timed).hook = hook
                                 /\ Ran(hook, status, timed).status = status
  BY DEF Ran
<1>5. /\ endpoint \in ChatEndpoints => {e.hook : e \in Noticed} = {"OnRequest"} \cap configured
      /\ endpoint \notin ChatEndpoints => Noticed = {}
      /\ \A e \in Noticed : e.hook = "OnRequest"
  <2> DEFINE ran == Ran("OnRequest", 0, FALSE)
  <2>1. ran.hook = "OnRequest"
    BY DEF Ran
  <2>2. Noticed = IF endpoint \in ChatEndpoints THEN If(ran) ELSE {}
    BY DEF Noticed
  <2> HIDE DEF ran
  <2>3. {e.hook : e \in If(ran)} = {"OnRequest"} \cap configured
    BY <1>3, <2>1
  <2>4. \A e \in If(ran) : e.hook = "OnRequest"
    BY <2>1 DEF If
  <2>5. QED
    BY <2>2, <2>3, <2>4
<1>6. \A i \in 1 .. Len(hooks) : hooks[i].hook \in {"OnResponse", "OnError"} => hooks[i] \in ToldIn(hooks)
  BY DEF ToldIn, Told
<1> DEFINE Whole ==
  /\ Reports \in
       {names \cap configured : names \in
          IF endpoint \notin ChatEndpoints THEN {{}, {"OnError"}}
          ELSE {{"OnError"}, {"OnRequest", "OnError"}, {"OnRequest", "OnResponse"}}
               \cup (IF broken THEN {Told} ELSE {})}
  /\ broken => Reports = Told \cap configured
  /\ ~gone /\ "OnError" \in configured => (Failed <=> "OnError" \in Reports)
  /\ ~gone =>
       \A i \in 1 .. Len(hooks) :
         hooks[i].hook \in {"OnResponse", "OnError"} =>
           hooks[i].status = IF broken THEN 502 ELSE header
<1>7. CASE EndedInError
  <2>1. PICK status \in Statuses, timed \in BOOLEAN, before \in {{}, Noticed} :
          /\ ToldIn(hooks) = before \cup If(Ran("OnError", status, timed))
          /\ ~broken /\ body = <<"error">> /\ (gone \/ header = status)
    BY <1>7 DEF EndedInError
  <2> DEFINE ran == Ran("OnError", status, timed)
  <2>2. ran.hook = "OnError" /\ ran.status = status
    BY <1>4
  <2> HIDE DEF ran
  <2>3. {e.hook : e \in If(ran)} = {"OnError"} \cap configured
    BY <1>3, <2>2
  <2>4. Reports = {e.hook : e \in before} \cup ({"OnError"} \cap configured)
    BY <1>2, <2>1, <2>3 DEF ran
  <2>5. \/ {e.hook : e \in before} = {}
        \/ endpoint \in ChatEndpoints /\ {e.hook : e \in before} = {"OnRequest"} \cap configured
    BY <1>5
  <2>6. \/ Reports = {"OnError"} \cap configured
        \/ endpoint \in ChatEndpoints /\ Reports = {"OnRequest", "OnError"} \cap configured
    BY <2>4, <2>5
  <2>7. Failed /\ ("OnError" \in configured => "OnError" \in Reports)
    <3>1. Len(body) = 1 /\ body[1] = "error" /\ 1 \in 1 .. 1
      BY <2>1
    <3>2. QED
      BY <2>4, <3>1 DEF Failed
  <2>8. \A i \in 1 .. Len(hooks) :
          hooks[i].hook \in {"OnResponse", "OnError"} => hooks[i].status = status
    <3>1. \A e \in ToldIn(hooks) : e.hook \in {"OnResponse", "OnError"} => e.status = status
      BY <1>5, <2>1, <2>2 DEF If, ran
    <3>2. QED
      BY <1>6, <3>1
  <2>9. Reports \in
       {names \cap configured : names \in
          IF endpoint \notin ChatEndpoints THEN {{}, {"OnError"}}
          ELSE {{"OnError"}, {"OnRequest", "OnError"}, {"OnRequest", "OnResponse"}}
               \cup (IF broken THEN {Told} ELSE {})}
    BY <2>6
  <2>10. Whole
    BY <2>1, <2>7, <2>8, <2>9
  <2>11. QED
    BY <1>1, <2>10 DEF OutcomeTold
<1>8. CASE EndedSilently
  <2>1. Reports = {} /\ endpoint \notin ChatEndpoints /\ ~broken /\ ~Failed
    BY <1>2, <1>8 DEF EndedSilently
  <2>2. \A i \in 1 .. Len(hooks) : hooks[i].hook \notin {"OnResponse", "OnError"}
    BY <1>6, <1>8 DEF EndedSilently
  <2>3. Whole
    BY <2>1, <2>2
  <2>4. QED
    BY <1>1, <2>3 DEF OutcomeTold
<1>9. CASE EndedReported
  <2> DEFINE ran == Ran("OnResponse", 200, TRUE)
  <2>1. ran.hook = "OnResponse" /\ ran.status = 200
    BY DEF Ran
  <2>2. /\ ToldIn(hooks) = Noticed \cup If(ran)
        /\ endpoint \in ChatEndpoints /\ ~broken /\ ~Failed /\ header = 200
    BY <1>9 DEF EndedReported
  <2> HIDE DEF ran
  <2>3. {e.hook : e \in If(ran)} = {"OnResponse"} \cap configured
    BY <1>3, <2>1
  <2>4. Reports = {"OnRequest", "OnResponse"} \cap configured
    BY <1>2, <1>5, <2>2, <2>3
  <2>5. \A i \in 1 .. Len(hooks) :
          hooks[i].hook \in {"OnResponse", "OnError"} => hooks[i].status = 200
    <3>1. \A e \in ToldIn(hooks) : e.hook \in {"OnResponse", "OnError"} => e.status = 200
      BY <1>5, <2>1, <2>2 DEF If
    <3>2. QED
      BY <1>6, <3>1
  <2>6. Whole
    BY <2>2, <2>4, <2>5
  <2>7. QED
    BY <1>1, <2>6 DEF OutcomeTold
<1>10. CASE EndedBroken
  <2> DEFINE ran == Ran("OnResponse", 502, TRUE)
             err == Ran("OnError", 502, TRUE)
  <2>1. ran.hook = "OnResponse" /\ ran.status = 502 /\ err.hook = "OnError" /\ err.status = 502
    BY DEF Ran
  <2>2. /\ ToldIn(hooks) = (Noticed \cup If(ran)) \cup If(err)
        /\ endpoint \in ChatEndpoints /\ broken /\ Failed
    BY <1>10 DEF EndedBroken
  <2> HIDE DEF ran, err
  <2>3. /\ {e.hook : e \in If(ran)} = {"OnResponse"} \cap configured
        /\ {e.hook : e \in If(err)} = {"OnError"} \cap configured
    BY <1>3, <2>1
  <2>4. Reports = Told \cap configured
    BY <1>2, <1>5, <2>2, <2>3 DEF Told
  <2>5. \A i \in 1 .. Len(hooks) :
          hooks[i].hook \in {"OnResponse", "OnError"} => hooks[i].status = 502
    <3>1. \A e \in ToldIn(hooks) : e.hook \in {"OnResponse", "OnError"} => e.status = 502
      BY <1>5, <2>1, <2>2 DEF If
    <3>2. QED
      BY <1>6, <3>1
  <2>6. "OnError" \in configured => "OnError" \in Reports
    BY <2>4 DEF Told
  <2>7. Whole
    BY <2>2, <2>4, <2>5, <2>6
  <2>8. QED
    BY <1>1, <2>7 DEF OutcomeTold
<1>11. CASE pc # "done"
  BY <1>1, <1>11 DEF OutcomeTold
<1>12. QED
  BY <1>7, <1>8, <1>9, <1>10, <1>11 DEF SInv, Telling

\* Every request is told of to the operator, whole and in order: each hook once at
\* most, the outcome of a chat as a response, an error or both, and with the status
\* that was sent (handleChat, handleChatStream, writeError).
THEOREM OutcomesTold == RequestSpec => []OutcomeTold
<1>1. RequestSpec => []SInv
  BY InitSInv, NextKeepsSInv, RequestInvariance, PTL DEF RequestSpec
<1>2. QED
  BY <1>1, OutcomeOfTelling, RequestInvariance, PTL

-----------------------------------------------------------------------------
(* One stream *)

\* The groups of variables are abbreviations everywhere below.
USE DEF consumerVars, producerVars, chanVars, fixedVars, ctxVars

-----------------------------------------------------------------------------
(* Sequences *)

\* Receiving: the chunk leaves the contents for the end of what was received.
LEMMA MoveHead ==
  ASSUME NEW S, NEW s \in Seq(S), NEW t \in Seq(S), t # <<>>
  PROVE  Append(s, Head(t)) \o Tail(t) = s \o t
<1>1. /\ Head(t) \in S
      /\ Tail(t) \in Seq(S)
      /\ <<Head(t)>> \in Seq(S)
  BY HeadTailProperties
<1>2. Append(s, Head(t)) = s \o <<Head(t)>>
  BY <1>1, AppendIsConcat
<1>3. <<Head(t)>> \o Tail(t) = t
  BY <1>1
<1>4. QED
  BY <1>1, <1>2, <1>3, ConcatAssociative

-----------------------------------------------------------------------------
(* Chunks and events *)

\* Every chunk a producer builds is a Chunk.
LEMMA ChunkTypes ==
  /\ Text \in Chunk /\ ToolStart \in Chunk /\ ToolDelta \in Chunk
  /\ \A n \in 0 .. MaxReads : Done(n) \in Chunk
BY StreamAssumption
   DEF Chunk, ContentType, Text, ToolStart, ToolDelta, Content, Done

\* Whatever the provider, an event carries a sequence of chunks.
LEMMA EventParts ==
  ASSUME NEW ev \in UpstreamEvents(provider), provider \in AllProviders
  PROVE  /\ ev.parts \in Seq(Chunk)
         /\ ev.usage \in BOOLEAN
         /\ ev.finish \in BOOLEAN
<1>1. /\ <<>> \in Seq(Chunk) /\ <<Text>> \in Seq(Chunk)
      /\ <<ToolStart>> \in Seq(Chunk) /\ <<ToolDelta>> \in Seq(Chunk)
      /\ <<ToolStart, ToolDelta>> \in Seq(Chunk)
      /\ <<Text, ToolStart>> \in Seq(Chunk)
  BY ChunkTypes
<1>2. CASE provider \in {"openai", "gemini"}
  BY <1>1, <1>2 DEF UpstreamEvents, MixedEvents
<1>3. CASE provider = "anthropic"
  BY <1>1, <1>3 DEF UpstreamEvents, ContentEvents
<1>4. CASE provider = "responses"
  BY <1>1, <1>4 DEF UpstreamEvents, ContentEvents
<1>5. CASE provider \in {"ollama", "ollama_tools"}
  BY <1>1, <1>5 DEF UpstreamEvents
<1>6. QED
  BY <1>2, <1>3, <1>4, <1>5 DEF AllProviders

\* What a producer sends for an event is a sequence of chunks.
LEMMA EmittedChunks ==
  ASSUME NEW ev \in UpstreamEvents(provider), provider \in AllProviders,
         NEW p \in Emitted(ev)
  PROVE  p \in Seq(Chunk)
<1>1. /\ <<>> \in Seq(Chunk) /\ <<Text>> \in Seq(Chunk)
      /\ <<ToolStart>> \in Seq(Chunk)
  BY ChunkTypes
<1>2. QED
  BY <1>1, EventParts DEF Emitted, Released

\* The stage after an event is "send" exactly when chunks are left to send.
LEMMA NextStageResult ==
  ASSUME NEW rest, NEW fin \in BOOLEAN, NEW leave \in BOOLEAN
  PROVE  /\ NextStage(rest, fin, leave) \in {"read", "send", "finish", "closeErr"}
         /\ NextStage(rest, fin, leave) = "send" <=> rest # <<>>
BY DEF NextStage

-----------------------------------------------------------------------------
(* The inductive invariant *)

\* The invariant holds when the goroutine starts.
LEMMA InitIInv == Init => IInv
<1>1. <<>> \in Seq(Chunk)
  OBVIOUS
<1>2. SUFFICES ASSUME Init PROVE IInv
  OBVIOUS
<1>3. TypeOK
  <2>1. reported \in 0 .. reads /\ reads \in 0 .. MaxReads /\ counted \in Nat
    BY <1>2, StreamAssumption DEF Init
  <2>2. chunks \in Seq(Chunk) /\ Len(chunks) <= ChunkCap
    BY <1>1, <1>2, StreamAssumption DEF Init
  <2>3. cpc \in ConsumerStage
    BY <1>2 DEF Init, ConsumerStage
  <2>4. QED
    BY <1>1, <1>2, <2>1, <2>2, <2>3
       DEF Init, TypeOK, ProducerStage, Outcome, ErrCause
<1>4. InOrder
  BY <1>1, <1>2, ConcatEmptySeq DEF Init, InOrder
<1>5. Unwinding /\ ErrorAccounted /\ Learnt /\ Settled
  BY <1>2 DEF Init, Unwinding, ErrorAccounted, Learnt, Settled
<1>6. QED
  BY <1>3, <1>4, <1>5 DEF IInv

\* Reading an event fills pending and moves the producer alone.
LEMMA ReadEventIInv == IInv /\ ReadEvent => IInv'
<1>1. SUFFICES ASSUME IInv, ReadEvent PROVE IInv'
  OBVIOUS
<1>2. TypeOK /\ provider \in AllProviders
  BY <1>1, StreamAssumption DEF IInv, TypeOK
<1>3. PICK ev \in UpstreamEvents(provider) :
        /\ finished' = Finishes(ev)
        /\ reported' = reported + (IF ev.usage THEN 1 ELSE 0)
        /\ withheld' = (provider = "ollama_tools"
                          /\ (withheld \/ ev.parts # <<>>))
        /\ finishing' = DoneFollows(ev)
        /\ leaving' = (ev.finish /\ provider \in {"ollama", "ollama_tools"})
        /\ pending' \in Emitted(ev)
        /\ ppc' = NextStage(pending', finishing', leaving')
  BY <1>1 DEF ReadEvent
<1>4. /\ ev.usage \in BOOLEAN
      /\ ev.finish \in BOOLEAN
      /\ pending' \in Seq(Chunk)
  BY <1>2, <1>3, EventParts, EmittedChunks
<1>5. finishing' \in BOOLEAN /\ leaving' \in BOOLEAN
  BY <1>3, <1>4 DEF DoneFollows
<1>6. /\ ppc' \in {"read", "send", "finish", "closeErr"}
      /\ ppc' = "send" => pending' # <<>>
  BY <1>3, <1>5, NextStageResult
<1>7. /\ reported' \in 0 .. reads' /\ reads' \in 0 .. MaxReads
  BY <1>1, <1>2, <1>3, <1>4, StreamAssumption DEF ReadEvent, TypeOK
<1>8. TypeOK'
  <2>1. finished' \in {"no", "yes", "over"}
    BY <1>2, <1>3 DEF Finishes, TypeOK
  <2>2. QED
    BY <1>1, <1>2, <1>3, <1>4, <1>5, <1>6, <1>7, <2>1 DEF ReadEvent, TypeOK,
       ProducerStage
<1>9. InOrder' /\ Learnt' /\ Settled' /\ ErrorAccounted'
  BY <1>1 DEF ReadEvent, IInv, InOrder, Learnt, Settled, ErrorAccounted
<1>10. Unwinding'
  BY <1>1, <1>6 DEF ReadEvent, IInv, Unwinding, Closing
<1>11. QED
  BY <1>8, <1>9, <1>10 DEF IInv

\* The end marker starts the unwinding and touches no channel.
LEMMA ReadMarkerIInv == IInv /\ ReadMarker => IInv'
<1>1. SUFFICES ASSUME IInv, ReadMarker PROVE IInv'
  OBVIOUS
<1>2. TypeOK'
  BY <1>1 DEF ReadMarker, IInv, TypeOK, ProducerStage, ConsumerStage,
     Outcome, ErrCause
<1>3. InOrder' /\ Unwinding'
  BY <1>1 DEF ReadMarker, IInv, InOrder, Unwinding, Closing
<1>4. ErrorAccounted' /\ Learnt' /\ Settled'
  BY <1>1 DEF ReadMarker, IInv, Unwinding, Closing, ErrorAccounted, Learnt,
     Settled
<1>5. QED
  BY <1>2, <1>3, <1>4 DEF IInv

\* The end of the body starts the unwinding, or the Responses done chunk.
LEMMA ReadEOFIInv == IInv /\ ReadEOF => IInv'
<1>1. SUFFICES ASSUME IInv, ReadEOF PROVE IInv'
  OBVIOUS
<1>2. TypeOK'
  BY <1>1 DEF ReadEOF, NextStage, IInv, TypeOK, ProducerStage, ConsumerStage,
     Outcome, ErrCause
<1>3. InOrder' /\ Unwinding'
  BY <1>1 DEF ReadEOF, NextStage, IInv, InOrder, Unwinding, Closing
<1>4. ErrorAccounted' /\ Learnt' /\ Settled'
  BY <1>1 DEF ReadEOF, NextStage, IInv, Unwinding, Closing, ErrorAccounted,
     Learnt, Settled
<1>5. QED
  BY <1>2, <1>3, <1>4 DEF IInv

\* A failure fills the empty Err channel and starts the unwinding.
LEMMA ReadFailureIInv == IInv /\ ReadFailure => IInv'
<1>1. SUFFICES ASSUME IInv, ReadFailure PROVE IInv'
  OBVIOUS
<1>2. TypeOK'
  <2>1. "upstream" \in ErrCause /\ "closeErr" \in ProducerStage
    BY DEF ErrCause, ProducerStage
  <2>2. QED
    BY <1>1, <2>1 DEF ReadFailure, RecordError, IInv, TypeOK
<1>3. InOrder' /\ Unwinding'
  BY <1>1 DEF ReadFailure, RecordError, IInv, InOrder, Unwinding, Closing
<1>4. ErrorAccounted' /\ Learnt' /\ Settled'
  <2>1. /\ IInv /\ ppc = "read" /\ errPending' = TRUE /\ errCause' = "upstream"
        /\ leaving' = TRUE /\ ppc' = "closeErr"
        /\ UNCHANGED <<chunksClosed, errClosed, got, sent, chunks, cpc, outcome>>
    BY <1>1 DEF ReadFailure, RecordError
  <2>2. ErrorAccounted'
    BY <2>1 DEF IInv, Unwinding, Closing, ErrorAccounted
  <2>3. Learnt' /\ Settled'
    BY <1>1 DEF ReadFailure, RecordError, IInv, Unwinding, Closing, Learnt, Settled
  <2>4. QED
    BY <2>2, <2>3
<1>5. QED
  BY <1>2, <1>3, <1>4 DEF IInv

\* So does an interrupted read.
LEMMA ReadInterruptedIInv == IInv /\ ReadInterrupted => IInv'
<1>1. SUFFICES ASSUME IInv, ReadInterrupted PROVE IInv'
  OBVIOUS
<1>2. TypeOK'
  <2>1. PICK cause \in {"canceled", "timeout"} : RecordError(cause)
    BY <1>1 DEF ReadInterrupted
  <2>2. cause \in ErrCause /\ "closeErr" \in ProducerStage
    BY DEF ErrCause, ProducerStage
  <2>3. QED
    BY <1>1, <2>1, <2>2 DEF RecordError, IInv, TypeOK
<1>3. InOrder' /\ Unwinding'
  BY <1>1 DEF ReadInterrupted, RecordError, IInv, InOrder, Unwinding, Closing
<1>4. ErrorAccounted' /\ Learnt' /\ Settled'
  BY <1>1 DEF ReadInterrupted, RecordError, IInv, Unwinding, Closing,
     ErrorAccounted, Learnt, Settled
<1>5. QED
  BY <1>2, <1>3, <1>4 DEF IInv

\* Finish leaves one chunk to send and adds a natural number to the counter.
LEMMA FinishIInv == IInv /\ Finish => IInv'
<1>1. SUFFICES ASSUME IInv, Finish PROVE IInv'
  OBVIOUS
<1>2. reported \in 0 .. MaxReads /\ reported \in Nat /\ counted \in Nat
  BY <1>1, StreamAssumption DEF IInv, TypeOK
<1>3. pending' \in Seq(Chunk) /\ pending' # <<>>
  <2>1. <<Done(reported)>> \in Seq(Chunk)
    BY <1>2, ChunkTypes
  <2>2. QED
    BY <1>1, <2>1 DEF Finish
<1>4. counted' \in Nat
  BY <1>1, <1>2 DEF Finish, AddUsage
<1>5. /\ ppc' = "send" /\ finishing' = FALSE
      /\ UNCHANGED <<leaving, withheld, reported, finished, reads, errCause,
                     sent, consumerVars, chanVars, fixedVars, ctxVars>>
  BY <1>1 DEF Finish
<1>6. TypeOK'
  BY <1>1, <1>3, <1>4, <1>5 DEF IInv, TypeOK, ProducerStage
<1>7. InOrder' /\ Unwinding'
  BY <1>1, <1>3, <1>5 DEF Finish, IInv, InOrder, Unwinding, Closing
<1>8. ErrorAccounted' /\ Learnt' /\ Settled'
  BY <1>1, <1>5 DEF Finish, IInv, Unwinding, Closing, ErrorAccounted,
     Learnt, Settled
<1>9. QED
  BY <1>6, <1>7, <1>8 DEF IInv

\* The three deferred calls close what their stage says is closed.
LEMMA CloseErrIInv == IInv /\ CloseErr => IInv'
<1>1. SUFFICES ASSUME IInv, CloseErr PROVE IInv'
  OBVIOUS
<1>2. TypeOK'
  BY <1>1 DEF CloseErr, IInv, TypeOK, ProducerStage, ConsumerStage, Outcome,
     ErrCause
<1>3. InOrder' /\ Unwinding'
  BY <1>1 DEF CloseErr, IInv, InOrder, Unwinding, Closing
<1>4. ErrorAccounted' /\ Learnt' /\ Settled'
  BY <1>1 DEF CloseErr, IInv, Unwinding, Closing, ErrorAccounted, Learnt,
     Settled
<1>5. QED
  BY <1>2, <1>3, <1>4 DEF IInv

\* The second deferred call.
LEMMA CloseChunksIInv == IInv /\ CloseChunks => IInv'
<1>1. SUFFICES ASSUME IInv, CloseChunks PROVE IInv'
  OBVIOUS
<1>2. TypeOK'
  BY <1>1 DEF CloseChunks, IInv, TypeOK, ProducerStage, ConsumerStage,
     Outcome, ErrCause
<1>3. InOrder' /\ Unwinding'
  BY <1>1 DEF CloseChunks, IInv, InOrder, Unwinding, Closing
<1>4. ErrorAccounted' /\ Learnt' /\ Settled'
  BY <1>1 DEF CloseChunks, IInv, Unwinding, Closing, ErrorAccounted, Learnt,
     Settled
<1>5. QED
  BY <1>2, <1>3, <1>4 DEF IInv

\* The third deferred call.
LEMMA CloseBodyIInv == IInv /\ CloseBody => IInv'
<1>1. SUFFICES ASSUME IInv, CloseBody PROVE IInv'
  OBVIOUS
<1>2. TypeOK'
  BY <1>1 DEF CloseBody, IInv, TypeOK, ProducerStage, ConsumerStage, Outcome,
     ErrCause
<1>3. InOrder' /\ Unwinding'
  BY <1>1 DEF CloseBody, IInv, InOrder, Unwinding, Closing
<1>4. ErrorAccounted' /\ Learnt' /\ Settled'
  BY <1>1 DEF CloseBody, IInv, Unwinding, Closing, ErrorAccounted, Learnt,
     Settled
<1>5. QED
  BY <1>2, <1>3, <1>4 DEF IInv

\* Collect's look at its context moves the consumer alone.
LEMMA CheckCtxIInv == IInv /\ CheckCtx => IInv'
<1>1. SUFFICES ASSUME IInv, CheckCtx PROVE IInv'
  OBVIOUS
<1>2. TypeOK'
  BY <1>1 DEF CheckCtx, Return, IInv, TypeOK, ProducerStage, ConsumerStage,
     Outcome, ErrCause
<1>3. InOrder' /\ Unwinding'
  BY <1>1 DEF CheckCtx, Return, IInv, InOrder, Unwinding, Closing
<1>4. ErrorAccounted' /\ Learnt' /\ Settled'
  BY <1>1 DEF CheckCtx, Return, IInv, Unwinding, Closing, ErrorAccounted,
     Learnt, Settled
<1>5. QED
  BY <1>2, <1>3, <1>4 DEF IInv

\* Recv has learnt that Chunks is closed and empty.
LEMMA RecvChunksClosedIInv == IInv /\ RecvChunksClosed => IInv'
<1>1. SUFFICES ASSUME IInv, RecvChunksClosed PROVE IInv'
  OBVIOUS
<1>2. TypeOK'
  BY <1>1 DEF RecvChunksClosed, IInv, TypeOK, ProducerStage, ConsumerStage,
     Outcome, ErrCause
<1>3. InOrder' /\ Unwinding'
  BY <1>1 DEF RecvChunksClosed, IInv, InOrder, Unwinding, Closing
<1>4. ErrorAccounted' /\ Learnt' /\ Settled'
  BY <1>1 DEF RecvChunksClosed, IInv, Unwinding, Closing, ErrorAccounted,
     Learnt, Settled
<1>5. QED
  BY <1>2, <1>3, <1>4 DEF IInv

\* The error Recv takes is the one the producer recorded.
LEMMA RecvErrorIInv == IInv /\ RecvError => IInv'
<1>1. SUFFICES ASSUME IInv, RecvError PROVE IInv'
  OBVIOUS
<1>2. /\ cpc' \in ConsumerStage /\ outcome' \in Outcome
      /\ got' = got /\ errPending' \in BOOLEAN
  BY <1>1 DEF RecvError, Fail, Return, IInv, TypeOK, ConsumerStage,
     Outcome
<1>3. TypeOK'
  BY <1>1, <1>2 DEF RecvError, IInv, TypeOK
<1>4. InOrder' /\ Unwinding'
  BY <1>1, <1>2 DEF RecvError, IInv, InOrder, Unwinding, Closing
<1>5. ErrorAccounted' /\ Learnt' /\ Settled'
  BY <1>1 DEF RecvError, Fail, Return, IInv, TypeOK, Unwinding, Closing,
     ErrorAccounted, Learnt, Settled
<1>6. QED
  BY <1>3, <1>4, <1>5 DEF IInv

\* Recv has learnt that Err is closed and holds no error: were one recorded,
\* the consumer would have taken it and be past Recv.
LEMMA RecvErrClosedIInv == IInv /\ RecvErrClosed => IInv'
<1>1. SUFFICES ASSUME IInv, RecvErrClosed PROVE IInv'
  OBVIOUS
<1>2. TypeOK'
  BY <1>1 DEF RecvErrClosed, IInv, TypeOK, ProducerStage, ConsumerStage,
     Outcome, ErrCause
<1>3. InOrder' /\ Unwinding'
  BY <1>1 DEF RecvErrClosed, IInv, InOrder, Unwinding, Closing
<1>4. ErrorAccounted' /\ Learnt' /\ Settled'
  BY <1>1 DEF RecvErrClosed, IInv, Unwinding, Closing, ErrorAccounted,
     Learnt, Settled
<1>5. QED
  BY <1>2, <1>3, <1>4 DEF IInv

\* Once Chunks is closed an error recorded before is still in Err.
LEMMA RecvLastErrIInv == IInv /\ RecvLastErr => IInv'
<1>1. SUFFICES ASSUME IInv, RecvLastErr PROVE IInv'
  OBVIOUS
<1>2. /\ cpc' \in ConsumerStage /\ outcome' \in Outcome
      /\ got' = got /\ errPending' \in BOOLEAN
  BY <1>1 DEF RecvLastErr, EndOfChunks, Fail, Return, IInv, TypeOK, ConsumerStage,
     Outcome
<1>3. TypeOK'
  BY <1>1, <1>2 DEF RecvLastErr, IInv, TypeOK
<1>4. InOrder' /\ Unwinding'
  BY <1>1, <1>2 DEF RecvLastErr, EndOfChunks, IInv, InOrder, Unwinding, Closing
<1>5. ErrorAccounted' /\ Learnt' /\ Settled'
  BY <1>1 DEF RecvLastErr, EndOfChunks, Fail, Return, IInv, TypeOK, Unwinding, Closing,
     ErrorAccounted, Learnt, Settled
<1>6. QED
  BY <1>3, <1>4, <1>5 DEF IInv

\* Cancelling moves neither goroutine.
LEMMA CancelIInv == IInv /\ Cancel => IInv'
<1>1. SUFFICES ASSUME IInv, Cancel PROVE IInv'
  OBVIOUS
<1>2. TypeOK'
  BY <1>1 DEF Cancel, IInv, TypeOK, ProducerStage, ConsumerStage, Outcome,
     ErrCause
<1>3. InOrder' /\ Unwinding'
  BY <1>1 DEF Cancel, IInv, InOrder, Unwinding, Closing
<1>4. ErrorAccounted' /\ Learnt' /\ Settled'
  BY <1>1 DEF Cancel, IInv, Unwinding, Closing, ErrorAccounted, Learnt,
     Settled
<1>5. QED
  BY <1>2, <1>3, <1>4 DEF IInv

\* Nor does the timeout by itself.
LEMMA TimeoutElapsesIInv == IInv /\ TimeoutElapses => IInv'
<1>1. SUFFICES ASSUME IInv, TimeoutElapses PROVE IInv'
  OBVIOUS
<1>2. TypeOK'
  BY <1>1 DEF TimeoutElapses, IInv, TypeOK, ProducerStage, ConsumerStage,
     Outcome, ErrCause
<1>3. InOrder' /\ Unwinding'
  BY <1>1 DEF TimeoutElapses, IInv, InOrder, Unwinding, Closing
<1>4. ErrorAccounted' /\ Learnt' /\ Settled'
  BY <1>1 DEF TimeoutElapses, IInv, Unwinding, Closing, ErrorAccounted,
     Learnt, Settled
<1>5. QED
  BY <1>2, <1>3, <1>4 DEF IInv

\* Sending a chunk: the only step that adds to the contents of Chunks.
LEMMA SendChunkIInv == IInv /\ SendChunk => IInv'
<1>1. SUFFICES ASSUME IInv, SendChunk PROVE IInv'
  OBVIOUS
<1>2. /\ pending \in Seq(Chunk) /\ pending # <<>>
      /\ chunks \in Seq(Chunk) /\ sent \in Seq(Chunk) /\ got \in Seq(Chunk)
      /\ ChunkCap \in Nat
  BY <1>1, StreamAssumption DEF SendChunk, IInv, TypeOK, Unwinding
<1>3. Head(pending) \in Chunk /\ Tail(pending) \in Seq(Chunk)
  BY <1>2, HeadTailProperties
<1>4. ppc' \in {"read", "send", "finish", "closeErr"}
      /\ (ppc' = "send" => pending' # <<>>)
  BY <1>1, NextStageResult DEF SendChunk, IInv, TypeOK
<1>5. TypeOK'
  <2>1. pending' \in Seq(Chunk) /\ sent' \in Seq(Chunk)
    BY <1>1, <1>2, <1>3, AppendProperties DEF SendChunk
  <2>2. chunks' \in Seq(Chunk) /\ Len(chunks') <= ChunkCap
    BY <1>1, <1>2, <1>3, AppendProperties DEF SendChunk, HasRoom
  <2>3. ppc' \in ProducerStage
    BY <1>4 DEF ProducerStage
  <2>4. QED
    BY <1>1, <2>1, <2>2, <2>3 DEF SendChunk, IInv, TypeOK
<1>6. InOrder'
  <2>1. sent = got \o chunks
    BY <1>1 DEF IInv, InOrder
  <2>2. Append(got \o chunks, Head(pending))
          = got \o Append(chunks, Head(pending))
    <3>1. got \o chunks \in Seq(Chunk) /\ <<Head(pending)>> \in Seq(Chunk)
      BY <1>2, <1>3, ConcatProperties
    <3>2. Append(got \o chunks, Head(pending))
            = (got \o chunks) \o <<Head(pending)>>
      BY <1>3, <3>1, AppendIsConcat
    <3>3. Append(chunks, Head(pending)) = chunks \o <<Head(pending)>>
      BY <1>2, <1>3, AppendIsConcat
    <3>4. (got \o chunks) \o <<Head(pending)>>
            = got \o (chunks \o <<Head(pending)>>)
      BY <1>2, <3>1, ConcatAssociative
    <3>5. QED
      BY <3>2, <3>3, <3>4
  <2>3. /\ sent' = Append(sent, Head(pending)) /\ got' = got
        /\ chunks' = Append(chunks, Head(pending))
    BY <1>1 DEF SendChunk
  <2>4. QED
    BY <1>3, <2>1, <2>2, <2>3 DEF InOrder
<1>7. Unwinding'
  BY <1>1, <1>4 DEF SendChunk, IInv, Unwinding, Closing
<1>8. ErrorAccounted'
  BY <1>1 DEF SendChunk, IInv, Unwinding, ErrorAccounted, Closing
<1>9. Learnt' /\ Settled'
  BY <1>1 DEF SendChunk, IInv, Unwinding, Learnt, Settled, Closing
<1>10. QED
  BY <1>5, <1>6, <1>7, <1>8, <1>9 DEF IInv

\* Taking a chunk from the channel keeps the order and the types, whatever
\* the consumer does next.
LEMMA TakeChunk ==
  ASSUME IInv, chunks # <<>>, chunks' = Tail(chunks),
         got' = Append(got, Head(chunks)), UNCHANGED sent
  PROVE  /\ InOrder'
         /\ chunks' \in Seq(Chunk) /\ Len(chunks') <= ChunkCap
         /\ got' \in Seq(Chunk)
<1>1. /\ chunks \in Seq(Chunk) /\ got \in Seq(Chunk)
      /\ Len(chunks) <= ChunkCap /\ ChunkCap \in Nat /\ sent = got \o chunks
  BY StreamAssumption DEF IInv, TypeOK, InOrder
<1>2. /\ Head(chunks) \in Chunk /\ Tail(chunks) \in Seq(Chunk)
      /\ Len(Tail(chunks)) = Len(chunks) - 1 /\ Len(chunks) \in Nat
  BY <1>1, HeadTailProperties
<1>3. InOrder'
  BY <1>1, MoveHead DEF InOrder
<1>4. QED
  BY <1>1, <1>2, <1>3, AppendProperties

\* Where the consumer goes with a chunk it accepted.
LEMMA AcceptResult ==
  ASSUME NEW c, Accept(c), outcome = "none", consumer \in AllConsumers
  PROVE  /\ got' = Append(got, c)
         /\ cpc' \in {"check", "recv", "returned"}
         /\ outcome' \in {"none", "done"}
         /\ cpc' = "returned" <=> outcome' # "none"
BY DEF Accept, Return

\* Taking a chunk in the select of Recv.
LEMMA RecvChunkIInv == IInv /\ RecvChunk => IInv'
<1>1. SUFFICES ASSUME IInv, RecvChunk PROVE IInv'
  OBVIOUS
<1>2. outcome = "none" /\ consumer \in AllConsumers
  BY <1>1, StreamAssumption DEF RecvChunk, IInv, TypeOK, Learnt
<1>3. /\ got' = Append(got, Head(chunks))
      /\ cpc' \in {"check", "recv", "returned"}
      /\ outcome' \in {"none", "done"}
      /\ cpc' = "returned" <=> outcome' # "none"
  BY <1>1, <1>2, AcceptResult DEF RecvChunk
<1>4. /\ InOrder'
      /\ chunks' \in Seq(Chunk) /\ Len(chunks') <= ChunkCap
      /\ got' \in Seq(Chunk)
  BY <1>1, <1>3, TakeChunk DEF RecvChunk
<1>5. cpc' \in ConsumerStage /\ outcome' \in Outcome
  BY <1>3 DEF ConsumerStage, Outcome
<1>6. UNCHANGED <<producerVars, chunksClosed, errPending, errClosed,
                  fixedVars, ctxVars>>
  BY <1>1 DEF RecvChunk
<1>7. TypeOK'
  BY <1>1, <1>4, <1>5, <1>6 DEF IInv, TypeOK
<1>8. Unwinding'
  BY <1>1, <1>6 DEF IInv, Unwinding
<1>9. ErrorAccounted'
  BY <1>1, <1>3, <1>6 DEF RecvChunk, IInv, ErrorAccounted
<1>10. Learnt' /\ Settled'
  BY <1>3 DEF Learnt, Settled
<1>11. QED
  BY <1>4, <1>7, <1>8, <1>9, <1>10 DEF IInv

\* Taking a chunk, or the end of Chunks, once Err is known to be closed.
LEMMA RecvLastChunksIInv == IInv /\ RecvLastChunks => IInv'
<1>1. SUFFICES ASSUME IInv, RecvLastChunks PROVE IInv'
  OBVIOUS
<1>2. /\ outcome = "none" /\ consumer \in AllConsumers
      /\ errCause = "none" /\ errClosed
  BY <1>1, StreamAssumption DEF RecvLastChunks, IInv, TypeOK, Learnt
<1>3. UNCHANGED <<producerVars, chunksClosed, errPending, errClosed,
                  fixedVars, ctxVars>>
  BY <1>1 DEF RecvLastChunks
<1>4. Unwinding'
  BY <1>1, <1>3 DEF IInv, Unwinding
<1>5. CASE chunks # <<>> /\ chunks' = Tail(chunks) /\ Accept(Head(chunks))
  <2>1. /\ got' = Append(got, Head(chunks))
        /\ cpc' \in {"check", "recv", "returned"}
        /\ outcome' \in {"none", "done"}
        /\ cpc' = "returned" <=> outcome' # "none"
    BY <1>2, <1>5, AcceptResult
  <2>2. /\ InOrder'
        /\ chunks' \in Seq(Chunk) /\ Len(chunks') <= ChunkCap
        /\ got' \in Seq(Chunk)
    BY <1>1, <1>3, <1>5, <2>1, TakeChunk
  <2>3. cpc' \in ConsumerStage /\ outcome' \in Outcome
    BY <2>1 DEF ConsumerStage, Outcome
  <2>4. TypeOK'
    BY <1>1, <1>3, <2>2, <2>3 DEF IInv, TypeOK
  <2>5. ErrorAccounted' /\ Learnt' /\ Settled'
    BY <1>2, <1>3, <2>1 DEF ErrorAccounted, Learnt, Settled
  <2>6. QED
    BY <1>4, <2>2, <2>4, <2>5 DEF IInv
<1>6. CASE chunks = <<>> /\ chunksClosed /\ Return("eof")
           /\ UNCHANGED <<got, chunks>>
  <2>1. TypeOK'
    BY <1>1, <1>3, <1>6 DEF IInv, TypeOK, Return, ConsumerStage, Outcome
  <2>2. InOrder'
    BY <1>1, <1>3, <1>6 DEF IInv, InOrder
  <2>3. ErrorAccounted' /\ Learnt' /\ Settled'
    BY <1>2, <1>3, <1>6 DEF ErrorAccounted, Learnt, Settled, Return
  <2>4. QED
    BY <1>4, <2>1, <2>2, <2>3 DEF IInv
<1>7. QED
  BY <1>1, <1>5, <1>6 DEF RecvLastChunks

\* Draining ends with an empty channel, and nothing is sent meanwhile.
LEMMA DrainIInv == IInv /\ Drain => IInv'
<1>1. SUFFICES ASSUME IInv, Drain PROVE IInv'
  OBVIOUS
<1>2. /\ outcome = "none" /\ errCause # "none" /\ consumer = "collect"
  BY <1>1 DEF Drain, IInv, Learnt, ErrorAccounted
<1>3. UNCHANGED <<producerVars, chunksClosed, errPending, errClosed,
                  fixedVars, ctxVars>>
  BY <1>1 DEF Drain
<1>4. Unwinding'
  BY <1>1, <1>3 DEF IInv, Unwinding
<1>5. CASE chunks # <<>>
  <2>1. /\ chunks' = Tail(chunks) /\ got' = Append(got, Head(chunks))
        /\ UNCHANGED <<cpc, outcome>>
    BY <1>1, <1>5 DEF Drain
  <2>2. /\ InOrder'
        /\ chunks' \in Seq(Chunk) /\ Len(chunks') <= ChunkCap
        /\ got' \in Seq(Chunk)
    BY <1>1, <1>3, <1>5, <2>1, TakeChunk
  <2>3. TypeOK'
    BY <1>1, <1>3, <2>1, <2>2 DEF IInv, TypeOK
  <2>4. ErrorAccounted' /\ Learnt' /\ Settled'
    BY <1>1, <1>2, <1>3, <2>1 DEF Drain, IInv, ErrorAccounted, Learnt,
       Settled
  <2>5. QED
    BY <1>4, <2>2, <2>3, <2>4 DEF IInv
<1>6. CASE chunks = <<>>
  <2>1. Return("error") /\ UNCHANGED <<chunks, got>>
    BY <1>1, <1>6 DEF Drain
  <2>2. TypeOK'
    BY <1>1, <1>3, <2>1 DEF IInv, TypeOK, Return, ConsumerStage, Outcome
  <2>3. InOrder'
    BY <1>1, <1>3, <2>1 DEF IInv, InOrder
  <2>4. ErrorAccounted' /\ Learnt' /\ Settled'
    BY <1>1, <1>2, <1>3, <1>6, <2>1 DEF IInv, ErrorAccounted, Learnt,
       Settled, Return
  <2>5. QED
    BY <1>4, <2>2, <2>3, <2>4 DEF IInv
<1>7. QED
  BY <1>5, <1>6

\* A step that changes nothing preserves the invariant.
LEMMA StutterIInv == IInv /\ UNCHANGED vars => IInv'
BY DEF vars, IInv, TypeOK, InOrder, Unwinding, ErrorAccounted, Learnt,
   Settled

\* Every step preserves the invariant.
LEMMA NextIInv == IInv /\ [Next]_vars => IInv'
<1>1. IInv /\ Producer => IInv'
  BY ReadEventIInv, ReadMarkerIInv, ReadEOFIInv, ReadFailureIInv,
     ReadInterruptedIInv, SendChunkIInv, FinishIInv, CloseErrIInv,
     CloseChunksIInv, CloseBodyIInv DEF Producer
<1>2. IInv /\ Consumer => IInv'
  BY CheckCtxIInv, RecvChunkIInv, RecvChunksClosedIInv, RecvErrorIInv,
     RecvErrClosedIInv, RecvLastErrIInv, RecvLastChunksIInv, DrainIInv
     DEF Consumer
<1>3. QED
  BY <1>1, <1>2, CancelIInv, TimeoutElapsesIInv, StutterIInv DEF Next

-----------------------------------------------------------------------------
(* The theorems *)

\* The invariant holds in every reachable state.
THEOREM Invariance == Spec => []IInv
BY InitIInv, NextIInv, PTL DEF Spec

\* Type correctness and the capacity of both channels.
THEOREM TypeCorrect == Spec => []TypeOK
<1>1. IInv => TypeOK
  BY DEF IInv
<1>2. QED
  BY <1>1, Invariance, PTL

\* Recv never reports the end of a stream whose producer recorded an error.
THEOREM ErrorsSurface == Spec => []ErrorNotMasked
<1>1. IInv => ErrorNotMasked
  BY DEF IInv, Settled, ErrorNotMasked
<1>2. QED
  BY <1>1, Invariance, PTL

\* A consumer told of the end of the stream, and a Collect told of its error,
\* hold every chunk that was sent.
THEOREM ChunksComplete == Spec => []NothingLost
<1>1. IInv => NothingLost
  <2>1. SUFFICES ASSUME IInv, chunks = <<>> PROVE got = sent
    BY DEF IInv, Settled, NothingLost
  <2>2. QED
    BY <2>1, ConcatEmptySeq DEF IInv, TypeOK, InOrder
<1>2. QED
  BY <1>1, Invariance, PTL

-----------------------------------------------------------------------------
(* The done chunk and the usage it carries *)

\* What is said of the chunks of a sequence survives taking the first away and
\* adding one that satisfies it.
LEMMA DoneOfSequences ==
  ASSUME NEW s \in Seq(Chunk), NEW c \in Chunk
  PROVE  /\ NoDone(s) /\ c.type # "done" => NoDone(Append(s, c))
         /\ Covered(s) /\ (c.type = "done" => c.usage <= counted) =>
              Covered(Append(s, c))
         /\ s # <<>> /\ NoDone(s) => NoDone(Tail(s)) /\ Head(s).type # "done"
         /\ s # <<>> /\ Covered(s) =>
              /\ Covered(Tail(s))
              /\ Head(s).type = "done" => Head(s).usage <= counted
         /\ NoDone(s) => \A i \in DOMAIN Append(s, c) :
              Append(s, c)[i].type = "done" => i = Len(Append(s, c))
<1>1. /\ Len(Append(s, c)) = Len(s) + 1
      /\ DOMAIN Append(s, c) = 1 .. Len(s) + 1
      /\ \A i \in 1 .. Len(s) : Append(s, c)[i] = s[i]
      /\ Append(s, c)[Len(s) + 1] = c
  OBVIOUS
<1>2. DOMAIN s = 1 .. Len(s) /\ Len(s) \in Nat
  OBVIOUS
<1>3. ASSUME s # <<>>
      PROVE  /\ 1 \in DOMAIN s /\ Head(s) = s[1]
             /\ \A i \in DOMAIN Tail(s) :
                  i + 1 \in DOMAIN s /\ Tail(s)[i] = s[i + 1]
  BY <1>3
<1>4. QED
  BY <1>1, <1>2, <1>3 DEF NoDone, Covered

\* The chunks of an event are content, and Responses reports usage with its
\* finish alone.
LEMMA EventContent ==
  ASSUME NEW ev \in UpstreamEvents(provider), provider \in AllProviders
  PROVE  /\ NoDone(ev.parts)
         /\ provider = "responses" /\ ev.usage => ev.finish
<1>1. /\ NoDone(<<>>) /\ NoDone(<<Text>>) /\ NoDone(<<ToolStart>>)
      /\ NoDone(<<ToolDelta>>) /\ NoDone(<<ToolStart, ToolDelta>>)
      /\ NoDone(<<Text, ToolStart>>)
  BY DEF NoDone, Text, ToolStart, ToolDelta, Content
<1>2. CASE provider \in {"openai", "gemini"}
  BY <1>1, <1>2 DEF UpstreamEvents, MixedEvents
<1>3. CASE provider = "anthropic"
  BY <1>1, <1>3 DEF UpstreamEvents, ContentEvents
<1>4. CASE provider = "responses"
  BY <1>1, <1>4 DEF UpstreamEvents, ContentEvents
<1>5. CASE provider \in {"ollama", "ollama_tools"}
  BY <1>1, <1>5 DEF UpstreamEvents
<1>6. QED
  BY <1>2, <1>3, <1>4, <1>5 DEF AllProviders

\* So are the chunks that are sent for it; without content or a finish, none is.
LEMMA EmittedContent ==
  ASSUME NEW ev \in UpstreamEvents(provider), provider \in AllProviders,
         NEW p \in Emitted(ev)
  PROVE  /\ NoDone(p)
         /\ ev.parts = <<>> /\ ~ev.finish => p = <<>>
<1>1. NoDone(<<>>) /\ NoDone(<<Text>>) /\ NoDone(<<ToolStart>>)
  BY DEF NoDone, Text, ToolStart, Content
<1>2. QED
  BY <1>1, EventContent, EventParts DEF Emitted, Released

\* Chunks that are not done need no usage to be counted.
LEMMA ContentCovered == ASSUME NEW s, NoDone(s) PROVE Covered(s)
BY DEF NoDone, Covered

\* Where each event leaves the goroutine.
LEMMA NextStageCases ==
  ASSUME NEW rest, NEW fin \in BOOLEAN, NEW leave \in BOOLEAN
  PROVE  /\ rest # <<>> => NextStage(rest, fin, leave) = "send"
         /\ rest = <<>> /\ fin => NextStage(rest, fin, leave) = "finish"
         /\ rest = <<>> /\ ~fin /\ leave =>
              NextStage(rest, fin, leave) = "closeErr"
         /\ rest = <<>> /\ ~fin /\ ~leave => NextStage(rest, fin, leave) = "read"
BY DEF NextStage

\* Nothing is sent or counted when the goroutine starts.
LEMMA InitDone == Init => DoneInv
<1>1. NoDone(<<>>) /\ Covered(<<>>)
  BY DEF NoDone, Covered
<1>2. QED
  BY <1>1 DEF Init, DoneInv, Stage, BeforeDone, Closing

\* A finish event makes the done chunk due; after it only an event that carries
\* nothing is orderly.
LEMMA ReadEventDone == IInv /\ DoneInv /\ ReadEvent => DoneInv'
<1>1. SUFFICES ASSUME IInv, DoneInv, ReadEvent PROVE DoneInv'
  OBVIOUS
<1>2. /\ provider \in AllProviders /\ provider' = provider
      /\ reported \in Nat /\ sent' = sent /\ counted' = counted
      /\ errCause' = errCause /\ errCause = "none"
      /\ ppc = "read" /\ finished \in {"no", "yes", "over"}
  BY <1>1, StreamAssumption DEF ReadEvent, IInv, TypeOK, Unwinding, Closing
<1>3. PICK ev \in UpstreamEvents(provider) :
        /\ finished' = Finishes(ev)
        /\ reported' = reported + (IF ev.usage THEN 1 ELSE 0)
        /\ finishing' = DoneFollows(ev)
        /\ leaving' = (ev.finish /\ provider \in {"ollama", "ollama_tools"})
        /\ pending' \in Emitted(ev)
        /\ ppc' = NextStage(pending', finishing', leaving')
  BY <1>1 DEF ReadEvent
<1>4. /\ ev.usage \in BOOLEAN /\ ev.finish \in BOOLEAN
      /\ NoDone(pending')
      /\ provider = "responses" /\ ev.usage => ev.finish
      /\ ev.parts = <<>> /\ ~ev.finish => pending' = <<>>
  BY <1>2, <1>3, EventParts, EventContent, EmittedContent
<1>5. finishing' \in BOOLEAN /\ leaving' \in BOOLEAN
  BY <1>3, <1>4 DEF DoneFollows
<1>6. pending = <<>> /\ ~finishing /\ ~leaving
  BY <1>1, <1>2 DEF DoneInv, Stage
<1>7. Covered(sent)' /\ Covered(pending)'
  BY <1>1, <1>2, <1>4 DEF DoneInv, Covered, NoDone
<1>8. Stage'
  <2>1. finished' = "no" => ~ev.finish /\ finished = "no"
    BY <1>2, <1>3 DEF Finishes
  <2>2. provider = "responses" /\ finished' = "no" => reported' = 0
    BY <1>1, <1>2, <1>3, <1>4, <2>1 DEF DoneInv, Stage
  <2>3. finishing' => ev.finish /\ provider # "responses"
    BY <1>3 DEF DoneFollows
  <2>4. ppc' \in Closing => ppc' = "closeErr"
    BY <1>3, <1>5, NextStageResult DEF Closing
  <2>5. QED
    BY <1>2, <1>3, <1>5, <2>1, <2>2, <2>3, <2>4, NextStageCases DEF Stage
<1>9. ASSUME provider' # "openai", finished' # "over"
      PROVE  BeforeDone' \/ AfterDone'
  <2>1. ~Late(ev)
    BY <1>3, <1>9 DEF Finishes
  <2>2. BeforeDone \/ AfterDone
    BY <1>1, <1>2, <1>3, <1>9, <2>1 DEF DoneInv, Finishes, Late
  <2>3. CASE BeforeDone
    <3>1. /\ counted' = 0 /\ NoDone(sent') /\ NoDone(pending')
      BY <1>2, <1>4, <2>3 DEF BeforeDone
    <3>2. ASSUME finished' = "yes"
          PROVE  finishing' \/ (provider = "responses" /\ ~leaving')
      <4>1. ev.finish \/ provider = "responses"
        BY <1>2, <1>3, <1>6, <2>3, <3>2 DEF BeforeDone, Finishes
      <4>2. QED
        BY <1>2, <1>3, <4>1 DEF DoneFollows
    <3>3. QED
      BY <1>2, <3>1, <3>2 DEF BeforeDone, NoDone
  <2>4. CASE AfterDone
    <3>1. finished = "yes" /\ provider # "responses"
      BY <1>6, <2>4 DEF AfterDone
    <3>2. ev.parts = <<>> /\ ~ev.finish /\ ~ev.usage
      BY <1>2, <1>4, <1>9, <2>1, <3>1 DEF Late
    <3>3. /\ reported' = reported /\ finished' = "yes" /\ pending' = <<>>
          /\ finishing' = FALSE
      BY <1>2, <1>3, <1>4, <2>1, <3>1, <3>2 DEF Finishes, DoneFollows
    <3>4. \A i \in DOMAIN sent : sent[i].type = "done" => i = Len(sent)
      BY <1>6, <2>4 DEF AfterDone
    <3>5. QED
      BY <1>2, <2>4, <3>1, <3>3, <3>4 DEF AfterDone
  <2>5. QED
    BY <2>2, <2>3, <2>4
<1>10. QED
  BY <1>7, <1>8, <1>9 DEF DoneInv

\* The end of the body makes the done chunk of Responses due; the end marker
\* and an error leave the loop.
LEMMA LeavingDone ==
  IInv /\ DoneInv /\ (ReadMarker \/ ReadEOF \/ ReadFailure \/ ReadInterrupted)
    => DoneInv'
<1>1. SUFFICES ASSUME IInv, DoneInv,
                      ReadMarker \/ ReadEOF \/ ReadFailure \/ ReadInterrupted
               PROVE  DoneInv'
  OBVIOUS
<1>2. /\ ppc = "read" /\ pending = <<>> /\ ~finishing /\ ~leaving
      /\ UNCHANGED <<provider, pending, sent, counted, reported, finished>>
      /\ leaving' = TRUE
  BY <1>1 DEF ReadMarker, ReadEOF, ReadFailure, ReadInterrupted, RecordError,
     DoneInv, Stage
<1>3. \/ /\ ppc' = "closeErr" /\ finishing' = FALSE
         /\ errCause' # "none" \/ provider # "responses"
      \/ ppc' = "finish" /\ finishing' = TRUE /\ provider = "responses"
  <2>1. CASE ReadMarker
    BY <1>2, <2>1, NextStageCases DEF ReadMarker, IInv, TypeOK
  <2>2. CASE ReadEOF
    BY <2>2, NextStageCases DEF ReadEOF
  <2>3. CASE ReadFailure \/ ReadInterrupted
    <3>1. finishing \in BOOLEAN
      BY <1>1 DEF IInv, TypeOK
    <3>2. QED
      BY <1>2, <2>3, <3>1 DEF ReadFailure, ReadInterrupted, RecordError
  <2>4. QED
    BY <1>1, <2>1, <2>2, <2>3
<1>4. Covered(sent)' /\ Covered(pending)'
  BY <1>1, <1>2 DEF DoneInv, Covered
<1>5. Stage'
  BY <1>1, <1>2, <1>3 DEF DoneInv, Stage, Closing
<1>6. ASSUME provider # "openai", finished # "over"
      PROVE  BeforeDone' \/ AfterDone'
  <2>1. errCause = "none"
    BY <1>1, <1>2 DEF IInv, Unwinding, Closing
  <2>2. CASE BeforeDone
    BY <1>2, <1>3, <2>1, <2>2 DEF BeforeDone, NoDone
  <2>3. CASE AfterDone
    BY <1>2, <1>3, <2>3 DEF AfterDone
  <2>4. QED
    BY <1>1, <1>6, <2>2, <2>3 DEF DoneInv
<1>7. QED
  BY <1>2, <1>4, <1>5, <1>6 DEF DoneInv

\* Sending moves a chunk from pending to sent.
LEMMA SendChunkDone == IInv /\ DoneInv /\ SendChunk => DoneInv'
<1>1. SUFFICES ASSUME IInv, DoneInv, SendChunk PROVE DoneInv'
  OBVIOUS
<1>2. /\ pending \in Seq(Chunk) /\ pending # <<>> /\ sent \in Seq(Chunk)
      /\ finishing \in BOOLEAN /\ leaving \in BOOLEAN
  BY <1>1 DEF SendChunk, IInv, TypeOK, Unwinding
<1>3. Head(pending) \in Chunk
  BY <1>2, HeadTailProperties
<1>4. /\ sent' = Append(sent, Head(pending)) /\ pending' = Tail(pending)
      /\ ppc' = NextStage(pending', finishing, leaving)
      /\ UNCHANGED <<provider, finishing, leaving, counted, reported, finished,
                     errCause>>
  BY <1>1 DEF SendChunk
<1>5. Covered(sent)' /\ Covered(pending)'
  <2>1. Covered(Append(sent, Head(pending))) /\ Covered(Tail(pending))
    BY <1>1, <1>2, <1>3, DoneOfSequences DEF DoneInv
  <2>2. QED
    BY <1>4, <2>1 DEF Covered
<1>6. Stage'
  <2>1. ppc' \in Closing => ppc' = "closeErr"
    BY <1>2, <1>4, NextStageResult DEF Closing
  <2>2. QED
    BY <1>1, <1>2, <1>4, <2>1, NextStageCases DEF DoneInv, Stage
<1>7. ASSUME provider # "openai", finished # "over"
      PROVE  BeforeDone' \/ AfterDone'
  <2>1. CASE BeforeDone
    <3>1. NoDone(Append(sent, Head(pending))) /\ NoDone(Tail(pending))
      BY <1>2, <1>3, <2>1, DoneOfSequences DEF BeforeDone
    <3>2. QED
      BY <1>4, <2>1, <3>1 DEF BeforeDone, NoDone
  <2>2. CASE AfterDone
    <3>1. pending = <<Done(reported)>> /\ NoDone(sent)
      BY <1>2, <2>2 DEF AfterDone
    <3>2. pending' = <<>>
      BY <1>4, <3>1
    <3>3. \A i \in DOMAIN sent' : sent'[i].type = "done" => i = Len(sent')
      BY <1>2, <1>3, <1>4, <3>1, DoneOfSequences
    <3>4. QED
      BY <1>4, <2>2, <3>2, <3>3 DEF AfterDone
  <2>3. QED
    BY <1>1, <1>7, <2>1, <2>2 DEF DoneInv
<1>8. QED
  BY <1>4, <1>5, <1>6, <1>7 DEF DoneInv

\* The usage is counted before the done chunk that carries it is sent.
LEMMA FinishDone == IInv /\ DoneInv /\ Finish => DoneInv'
<1>1. SUFFICES ASSUME IInv, DoneInv, Finish PROVE DoneInv'
  OBVIOUS
<1>2. reported \in Nat /\ counted \in Nat /\ sent \in Seq(Chunk)
  BY <1>1, StreamAssumption DEF IInv, TypeOK
<1>3. /\ ppc = "finish" /\ ppc' = "send" /\ finishing' = FALSE
      /\ counted' = counted + reported /\ pending' = <<Done(reported)>>
      /\ UNCHANGED <<provider, leaving, reported, finished, errCause, sent>>
  BY <1>1 DEF Finish, AddUsage
<1>4. Covered(sent)' /\ Covered(pending)'
  <2>1. \A i \in DOMAIN sent : sent[i].type = "done" => sent[i].usage \in Nat
    <3>1. \A i \in DOMAIN sent : sent[i] \in Chunk
      BY <1>2
    <3>2. QED
      BY <3>1, StreamAssumption DEF Chunk
  <2>2. Covered(sent)'
    BY <1>1, <1>2, <1>3, <2>1 DEF DoneInv, Covered
  <2>3. \A i \in DOMAIN <<Done(reported)>> :
          <<Done(reported)>>[i].usage = reported
    BY DEF Done
  <2>4. Covered(pending)'
    BY <1>2, <1>3, <2>3 DEF Covered
  <2>5. QED
    BY <2>2, <2>4
<1>5. finishing
  BY <1>1, <1>3 DEF DoneInv, Stage
<1>6. Stage'
  BY <1>1, <1>3 DEF DoneInv, Stage, Closing
<1>7. ASSUME provider # "openai", finished # "over" PROVE AfterDone'
  <2>1. BeforeDone
    BY <1>1, <1>5, <1>7 DEF DoneInv, AfterDone
  <2>2. counted' = reported'
    BY <1>2, <1>3, <2>1 DEF BeforeDone
  <2>3. /\ finished = "yes" \/ leaving
        /\ provider = "responses" => leaving
    BY <1>1, <1>5, <1>7 DEF DoneInv, Stage, IInv, TypeOK
  <2>4. NoDone(sent')
    BY <1>3, <2>1 DEF BeforeDone
  <2>5. QED
    BY <1>3, <2>2, <2>3, <2>4 DEF AfterDone, NoDone, Done
<1>8. QED
  BY <1>3, <1>4, <1>6, <1>7 DEF DoneInv

\* The deferred calls send nothing.
LEMMA UnwindingDone ==
  DoneInv /\ (CloseErr \/ CloseChunks \/ CloseBody) => DoneInv'
<1>1. SUFFICES ASSUME DoneInv, CloseErr \/ CloseChunks \/ CloseBody
               PROVE  DoneInv'
  OBVIOUS
<1>2. /\ ppc \in Closing /\ ppc' \in Closing
      /\ UNCHANGED <<provider, pending, finishing, leaving, sent, counted,
                     reported, finished, errCause>>
  BY <1>1 DEF CloseErr, CloseChunks, CloseBody, Closing
<1>3. Covered(sent)' /\ Covered(pending)'
  BY <1>1, <1>2 DEF DoneInv, Covered
<1>4. Stage'
  BY <1>1, <1>2 DEF DoneInv, Stage, Closing
<1>5. BeforeDone => BeforeDone'
  BY <1>2 DEF BeforeDone, NoDone
<1>6. AfterDone => AfterDone'
  BY <1>2 DEF AfterDone, NoDone
<1>7. QED
  BY <1>1, <1>2, <1>3, <1>4, <1>5, <1>6 DEF DoneInv

\* Every other step leaves the producer alone.
LEMMA OthersDone ==
  DoneInv /\ UNCHANGED <<producerVars, fixedVars>> => DoneInv'
<1>1. SUFFICES ASSUME DoneInv, UNCHANGED <<producerVars, fixedVars>>
               PROVE  DoneInv'
  OBVIOUS
<1>2. Covered(sent)' /\ Covered(pending)'
  BY <1>1 DEF DoneInv, Covered
<1>3. Stage'
  BY <1>1 DEF DoneInv, Stage
<1>4. (BeforeDone => BeforeDone') /\ (AfterDone => AfterDone')
  BY <1>1 DEF BeforeDone, AfterDone, NoDone
<1>5. QED
  BY <1>1, <1>2, <1>3, <1>4 DEF DoneInv

\* Every step preserves the invariant.
LEMMA NextDone == IInv /\ DoneInv /\ [Next]_vars => DoneInv'
<1>1. IInv /\ DoneInv /\ Producer => DoneInv'
  BY ReadEventDone, LeavingDone, SendChunkDone, FinishDone, UnwindingDone
     DEF Producer
<1>2. Consumer => UNCHANGED <<producerVars, fixedVars>>
  BY DEF Consumer, CheckCtx, RecvChunk, RecvChunksClosed, RecvError,
     RecvErrClosed, RecvLastErr, RecvLastChunks, Drain
<1>3. Cancel \/ TimeoutElapses \/ UNCHANGED vars
        => UNCHANGED <<producerVars, fixedVars>>
  BY DEF Cancel, TimeoutElapses, vars
<1>4. QED
  BY <1>1, <1>2, <1>3, OthersDone DEF Next

\* What has been sent and counted stays so in every reachable state.
THEOREM DoneInvariance == Spec => []DoneInv
<1>1. Init => IInv /\ DoneInv
  BY InitIInv, InitDone
<1>2. IInv /\ DoneInv /\ [Next]_vars => (IInv /\ DoneInv)'
  BY NextIInv, NextDone
<1>3. QED
  BY <1>1, <1>2, PTL DEF Spec

\* A consumer that holds a done chunk finds its tokens counted, because they
\* were when the chunk was sent.
THEOREM UsageCountedFirst == Spec => []UsageBeforeDone
<1>1. IInv /\ DoneInv => UsageBeforeDone
  <2>1. SUFFICES ASSUME IInv, DoneInv PROVE UsageBeforeDone
    OBVIOUS
  <2>2. got \in Seq(Chunk) /\ chunks \in Seq(Chunk) /\ sent = got \o chunks
    BY <2>1 DEF IInv, TypeOK, InOrder
  <2>3. \A i \in DOMAIN got : i \in DOMAIN sent /\ sent[i] = got[i]
    BY <2>2
  <2>4. QED
    BY <2>1, <2>3 DEF DoneInv, Covered, UsageBeforeDone
<1>2. QED
  BY <1>1, Invariance, DoneInvariance, PTL

\* A producer that met no error has counted what a finished answer reported.
THEOREM UsageCountedAtFinish == Spec => []UsageWithFinish
<1>1. DoneInv => UsageWithFinish
  BY DEF DoneInv, Stage, BeforeDone, AfterDone, Closing, UsageWithFinish,
     UsageAccounted
<1>2. QED
  BY <1>1, DoneInvariance, PTL

\* Nothing follows the done chunk of an orderly stream.
THEOREM DoneEndsStream == Spec => []DoneIsFinal
<1>1. DoneInv => DoneIsFinal
  BY DEF DoneInv, BeforeDone, AfterDone, NoDone, DoneIsFinal
<1>2. QED
  BY <1>1, DoneInvariance, PTL

-----------------------------------------------------------------------------
(* Refinement of StreamContract *)

\* A goroutine that has sent nothing maps to the contract's initial state.
LEMMA InitMaps == Init => Contract!Init
BY DEF Init, Contract!Init

\* Sending a chunk is an emission: no error is recorded yet and Err is open.
LEMMA SendChunkMaps == IInv /\ SendChunk => Contract!Emit
<1>1. SUFFICES ASSUME IInv, SendChunk PROVE Contract!Emit
  OBVIOUS
<1>2. Head(pending) \in Chunk
  BY <1>1, HeadTailProperties DEF SendChunk, IInv, TypeOK, Unwinding
<1>3. errCause = "none" /\ errClosed = FALSE
  BY <1>1 DEF SendChunk, IInv, TypeOK, Unwinding, Closing
<1>4. sent' = Append(sent, Head(pending))
      /\ UNCHANGED <<errCause, errClosed, got, outcome, consumer>>
  BY <1>1 DEF SendChunk
<1>5. QED
  BY <1>2, <1>3, <1>4 DEF Contract!Emit

\* Recording an error stops the emission with a failure.
LEMMA RecordErrorMaps ==
  ASSUME IInv, NEW cause \in ErrCause \ {"none"}, RecordError(cause)
  PROVE  Contract!Stop
<1>1. errCause = "none" /\ errClosed = FALSE
  BY DEF RecordError, IInv, TypeOK, Unwinding, Closing
<1>2. errCause' # "none" /\ UNCHANGED <<sent, got, outcome, consumer>>
  BY DEF RecordError
<1>3. QED
  BY <1>1, <1>2 DEF Contract!Stop

\* Closing Err without an error ends the emission; after one it changes
\* nothing the caller can see.
LEMMA CloseErrMaps == IInv /\ CloseErr => Contract!Stop \/ UNCHANGED Contract!vars
<1>1. SUFFICES ASSUME IInv, CloseErr
               PROVE  Contract!Stop \/ UNCHANGED Contract!vars
  OBVIOUS
<1>2. errClosed = FALSE /\ errClosed' = TRUE
      /\ UNCHANGED <<errCause, sent, got, outcome, consumer>>
  BY <1>1 DEF CloseErr, IInv, TypeOK, Unwinding
<1>3. QED
  BY <1>2 DEF Contract!Stop, Contract!vars

\* The chunk at the head of the channel is the first one not yet delivered.
LEMMA NextToDeliver ==
  ASSUME IInv, chunks # <<>>
  PROVE  /\ Len(got) < Len(sent)
         /\ sent[Len(got) + 1] = Head(chunks)
         /\ Head(chunks) \in Chunk
<1>1. /\ chunks \in Seq(Chunk) /\ got \in Seq(Chunk)
      /\ sent = got \o chunks
  BY DEF IInv, TypeOK, InOrder
<1>2. Len(chunks) \in Nat /\ Len(chunks) > 0 /\ Len(got) \in Nat
  BY <1>1, EmptySeq, LenProperties
<1>3. /\ Len(sent) = Len(got) + Len(chunks)
      /\ sent[Len(got) + 1] = chunks[1]
  BY <1>1, <1>2, ConcatProperties
<1>4. QED
  BY <1>1, <1>2, <1>3, HeadTailProperties

\* Accepting a chunk delivers it, with a result only for the done chunk.
LEMMA AcceptMaps ==
  ASSUME IInv, chunks # <<>>, Accept(Head(chunks)), outcome = "none",
         UNCHANGED <<sent, errCause, errClosed, consumer>>
  PROVE  Contract!Deliver
<1>1. /\ got' = Append(got, Head(chunks))
      /\ outcome' = outcome \/ (Head(chunks).type = "done" /\ outcome' = "done")
  BY DEF Accept, Return
<1>2. QED
  BY <1>1, NextToDeliver DEF Contract!Deliver

\* The end of the stream is reported when Err was closed without an error
\* and every chunk has been taken.
LEMMA EndMaps ==
  ASSUME IInv, errClosed, errCause = "none", chunks = <<>>,
         outcome = "none", Return("eof"),
         UNCHANGED <<sent, got, errCause, errClosed, consumer>>
  PROVE  Contract!Finish
<1>1. got = sent
  BY ConcatEmptySeq DEF IInv, TypeOK, InOrder
<1>2. QED
  BY <1>1 DEF Contract!Finish, Return

\* Collect goes on to drain the channel; writeSSE reports the error.
LEMMA FailMaps ==
  ASSUME IInv, errCause # "none", outcome = "none", Fail,
         UNCHANGED <<sent, errCause, errClosed, consumer>>
  PROVE  Contract!Finish \/ UNCHANGED Contract!vars
<1>1. CASE consumer = "collect"
  BY <1>1 DEF Fail, Contract!vars
<1>2. CASE consumer # "collect"
  BY <1>2 DEF Fail, Return, Contract!Finish
<1>3. QED
  BY <1>1, <1>2

\* Every step of a consumer is a delivery, a result or invisible.
LEMMA ConsumerMaps ==
  ASSUME IInv, Consumer
  PROVE  [Contract!Next]_(Contract!vars)
<1> USE DEF Contract!Next, Contract!vars
<1>2. cpc # "returned" => outcome = "none"
  BY DEF IInv, Learnt
<1>3. CASE CheckCtx
  BY <1>2, <1>3 DEF CheckCtx, Return, Contract!Finish
<1>4. CASE RecvChunk
  BY <1>2, <1>4, AcceptMaps DEF RecvChunk
<1>5. CASE RecvChunksClosed \/ RecvErrClosed
  BY <1>5 DEF RecvChunksClosed, RecvErrClosed
<1>6. CASE RecvError
  <2>1. errCause # "none" /\ outcome = "none"
    BY <1>2, <1>6 DEF RecvError, IInv, Unwinding
  <2>2. Fail /\ UNCHANGED <<sent, errCause, errClosed, consumer>>
    BY <1>6 DEF RecvError
  <2>3. QED
    BY <2>1, <2>2, FailMaps
<1>7. CASE RecvLastErr
  <2>1. CASE errPending
    <3>1. errCause # "none" /\ outcome = "none"
      BY <1>2, <1>7, <2>1 DEF RecvLastErr, IInv, Unwinding
    <3>2. Fail /\ UNCHANGED <<sent, errCause, errClosed, consumer>>
      BY <1>7, <2>1 DEF RecvLastErr, EndOfChunks
    <3>3. QED
      BY <3>1, <3>2, FailMaps
  <2>2. CASE ~errPending
    <3>1. errClosed /\ errCause = "none" /\ chunks = <<>>
      BY <1>7, <2>2 DEF RecvLastErr, IInv, Learnt, Unwinding, ErrorAccounted
    <3>2. /\ Return("eof")
          /\ UNCHANGED <<sent, got, errCause, errClosed, consumer>>
      BY <1>7, <2>2 DEF RecvLastErr, EndOfChunks
    <3>3. QED
      BY <1>2, <1>7, <3>1, <3>2, EndMaps DEF RecvLastErr
  <2>3. QED
    BY <2>1, <2>2
<1>8. CASE RecvLastChunks
  <2>1. errClosed /\ errCause = "none" /\ outcome = "none"
    BY <1>2, <1>8 DEF RecvLastChunks, IInv, Learnt
  <2>2. UNCHANGED <<sent, errCause, errClosed, consumer>>
    BY <1>8 DEF RecvLastChunks
  <2>3. CASE chunks # <<>> /\ Accept(Head(chunks))
    BY <2>1, <2>2, <2>3, AcceptMaps
  <2>4. CASE chunks = <<>> /\ Return("eof") /\ UNCHANGED got
    BY <2>1, <2>2, <2>4, EndMaps
  <2>5. QED
    BY <1>8, <2>3, <2>4 DEF RecvLastChunks
<1>9. CASE Drain
  <2>1. errCause # "none" /\ outcome = "none"
    BY <1>2, <1>9 DEF Drain, IInv, ErrorAccounted
  <2>2. UNCHANGED <<sent, errCause, errClosed, consumer>>
    BY <1>9 DEF Drain
  <2>3. CASE chunks # <<>>
    BY <1>9, <2>1, <2>2, <2>3, NextToDeliver DEF Drain, Contract!Deliver
  <2>4. CASE chunks = <<>>
    <3>1. got = sent
      BY <2>4, ConcatEmptySeq DEF IInv, TypeOK, InOrder
    <3>2. QED
      BY <1>9, <2>1, <2>2, <2>4, <3>1 DEF Drain, Return, Contract!Finish
  <2>5. QED
    BY <2>3, <2>4
<1>10. QED
  BY <1>3, <1>4, <1>5, <1>6, <1>7, <1>8, <1>9 DEF Consumer

\* Every step of the producer is an emission, its end or invisible.
LEMMA ProducerMaps ==
  ASSUME IInv, Producer
  PROVE  [Contract!Next]_(Contract!vars)
<1> USE DEF Contract!Next, Contract!vars
<1>1. CASE SendChunk
  BY <1>1, SendChunkMaps
<1>2. CASE ReadFailure \/ ReadInterrupted
  BY <1>2, RecordErrorMaps DEF ReadFailure, ReadInterrupted, ErrCause
<1>3. CASE CloseErr
  BY <1>3, CloseErrMaps
<1>4. CASE ReadEvent \/ ReadMarker \/ ReadEOF \/ Finish
  BY <1>4 DEF ReadEvent, ReadMarker, ReadEOF, Finish
<1>5. CASE CloseChunks \/ CloseBody
  BY <1>5 DEF CloseChunks, CloseBody
<1>6. QED
  BY <1>1, <1>2, <1>3, <1>4, <1>5 DEF Producer

\* A step of the implementation is a step of the contract or a stutter.
LEMMA NextMaps == IInv /\ [Next]_vars => [Contract!Next]_(Contract!vars)
<1>1. SUFFICES ASSUME IInv, [Next]_vars PROVE [Contract!Next]_(Contract!vars)
  OBVIOUS
<1>2. CASE Producer
  BY <1>1, <1>2, ProducerMaps
<1>3. CASE Consumer
  BY <1>1, <1>3, ConsumerMaps
<1>4. CASE Cancel \/ TimeoutElapses \/ UNCHANGED vars
  BY <1>4 DEF Cancel, TimeoutElapses, vars, Contract!vars
<1>5. QED
  BY <1>1, <1>2, <1>3, <1>4 DEF Next

\* Collect and writeSSE implement the contract of a stream (Stream.Collect,
\* Recv and writeSSE).
THEOREM ReadersImplementContract == Spec => ContractHonoured
BY InitMaps, NextMaps, Invariance, PTL
   DEF Spec, ContractHonoured, Contract!Spec

=============================================================================
