------------------------------ MODULE Transport ------------------------------
(***************************************************************************)
(* One HTTP call through the transport stack of llm/internal/httpclient:   *)
(* DoJSON or DoSSERequest arms a watchdog (withHardCancel) and calls       *)
(* http.Client.Do, whose RoundTripper is RetryTransport; every attempt is  *)
(* a roundTripWithTimeout, with a timer and a watchdog of its own when a   *)
(* per-attempt timeout is set.  Below it is net/http's connection pool,    *)
(* which other requests share.                                             *)
(*                                                                         *)
(* A watchdog is a goroutine: it starts some time after it was created,    *)
(* and looks at the contexts and at its release only when it reaches its   *)
(* select.  Once it is parked there, the close of one of the two channels  *)
(* decides its branch at once, and it acts on it later; when both are      *)
(* closed before it gets there, the runtime picks either.                  *)
(* Statuses are abstracted to "ok" (anything not retried), "busy" (429)    *)
(* and "down" (500, 502, 503, 504, 529).  HTTP/2 connections, which a      *)
(* watchdog leaves alone, are not considered.                              *)
(***************************************************************************)
EXTENDS Naturals, Sequences

CONSTANTS
  Conns,          \* connections; enough for every attempt and for the others
  None,           \* no connection
  MaxRetries,
  Retrying,       \* not RetryConfig.Disabled, and MaxRetries is positive
  PerAttempt,     \* a per-attempt timeout is configured
  InitialBackoff,
  MaxBackoff,
  RetryAfters,    \* what parseRetryAfter may return for a 429; 0 is no header
  EmptyOn         \* statuses whose responses have no body

Status == {"ok", "busy", "down"}

ASSUME TransportAssumption ==
  /\ None \notin Conns
  /\ MaxRetries \in Nat
  /\ Retrying \in BOOLEAN /\ PerAttempt \in BOOLEAN
  /\ Retrying <=> MaxRetries > 0
  /\ InitialBackoff \in Nat \ {0} /\ MaxBackoff \in Nat \ {0}
  /\ RetryAfters \subseteq Nat /\ RetryAfters # {}
  /\ EmptyOn \subseteq Status

VARIABLES
  pc,          \* where the calling goroutine is
  attempt,     \* the loop variable of RoundTrip
  backoff,
  events,      \* history: the RetryEvents OnRetry was given
  phase,       \* what the attempt is doing inside net/http
  conn,        \* the attempt's connection
  answer,      \* what the attempt, and in the end the call, returned
  body,        \* the body of the attempt's response
  timer,       \* the attempt's timer
  attemptDone, \* the attempt's own context has been cancelled
  watch,       \* per attempt: its watchdog
  watched,     \* per attempt: the connection its watchdog captured
  outer,       \* the watchdog of DoJSON or DoSSERequest
  outerConn,   \* the connection it captured
  owner,       \* who has each connection
  canceled,    \* the caller's context is done
  expired      \* http.Client.Timeout, the RequestTimeout, has elapsed

loopVars  == <<attempt, backoff, events>>
tripVars  == <<phase, conn, answer, body>>
timerVars == <<timer, attemptDone>>
watchVars == <<watch, watched, outer, outerConn>>
ctxVars   == <<canceled, expired>>
vars == <<pc, loopVars, tripVars, timerVars, watchVars, owner, ctxVars>>

Attempts == 0 .. MaxRetries

\* The context client.Do gives the request, and the attempt's, derived from it.
CtxDone        == canceled \/ expired
AttemptCtxDone == CtxDone \/ attemptDone

Init ==
  /\ pc = "top"
  /\ attempt = 0 /\ backoff = InitialBackoff /\ events = <<>>
  /\ phase = "none" /\ conn = None /\ answer = "none" /\ body = "none"
  /\ timer = "off" /\ attemptDone = FALSE
  /\ watch = [a \in Attempts |-> "off"] /\ watched = [a \in Attempts |-> None]
  /\ outer = "starting" /\ outerConn = None
  /\ owner = [c \in Conns |-> "free"]
  /\ canceled = FALSE /\ expired = FALSE

-----------------------------------------------------------------------------
(* Watchdogs *)

\* The context of a watchdog is done, or the watchdog is released: a parked
\* goroutine is committed to that branch, one that has not reached its select
\* will find the channel closed, any other is past it.
Fire(w)    == IF w = "parked" THEN "firing" ELSE w
Release(w) ==
  CASE w = "parked"   -> "gone"
    [] w = "starting" -> "released"
    [] OTHER          -> w

FireAttempt    == [watch EXCEPT ![attempt] = Fire(@)]
ReleaseAttempt == [watch EXCEPT ![attempt] = Release(@)]

\* hardCloseConn, whoever has the connection by now.
Closed(c) == IF c = None THEN owner ELSE [owner EXCEPT ![c] = "closed"]

\* The context the watchdog of attempt a follows is done: an earlier attempt
\* ended with its context.
WatchedDone(a) == a < attempt \/ AttemptCtxDone

\* The goroutine reaches its select, which finds it neither released nor, if it
\* parks, its context done.
Reached(done) == IF done THEN "firing" ELSE "parked"

WatchdogParks(a) ==
  /\ watch[a] = "starting"
  /\ watch' = [watch EXCEPT ![a] = Reached(WatchedDone(a))]
  /\ UNCHANGED <<pc, loopVars, tripVars, timerVars, watched, outer, outerConn,
                 owner, ctxVars>>

OuterWatchdogParks ==
  /\ outer = "starting"
  /\ outer' = Reached(canceled)
  /\ UNCHANGED <<pc, loopVars, tripVars, timerVars, watch, watched, outerConn,
                 owner, ctxVars>>

\* It closes what it captured: the context decided its select, or the context
\* was done as well when a watchdog that was released already got there.
WatchdogFires(a) ==
  /\ watch[a] = "firing" \/ (watch[a] = "released" /\ WatchedDone(a))
  /\ owner' = Closed(watched[a])
  /\ watch' = [watch EXCEPT ![a] = "gone"]
  /\ UNCHANGED <<pc, loopVars, tripVars, timerVars, watched, outer, outerConn,
                 ctxVars>>

OuterWatchdogFires ==
  /\ outer = "firing" \/ (outer = "released" /\ canceled)
  /\ owner' = Closed(outerConn)
  /\ outer' = "gone"
  /\ UNCHANGED <<pc, loopVars, tripVars, timerVars, watch, watched, outerConn,
                 ctxVars>>

\* It leaves: it was released before it got to its select.
WatchdogLeaves(a) ==
  /\ watch[a] = "released"
  /\ watch' = [watch EXCEPT ![a] = "gone"]
  /\ UNCHANGED <<pc, loopVars, tripVars, timerVars, watched, outer, outerConn,
                 owner, ctxVars>>

OuterWatchdogLeaves ==
  /\ outer = "released"
  /\ outer' = "gone"
  /\ UNCHANGED <<pc, loopVars, tripVars, timerVars, watch, watched, outerConn,
                 owner, ctxVars>>

WatchdogRuns(a)   == WatchdogParks(a) \/ WatchdogFires(a) \/ WatchdogLeaves(a)
OuterWatchdogRuns ==
  OuterWatchdogParks \/ OuterWatchdogFires \/ OuterWatchdogLeaves

-----------------------------------------------------------------------------
(* The loop of RetryTransport.RoundTrip, up to net/http *)

\* The loop looks at the context, and roundTripWithTimeout arms the timer and
\* starts the watchdog.  Without retries the request goes straight to it.
StartAttempt ==
  /\ pc = "top"
  /\ IF Retrying /\ CtxDone
     THEN /\ answer' = "ctx"
          /\ pc' = "did"
          /\ UNCHANGED <<phase, conn, body, timerVars, watch>>
     ELSE /\ pc' = "flight"
          /\ phase' = "dial" /\ conn' = None /\ body' = "none"
          /\ answer' = "none"
          /\ timer' = IF PerAttempt THEN "armed" ELSE "off"
          /\ attemptDone' = FALSE
          /\ watch' = [watch EXCEPT ![attempt] =
                         IF PerAttempt THEN "starting" ELSE "off"]
  /\ UNCHANGED <<loopVars, watched, outer, outerConn, owner, ctxVars>>

\* mutant: the hook does not look at the contexts
CaptureOnly(c) ==
  /\ owner' = [owner EXCEPT ![c] = "call"]
  /\ outerConn' = c
  /\ watched' = IF PerAttempt THEN [watched EXCEPT ![attempt] = c] ELSE watched

\* The GotConn hooks of both watchdogs: capture the connection, and close it
\* if the watchdog's context is done already.
Capture(c) ==
  /\ owner' = [owner EXCEPT ![c] =
                 IF canceled \/ (PerAttempt /\ AttemptCtxDone)
                 THEN "closed" ELSE "call"]
  /\ outerConn' = c
  /\ watched' = IF PerAttempt THEN [watched EXCEPT ![attempt] = c] ELSE watched

\* The pool gives the attempt a connection, new or reused, even though its
\* context may be done by now.
GotConn ==
  /\ pc = "flight" /\ phase = "dial"
  /\ \E c \in Conns : owner[c] = "free" /\ conn' = c /\ Capture(c)
  /\ phase' = "write"
  /\ UNCHANGED <<pc, loopVars, answer, body, timerVars, watch, outer, ctxVars>>

\* The request is written, or the write blocks because the peer never reads.
WriteRequest ==
  /\ pc = "flight" /\ phase = "write" /\ owner[conn] = "call"
  /\ phase' \in {"await", "blocked"}
  /\ UNCHANGED <<pc, loopVars, conn, answer, body, timerVars, watchVars, owner,
                 ctxVars>>

\* Headers arrive.  The connection of a response without a body is free
\* before the response is delivered.
Respond ==
  /\ pc = "flight" /\ phase = "await" /\ owner[conn] = "call"
  /\ answer' \in Status
  /\ IF answer' \in EmptyOn
     THEN body' = "empty" /\ owner' = [owner EXCEPT ![conn] = "free"]
     ELSE body' = "open" /\ UNCHANGED owner
  /\ pc' = "stop"
  /\ UNCHANGED <<loopVars, phase, conn, timerVars, watchVars, ctxVars>>

\* inner.RoundTrip returns an error, and c becomes of the connection.
TripFails(c) ==
  /\ pc = "flight"
  /\ answer' = "error"
  /\ owner' = IF conn = None THEN owner ELSE [owner EXCEPT ![conn] = c]
  /\ pc' = "stop"
  /\ UNCHANGED <<loopVars, phase, conn, body, timerVars, watchVars, ctxVars>>

\* A network error, at any moment.
NetworkFails == TripFails("closed")

\* The connection was closed under the attempt.
ConnClosed == conn # None /\ owner[conn] = "closed" /\ TripFails("closed")

\* The attempt's context is done.  net/http returns, but does not reliably
\* interrupt a blocked write: the connection stays open.
TripInterrupted ==
  /\ AttemptCtxDone
  /\ TripFails(IF phase = "blocked" /\ owner[conn] = "call"
               THEN "stuck" ELSE "closed")

TimerFires ==
  /\ timer = "armed"
  /\ timer' = "fired"
  /\ UNCHANGED <<pc, loopVars, tripVars, attemptDone, watchVars, owner, ctxVars>>

\* mutant: the elapsed timer does not cancel the attempt
TimerIgnored == timer = "fired" /\ UNCHANGED vars

\* The timer's goroutine calls cancel.
TimerCancels ==
  /\ timer = "fired" /\ ~attemptDone
  /\ attemptDone' = TRUE
  /\ watch' = FireAttempt
  /\ UNCHANGED <<pc, loopVars, tripVars, timer, watched, outer, outerConn,
                 owner, ctxVars>>

-----------------------------------------------------------------------------
(* The rest of roundTripWithTimeout, once inner.RoundTrip has returned *)

\* Closing a body that was not read to its end closes the connection.
Discarded == IF body = "open" THEN Closed(conn) ELSE owner

\* mutant: a timer that fired as the headers arrived is not noticed
KeepDoomed ==
  /\ watch' = ReleaseAttempt
  /\ UNCHANGED <<answer, body, attemptDone, owner>>

\* cancel(), then release().
CancelAttempt == [watch EXCEPT ![attempt] = Release(Fire(@))]

\* The timer fired just as the headers arrived: the response is discarded.
TimedOutResponse ==
  /\ owner' = Discarded
  /\ body' = "closed"
  /\ attemptDone' = TRUE
  /\ watch' = CancelAttempt
  /\ answer' = IF CtxDone THEN "ctx" ELSE "timeout"

StopTimer ==
  /\ pc = "stop"
  /\ pc' = "decide"
  /\ timer' = "off"
  /\ \/ /\ ~PerAttempt
        /\ UNCHANGED <<answer, body, attemptDone, watch, owner>>
     \/ /\ PerAttempt /\ answer = "error"
        /\ attemptDone' = TRUE
        /\ watch' = CancelAttempt
        /\ answer' = IF timer = "fired" /\ ~CtxDone THEN "timeout" ELSE "error"
        /\ UNCHANGED <<body, owner>>
     \/ /\ PerAttempt /\ answer \in Status /\ timer = "fired"
        /\ TimedOutResponse
     \/ /\ PerAttempt /\ answer \in Status /\ timer # "fired"
        /\ watch' = ReleaseAttempt
        /\ UNCHANGED <<answer, body, attemptDone, owner>>
  /\ UNCHANGED <<loopVars, phase, conn, watched, outer, outerConn, ctxVars>>

-----------------------------------------------------------------------------
(* The rest of the loop's body *)

\* The response of a failed attempt is closed, which releases its context.
BodyKept == UNCHANGED <<body, owner, attemptDone>>   \* mutant: it is not
CloseFailed ==
  /\ owner' = Discarded
  /\ body' = IF body = "none" THEN "none" ELSE "closed"
  /\ attemptDone' = (attemptDone \/ (PerAttempt /\ body # "none"))

\* A Retry-After replaces the backoff, for a 429 only.
WaitAfter(retryAfter) ==
  IF answer = "busy" /\ retryAfter > 0 THEN retryAfter ELSE backoff

OneTooMany  == attempt = MaxRetries - 1   \* mutant: the budget is off by one
LastAttempt == attempt = MaxRetries

Report(w) == events' = Append(events, [attempt |-> attempt + 1, wait |-> w])

\* An attempt that succeeded, or the only one, is returned as it is.
Succeed ==
  /\ pc = "decide"
  /\ ~Retrying \/ answer = "ok"
  /\ pc' = "did"
  /\ UNCHANGED <<loopVars, tripVars, timerVars, watchVars, owner, ctxVars>>

GiveUp ==
  /\ pc = "decide"
  /\ Retrying /\ answer # "ok" /\ LastAttempt
  /\ CloseFailed
  /\ pc' = "did"
  /\ UNCHANGED <<loopVars, phase, conn, answer, timer, watchVars, ctxVars>>

PlanRetry ==
  /\ pc = "decide"
  /\ Retrying /\ answer # "ok" /\ ~LastAttempt
  /\ CloseFailed
  /\ \E ra \in RetryAfters : Report(WaitAfter(ra))
  /\ pc' = "sleep"
  /\ UNCHANGED <<attempt, backoff, phase, conn, answer, timer, watchVars,
                 ctxVars>>

CapDuration(d) == IF d > MaxBackoff THEN MaxBackoff ELSE d

Wake ==
  /\ pc = "sleep"
  /\ backoff' = CapDuration(2 * backoff)
  /\ attempt' = attempt + 1
  /\ pc' = "top"
  /\ UNCHANGED <<events, tripVars, timerVars, watchVars, owner, ctxVars>>

SleepThrough == FALSE /\ UNCHANGED vars   \* mutant: the wait ignores the context

SleepInterrupted ==
  /\ pc = "sleep"
  /\ CtxDone
  /\ answer' = "ctx"
  /\ pc' = "did"
  /\ UNCHANGED <<loopVars, phase, conn, body, timerVars, watchVars, owner,
                 ctxVars>>

-----------------------------------------------------------------------------
(* DoJSON and DoSSERequest, once client.Do has returned *)

\* mutant: the watchdog is released by a defer, after the body is read
ReleaseLate ==
  IF answer \in Status /\ body \in {"open", "empty"}
  THEN pc' = "read" /\ UNCHANGED outer
  ELSE pc' = "returned" /\ outer' = Release(outer)

ReleaseOuter ==
  /\ outer' = Release(outer)
  /\ pc' = IF answer \in Status /\ body \in {"open", "empty"}
           THEN "read" ELSE "returned"

DoReturned ==
  /\ pc = "did"
  /\ ReleaseOuter
  /\ UNCHANGED <<loopVars, tripVars, timerVars, watch, watched, outerConn,
                 owner, ctxVars>>

\* The body is closed, which cancels the attempt's context, and c becomes of
\* its connection.
CloseBody(c) ==
  /\ pc = "read"
  /\ owner' = [owner EXCEPT ![conn] = IF @ = "call" THEN c ELSE @]
  /\ body' = "closed"
  /\ attemptDone' = (attemptDone \/ PerAttempt)
  /\ pc' = "returned"
  /\ UNCHANGED <<loopVars, phase, conn, answer, timer, watchVars, ctxVars>>

\* Read to its end: the connection goes back to the pool.
ReadToEnd == ~AttemptCtxDone /\ CloseBody("free")

\* The read fails, or stops short of the end of an error body.
ReadCut == CloseBody("closed")

ReadInterrupted ==
  /\ pc = "read"
  /\ AttemptCtxDone \/ body = "empty" \/ owner[conn] = "closed"
  /\ ReadCut

-----------------------------------------------------------------------------
(* The environment *)

\* The caller cancels, or its deadline passes.
Cancel ==
  /\ ~canceled
  /\ canceled' = TRUE
  /\ outer' = Fire(outer)
  /\ watch' = FireAttempt
  /\ UNCHANGED <<pc, loopVars, tripVars, timerVars, watched, outerConn, owner,
                 expired>>

\* RequestTimeout bounds the context client.Do derives, which the watchdog of
\* DoJSON does not see.
Expire ==
  /\ ~expired /\ pc # "returned"
  /\ expired' = TRUE
  /\ watch' = FireAttempt
  /\ UNCHANGED <<pc, loopVars, tripVars, timerVars, watched, outer, outerConn,
                 owner, canceled>>

\* Another request of the same client takes a connection and gives it back.
OtherTakes ==
  /\ \E c \in Conns : owner[c] = "free" /\ owner' = [owner EXCEPT ![c] = "other"]
  /\ UNCHANGED <<pc, loopVars, tripVars, timerVars, watchVars, ctxVars>>

OtherReturns ==
  /\ \E c \in Conns : owner[c] = "other" /\ owner' = [owner EXCEPT ![c] = "free"]
  /\ UNCHANGED <<pc, loopVars, tripVars, timerVars, watchVars, ctxVars>>

Loop ==
  \/ StartAttempt \/ StopTimer
  \/ Succeed \/ GiveUp \/ PlanRetry
  \/ DoReturned
Network  == GotConn \/ WriteRequest \/ Respond \/ NetworkFails \/ Wake
Reading  == ReadToEnd \/ ReadCut
Aborting == ConnClosed \/ TripInterrupted \/ SleepInterrupted \/ ReadInterrupted
Watchdogs == OuterWatchdogRuns \/ \E a \in Attempts : WatchdogRuns(a)

Next ==
  \/ Loop \/ Network \/ Reading \/ Aborting \/ Watchdogs
  \/ TimerFires \/ TimerCancels
  \/ Cancel \/ Expire \/ OtherTakes \/ OtherReturns

Spec == Init /\ [][Next]_vars

\* The library's goroutines are scheduled, and net/http notices a context
\* that is done and a connection that is closed.  The network need not do
\* anything, nor need a wait end.
PromptSpec ==
  Spec /\ WF_vars(Loop) /\ WF_vars(Aborting)
       /\ WF_vars(OuterWatchdogRuns)
       /\ \A a \in Attempts : WF_vars(WatchdogRuns(a))

\* Timers run: those of attempts and those of waits.
TimersRun == WF_vars(TimerFires) /\ WF_vars(TimerCancels) /\ WF_vars(Wake)

-----------------------------------------------------------------------------
(* Properties *)

Stage == {"top", "flight", "stop", "decide", "sleep", "did", "read",
          "returned"}
Answer == Status \cup {"none", "error", "timeout", "ctx"}

\* Watchdogs nothing has released yet, and every state of one.
Armed    == {"starting", "parked"}
Watchdog == Armed \cup {"off", "firing", "released", "gone"}

\* Every variable holds a value of its type, and the backoff is never longer
\* than the longer of the two configured durations.
TypeOK ==
  /\ pc \in Stage
  /\ attempt \in Attempts
  /\ backoff \in Nat \ {0}
  /\ backoff <= InitialBackoff \/ backoff <= MaxBackoff
  /\ events \in Seq([attempt : Nat, wait : Nat])
  /\ phase \in {"none", "dial", "write", "await", "blocked"}
  /\ conn \in Conns \cup {None}
  /\ answer \in Answer
  /\ body \in {"none", "open", "empty", "closed"}
  /\ timer \in {"off", "armed", "fired"}
  /\ attemptDone \in BOOLEAN
  /\ watch \in [Attempts -> Watchdog]
  /\ watched \in [Attempts -> Conns \cup {None}]
  /\ outer \in Watchdog
  /\ outerConn \in Conns \cup {None}
  /\ owner \in [Conns -> {"free", "call", "stuck", "other", "closed"}]
  /\ canceled \in BOOLEAN /\ expired \in BOOLEAN

\* A response handed to the caller can be read: as long as the call's own
\* context is live, neither the timer of the attempt nor any watchdog takes
\* its context or its connection away (types.go: for streaming requests the
\* per-attempt timeout "bounds only the time to receive response headers").
BodyUsable ==
  pc \in {"did", "read"} /\ answer \in Status /\ body = "open" /\ ~CtxDone =>
    /\ ~attemptDone
    /\ owner[conn] = "call"
    /\ \A a \in Attempts : watch[a] \in Armed => watched[a] # conn

\* A retry abandons no response: at any time the call holds at most the
\* connection of its current attempt.
OneConnection == \A c \in Conns : owner[c] = "call" => c = conn

\* A call that has returned leaves nothing running: no timer, no watchdog that
\* was not released, no open body, no context of an attempt that was not
\* cancelled, no connection it holds.
NothingLeftBehind ==
  pc = "returned" =>
    /\ timer = "off"
    /\ outer \notin Armed /\ \A a \in Attempts : watch[a] \notin Armed
    /\ body # "open"
    /\ PerAttempt /\ phase # "none" => attemptDone
    /\ \A c \in Conns : owner[c] # "call"

\* A watchdog that was released before it reached its select closes c.
OvertakenCloses(c) ==
  \/ outer = "released" /\ outer' # outer /\ outerConn = c
  \/ \E a \in Attempts :
       watch[a] = "released" /\ watch'[a] # watch[a] /\ watched[a] = c

NoneOvertaken == [](\A a \in Attempts : watch[a] # "released")

EventsInOrder ==
  /\ \A i \in DOMAIN events : events[i].attempt = i
  /\ Len(events) = attempt + (IF pc = "sleep" THEN 1 ELSE 0)
       \/ (pc \in {"did", "returned"} /\ answer = "ctx")

\* OnRetry is told of the failed attempts in order, each once (types.go: it is
\* "invoked once per retry attempt that just failed"), and a call only fails
\* while its context is live once the whole budget is spent and OnRetry was told
\* of every failure but the last.
BudgetSpent ==
  /\ EventsInOrder
  /\ pc = "returned" /\ Retrying /\ ~CtxDone /\ answer # "ok" =>
       attempt = MaxRetries /\ Len(events) = MaxRetries

\* No watchdog closes a connection that another request is using
\* (httpclient.go: release prevents force-closing "a connection already
\* reassigned to another request"), except one that release() overtook on its
\* way to its select: with its context done by then, it may still choose to
\* close, and the code has nothing against that.
NoForeignClose ==
  [][\A c \in Conns :
       owner[c] = "other" /\ owner'[c] = "closed" => OvertakenCloses(c)]_vars

\* With a per-attempt timeout, a connection on which a write is stuck is closed
\* in the end, whether the attempt's timer, the request timeout or the caller
\* ended the attempt, as long as each attempt's watchdog reaches its select
\* before its attempt returns.  (Without a per-attempt timeout the request
\* timeout leaves it open: the only watchdog follows the caller's context.)
StuckFreed ==
  PerAttempt /\ NoneOvertaken /\ TimersRun =>
    \A c \in Conns : owner[c] = "stuck" ~> owner[c] = "closed"

\* With a per-attempt timeout, a call whose upstream stalls before the headers,
\* or never reads the request, gets its headers or fails.
HeadersBounded == TimersRun => <>(pc \in {"did", "read", "returned"})

\* Cancelling the context ends the call wherever it is, backoff included.
CancelEnds == canceled ~> pc = "returned"

-----------------------------------------------------------------------------
(* Inductive invariants behind the safety properties *)

Inside  == {"flight", "stop"}               \* in roundTripWithTimeout
Holding == {"stop", "decide", "did", "read"} \* a response may be open

\* Timers and watchdogs only wait inside the attempt or call they belong to,
\* and on a context that is live.
Waiting ==
  /\ timer # "off" => PerAttempt /\ pc \in Inside
  /\ outer = "parked" => ~canceled
  /\ outer \in Armed => pc \notin {"read", "returned"}
  /\ outer = "released" => pc \in {"read", "returned"}
  /\ outer = "firing" => canceled
  /\ \A a \in Attempts :
       /\ watch[a] = "parked" => ~AttemptCtxDone
       /\ watch[a] \in Armed => a = attempt /\ PerAttempt /\ pc \in Inside
       /\ watch[a] = "released" => a < attempt \/ pc \notin Inside
       /\ a > attempt \/ (a = attempt /\ pc = "top") =>
            watch[a] = "off" /\ watched[a] = None

\* The call holds a connection while its attempt is in flight on it and while
\* the body of its response is open.
Holds ==
  /\ \A c \in Conns : owner[c] = "call" =>
       /\ c = conn
       /\ (pc = "flight" /\ phase # "dial") \/ (pc \in Holding /\ body = "open")
  /\ pc = "flight" =>
       body = "none" /\ answer = "none" /\ phase # "none"
         /\ (phase # "dial" => conn \in Conns)
  /\ body \in {"open", "empty"} =>
       pc \in Holding /\ answer \in Status /\ conn \in Conns
  /\ pc = "read" => body \in {"open", "empty"}
  /\ answer = "none" => pc \in {"top", "flight"}
  /\ pc \in {"stop", "decide"} => answer # "none" /\ phase # "none"
  /\ answer \in Status /\ pc \in {"stop", "decide"} => body \in {"open", "empty", "closed"}
  /\ pc = "stop" => answer \in Status \cup {"error"} /\ body # "closed"
  /\ pc = "stop" /\ answer = "error" => body = "none"

\* The context of an attempt is cancelled when the attempt has no response
\* left to read; while the attempt runs, only its timer can do that.
ContextReleased ==
  /\ ~PerAttempt => ~attemptDone
  /\ pc \in Inside /\ attemptDone => timer = "fired"
  /\ PerAttempt /\ phase # "none" =>
       /\ pc \in {"top", "sleep", "returned"} => attemptDone
       /\ pc \in {"decide", "did"} /\ body \notin {"open", "empty"} => attemptDone

\* What the loop has spent of its budget.
Spent ==
  /\ pc = "sleep" => attempt < MaxRetries
  /\ answer = "ctx" => CtxDone
  /\ pc \in {"did", "read", "returned"} /\ Retrying /\ answer \notin {"ok", "ctx"} =>
       attempt = MaxRetries
  /\ EventsInOrder

TInv == TypeOK /\ Waiting /\ Holds /\ ContextReleased /\ Spent

\* When every response has a body, a connection that a watchdog nobody has
\* released may close is the call's own, or was closed or given up by an attempt
\* that failed, and so is the connection of every earlier attempt; the
\* connection of an open body is only taken away with the call's context.
Ruined == {"stuck", "closed"}

CallGuarded ==
  outer \in Armed \cup {"firing"} /\ outerConn # None =>
    owner[outerConn] \in Ruined \cup {"call"}

AttemptGuarded(a) ==
  /\ watch[a] = "firing" /\ a = attempt /\ pc \in Inside => AttemptCtxDone
  /\ watched[a] # None =>
       /\ watch[a] \in Armed \cup {"firing"} =>
            owner[watched[a]] \in Ruined \cup {"call"}
       /\ a < attempt \/ (a = attempt /\ pc = "sleep") =>
            owner[watched[a]] \in Ruined
       /\ watch[a] = "firing" /\ ~CtxDone =>
            owner[watched[a]] \in Ruined
              \/ (a = attempt /\ attemptDone /\ pc \in Inside)
       /\ a = attempt /\ pc \in Inside \cup {"decide"} =>
            /\ watched[a] = conn
            /\ pc # "flight" /\ body # "open" => owner[conn] \in Ruined
       /\ a = attempt /\ pc = "flight" => phase # "dial"

BodyGuarded ==
  /\ body # "empty"
  /\ pc = "flight" =>
       (phase = "dial" /\ conn = None) \/ owner[conn] \in Ruined \cup {"call"}
  /\ body = "open" => owner[conn] \in Ruined \cup {"call"}
  /\ body = "open" /\ ~CtxDone =>
       /\ pc # "stop" => ~attemptDone
       /\ ~attemptDone => owner[conn] = "call"

Guarded == CallGuarded /\ (\A a \in Attempts : AttemptGuarded(a)) /\ BodyGuarded

PoolInv == TInv /\ Guarded

=============================================================================
