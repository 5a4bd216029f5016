--------------------------- MODULE TransportProofs ---------------------------
(***************************************************************************)
(* The call of Transport cleans up after itself, for every value of the    *)
(* constants.  The inductive invariant is TInv: timers and watchdogs wait  *)
(* only inside the attempt they belong to (Waiting), a connection is held  *)
(* only in flight or under an open body (Holds), the attempt's context is  *)
(* released with its response (ContextReleased), and the loop's counters   *)
(* agree with the events it reported (Spent).  One lemma per action, one   *)
(* step per part.  PoolInv adds whose connection each watchdog may close.  *)
(***************************************************************************)
EXTENDS Transport, SequenceTheorems, TLAPS

USE DEF loopVars, tripVars, timerVars, watchVars, ctxVars,
        CtxDone, AttemptCtxDone, Armed, Watchdog, WatchedDone, Reached,
        CancelAttempt

\* An attempt starts with a timer, a watchdog and a context of its own.
LEMMA StartAttemptTInv == TInv /\ StartAttempt => TInv'
<1>1. SUFFICES ASSUME TInv, StartAttempt PROVE TInv'
  OBVIOUS
<1>2. TypeOK'
  <2>1. watch' \in [Attempts -> Watchdog]
    BY <1>1 DEF StartAttempt, TInv, TypeOK
  <2>2. /\ pc' \in Stage /\ answer' \in Answer /\ conn' \in Conns \cup {None}
        /\ phase' \in {"none", "dial", "write", "await", "blocked"}
        /\ body' \in {"none", "open", "empty", "closed"}
        /\ timer' \in {"off", "armed", "fired"} /\ attemptDone' \in BOOLEAN
    BY <1>1 DEF StartAttempt, TInv, TypeOK, Stage, Answer
  <2>3. UNCHANGED <<loopVars, watched, outer, outerConn, owner, ctxVars>>
    BY <1>1 DEF StartAttempt
  <2>4. QED
    BY <1>1, <2>1, <2>2, <2>3 DEF TInv, TypeOK
<1>3. Waiting'
  BY <1>1, TransportAssumption DEF StartAttempt, TInv, Waiting, TypeOK,
     Inside, Attempts
<1>4. Holds'
  BY <1>1, TransportAssumption DEF StartAttempt, TInv, Holds, TypeOK,
     Holding, Status, Answer
<1>5. ContextReleased'
  BY <1>1, TransportAssumption DEF StartAttempt, TInv, ContextReleased,
     TypeOK, Waiting, Holds, Inside, Holding, Status
<1>6. Spent'
  BY <1>1, TransportAssumption DEF StartAttempt, TInv, Spent, TypeOK,
     EventsInOrder, Attempts
<1>7. QED
  BY <1>2, <1>3, <1>4, <1>5, <1>6 DEF TInv

\* The attempt gets its connection, and both watchdogs capture it.
LEMMA GotConnTInv == TInv /\ GotConn => TInv'
<1>1. SUFFICES ASSUME TInv, GotConn PROVE TInv'
  OBVIOUS
<1>2. TypeOK'
  BY <1>1, TransportAssumption DEF GotConn, Capture, TInv, TypeOK, Stage,
     Answer, Status, Attempts
<1>3. Waiting'
  BY <1>1, TransportAssumption DEF GotConn, Capture, TInv, Waiting, TypeOK,
     Inside, Attempts
<1>4. Holds'
  BY <1>1, TransportAssumption DEF GotConn, Capture, TInv, Holds, TypeOK,
     Holding, Status, Answer
<1>5. ContextReleased'
  BY <1>1, TransportAssumption DEF GotConn, Capture, TInv, ContextReleased,
     TypeOK, Waiting, Holds, Inside, Holding, Status
<1>6. Spent'
  BY <1>1, TransportAssumption DEF GotConn, Capture, TInv, Spent, TypeOK,
     EventsInOrder, Attempts
<1>7. QED
  BY <1>2, <1>3, <1>4, <1>5, <1>6 DEF TInv

\* Writing moves the phase alone.
LEMMA WriteRequestTInv == TInv /\ WriteRequest => TInv'
<1>1. SUFFICES ASSUME TInv, WriteRequest PROVE TInv'
  OBVIOUS
<1>2. TypeOK'
  BY <1>1, TransportAssumption DEF WriteRequest, TInv, TypeOK, Stage, Answer,
     Status, Attempts
<1>3. Waiting'
  BY <1>1, TransportAssumption DEF WriteRequest, TInv, Waiting, TypeOK,
     Inside, Attempts
<1>4. Holds'
  BY <1>1, TransportAssumption DEF WriteRequest, TInv, Holds, TypeOK,
     Holding, Status, Answer
<1>5. ContextReleased'
  BY <1>1, TransportAssumption DEF WriteRequest, TInv, ContextReleased,
     TypeOK, Waiting, Holds, Inside, Holding, Status
<1>6. Spent'
  BY <1>1, TransportAssumption DEF WriteRequest, TInv, Spent, TypeOK,
     EventsInOrder, Attempts
<1>7. QED
  BY <1>2, <1>3, <1>4, <1>5, <1>6 DEF TInv

\* The headers arrive.
LEMMA RespondTInv == TInv /\ Respond => TInv'
<1>1. SUFFICES ASSUME TInv, Respond PROVE TInv'
  OBVIOUS
<1>2. TypeOK'
  <2>1. owner' \in [Conns -> {"free", "call", "stuck", "other", "closed"}]
    BY <1>1 DEF Respond, TInv, TypeOK
  <2>2. pc' \in Stage /\ answer' \in Answer /\ body' \in {"empty", "open"}
    BY <1>1 DEF Respond, Stage, Answer
  <2>3. UNCHANGED <<loopVars, phase, conn, timerVars, watchVars, ctxVars>>
    BY <1>1 DEF Respond
  <2>4. QED
    BY <1>1, <2>1, <2>2, <2>3 DEF TInv, TypeOK
<1>3. Waiting'
  BY <1>1, TransportAssumption DEF Respond, Status, TInv, Waiting, TypeOK,
     Inside, Attempts
<1>4. Holds'
  BY <1>1, TransportAssumption DEF Respond, Status, TInv, Holds, TypeOK,
     Holding, Answer
<1>5. ContextReleased'
  BY <1>1, TransportAssumption DEF Respond, Status, TInv, ContextReleased,
     TypeOK, Waiting, Holds, Inside, Holding
<1>6. Spent'
  BY <1>1, TransportAssumption DEF Respond, Status, TInv, Spent, TypeOK,
     EventsInOrder, Attempts
<1>7. QED
  BY <1>2, <1>3, <1>4, <1>5, <1>6 DEF TInv

\* The round trip fails on the network.
LEMMA NetworkFailsTInv == TInv /\ NetworkFails => TInv'
<1>1. SUFFICES ASSUME TInv, NetworkFails PROVE TInv'
  OBVIOUS
<1>2. TypeOK'
  BY <1>1, TransportAssumption DEF NetworkFails, TripFails, TInv, TypeOK,
     Stage, Answer, Status, Attempts
<1>3. Waiting'
  BY <1>1, TransportAssumption DEF NetworkFails, TripFails, TInv, Waiting,
     TypeOK, Inside, Attempts
<1>4. Holds'
  BY <1>1, TransportAssumption DEF NetworkFails, TripFails, TInv, Holds,
     TypeOK, Holding, Status, Answer
<1>5. ContextReleased'
  BY <1>1, TransportAssumption DEF NetworkFails, TripFails, TInv,
     ContextReleased, TypeOK, Waiting, Holds, Inside, Holding, Status
<1>6. Spent'
  BY <1>1, TransportAssumption DEF NetworkFails, TripFails, TInv, Spent,
     TypeOK, EventsInOrder, Attempts
<1>7. QED
  BY <1>2, <1>3, <1>4, <1>5, <1>6 DEF TInv

\* The round trip fails on a connection that was closed.
LEMMA ConnClosedTInv == TInv /\ ConnClosed => TInv'
<1>1. SUFFICES ASSUME TInv, ConnClosed PROVE TInv'
  OBVIOUS
<1>2. TypeOK'
  BY <1>1, TransportAssumption DEF ConnClosed, TripFails, TInv, TypeOK,
     Stage, Answer, Status, Attempts
<1>3. Waiting'
  BY <1>1, TransportAssumption DEF ConnClosed, TripFails, TInv, Waiting,
     TypeOK, Inside, Attempts
<1>4. Holds'
  BY <1>1, TransportAssumption DEF ConnClosed, TripFails, TInv, Holds,
     TypeOK, Holding, Status, Answer
<1>5. ContextReleased'
  BY <1>1, TransportAssumption DEF ConnClosed, TripFails, TInv,
     ContextReleased, TypeOK, Waiting, Holds, Inside, Holding, Status
<1>6. Spent'
  BY <1>1, TransportAssumption DEF ConnClosed, TripFails, TInv, Spent,
     TypeOK, EventsInOrder, Attempts
<1>7. QED
  BY <1>2, <1>3, <1>4, <1>5, <1>6 DEF TInv

\* The round trip ends with its context.
LEMMA TripInterruptedTInv == TInv /\ TripInterrupted => TInv'
<1>1. SUFFICES ASSUME TInv, TripInterrupted PROVE TInv'
  OBVIOUS
<1>2. TypeOK'
  BY <1>1, TransportAssumption DEF TripInterrupted, TripFails, TInv, TypeOK,
     Stage, Answer, Status, Attempts
<1>3. Waiting'
  BY <1>1, TransportAssumption DEF TripInterrupted, TripFails, TInv, Waiting,
     TypeOK, Inside, Attempts
<1>4. Holds'
  BY <1>1, TransportAssumption DEF TripInterrupted, TripFails, TInv, Holds,
     TypeOK, Holding, Status, Answer
<1>5. ContextReleased'
  BY <1>1, TransportAssumption DEF TripInterrupted, TripFails, TInv,
     ContextReleased, TypeOK, Waiting, Holds, Inside, Holding, Status
<1>6. Spent'
  BY <1>1, TransportAssumption DEF TripInterrupted, TripFails, TInv, Spent,
     TypeOK, EventsInOrder, Attempts
<1>7. QED
  BY <1>2, <1>3, <1>4, <1>5, <1>6 DEF TInv

\* The timer fires.
LEMMA TimerFiresTInv == TInv /\ TimerFires => TInv'
<1>1. SUFFICES ASSUME TInv, TimerFires PROVE TInv'
  OBVIOUS
<1>2. TypeOK'
  BY <1>1, TransportAssumption DEF TimerFires, TInv, TypeOK, Stage, Answer,
     Status, Attempts
<1>3. Waiting'
  BY <1>1, TransportAssumption DEF TimerFires, TInv, Waiting, TypeOK, Inside,
     Attempts
<1>4. Holds'
  BY <1>1, TransportAssumption DEF TimerFires, TInv, Holds, TypeOK, Holding,
     Status, Answer
<1>5. ContextReleased'
  BY <1>1, TransportAssumption DEF TimerFires, TInv, ContextReleased, TypeOK,
     Waiting, Holds, Inside, Holding, Status
<1>6. Spent'
  BY <1>1, TransportAssumption DEF TimerFires, TInv, Spent, TypeOK,
     EventsInOrder, Attempts
<1>7. QED
  BY <1>2, <1>3, <1>4, <1>5, <1>6 DEF TInv

\* The timer cancels the attempt's context, which fires its watchdog.
LEMMA TimerCancelsTInv == TInv /\ TimerCancels => TInv'
<1>1. SUFFICES ASSUME TInv, TimerCancels PROVE TInv'
  OBVIOUS
<1>2. TypeOK'
  BY <1>1, TransportAssumption DEF TimerCancels, FireAttempt, Fire, TInv,
     TypeOK, Stage, Answer, Status, Attempts
<1>3. Waiting'
  BY <1>1, TransportAssumption DEF TimerCancels, FireAttempt, Fire, TInv,
     Waiting, TypeOK, Inside, Attempts
<1>4. Holds'
  BY <1>1, TransportAssumption DEF TimerCancels, FireAttempt, Fire, TInv,
     Holds, TypeOK, Holding, Status, Answer
<1>5. ContextReleased'
  BY <1>1, TransportAssumption DEF TimerCancels, FireAttempt, Fire, TInv,
     ContextReleased, TypeOK, Waiting, Holds, Inside, Holding, Status
<1>6. Spent'
  BY <1>1, TransportAssumption DEF TimerCancels, FireAttempt, Fire, TInv,
     Spent, TypeOK, EventsInOrder, Attempts
<1>7. QED
  BY <1>2, <1>3, <1>4, <1>5, <1>6 DEF TInv

\* The attempt stops its timer and releases or fires its watchdog.
LEMMA StopTimerTInv == TInv /\ StopTimer => TInv'
<1>1. SUFFICES ASSUME TInv, StopTimer PROVE TInv'
  OBVIOUS
<1>2. TypeOK'
  <2>1. owner' \in [Conns -> {"free", "call", "stuck", "other", "closed"}]
    BY <1>1 DEF StopTimer, TimedOutResponse, Discarded, Closed, TInv, TypeOK
  <2>2. watch' \in [Attempts -> Watchdog]
    BY <1>1 DEF StopTimer, TimedOutResponse, ReleaseAttempt,
       Fire, Release, TInv, TypeOK
  <2>3. /\ answer' \in Answer
        /\ body' \in {"none", "open", "empty", "closed"}
        /\ attemptDone' \in BOOLEAN
    BY <1>1 DEF StopTimer, TimedOutResponse, TInv, TypeOK, Answer
  <2>4. QED
    BY <1>1, <2>1, <2>2, <2>3 DEF StopTimer, TInv, TypeOK, Stage
<1>3. Waiting'
  BY <1>1, TransportAssumption DEF StopTimer, TimedOutResponse,
     ReleaseAttempt, Fire, Release, Discarded, Closed, TInv, Waiting, TypeOK,
     Inside, Attempts
<1>4. Holds'
  <2>1. CASE ~PerAttempt
    BY <1>1, <2>1 DEF StopTimer, TInv, Holds, TypeOK, Holding, Status, Answer
  <2>2. CASE PerAttempt /\ answer = "error"
    BY <1>1, <2>2 DEF StopTimer, TInv, Holds, TypeOK, Holding, Status, Answer
  <2>3. CASE PerAttempt /\ answer \in Status /\ timer = "fired"
    <3>1. /\ pc = "stop" /\ pc' = "decide" /\ body' = "closed"
          /\ owner' = Discarded /\ answer' \in {"ctx", "timeout"}
          /\ UNCHANGED <<phase, conn>>
      BY <1>1, <2>3 DEF StopTimer, TimedOutResponse, Status
    <3>2. \A c \in Conns : owner'[c] # "call"
      <4>1. /\ owner \in [Conns -> {"free", "call", "stuck", "other", "closed"}]
            /\ \A c \in Conns : owner[c] = "call" => c = conn /\ body = "open"
        BY <1>1, <3>1 DEF TInv, TypeOK, Holds
      <4>2. CASE body = "open" /\ conn \in Conns
        <5>1. owner' = [owner EXCEPT ![conn] = "closed"]
          BY <3>1, <4>2, TransportAssumption DEF Discarded, Closed
        <5>2. QED
          BY <4>1, <5>1
      <4>3. CASE ~(body = "open" /\ conn \in Conns)
        <5>1. body # "open"
          BY <1>1, <4>3 DEF TInv, Holds
        <5>2. QED
          BY <3>1, <4>1, <5>1 DEF Discarded
      <4>4. QED
        BY <4>2, <4>3
    <3>3. QED
      BY <1>1, <3>1, <3>2 DEF TInv, Holds, Status
  <2>4. CASE PerAttempt /\ answer \in Status /\ timer # "fired"
    BY <1>1, <2>4 DEF StopTimer, TInv, Holds, TypeOK, Holding, Status, Answer
  <2>5. QED
    BY <1>1, <2>1, <2>2, <2>3, <2>4 DEF StopTimer
<1>5. ContextReleased'
  BY <1>1, TransportAssumption DEF StopTimer, TimedOutResponse,
     ReleaseAttempt, Fire, Release, Discarded, Closed, TInv, ContextReleased,
     TypeOK, Waiting, Holds, Inside, Holding, Status
<1>6. Spent'
  BY <1>1, TransportAssumption DEF StopTimer, TimedOutResponse,
     ReleaseAttempt, Fire, Release, Discarded, Closed, TInv, Spent, TypeOK,
     EventsInOrder, Attempts
<1>7. QED
  BY <1>2, <1>3, <1>4, <1>5, <1>6 DEF TInv

\* The attempt's result is returned.
LEMMA SucceedTInv == TInv /\ Succeed => TInv'
<1>1. SUFFICES ASSUME TInv, Succeed PROVE TInv'
  OBVIOUS
<1>2. TypeOK'
  BY <1>1, TransportAssumption DEF Succeed, TInv, TypeOK, Stage, Answer,
     Status, Attempts
<1>3. Waiting'
  BY <1>1, TransportAssumption DEF Succeed, TInv, Waiting, TypeOK, Inside,
     Attempts
<1>4. Holds'
  BY <1>1, TransportAssumption DEF Succeed, TInv, Holds, TypeOK, Holding,
     Status, Answer
<1>5. ContextReleased'
  BY <1>1, TransportAssumption DEF Succeed, TInv, ContextReleased, TypeOK,
     Waiting, Holds, Inside, Holding, Status
<1>6. Spent'
  BY <1>1, TransportAssumption DEF Succeed, TInv, Spent, TypeOK,
     EventsInOrder, Attempts
<1>7. QED
  BY <1>2, <1>3, <1>4, <1>5, <1>6 DEF TInv

\* The last attempt has failed.
LEMMA GiveUpTInv == TInv /\ GiveUp => TInv'
<1>1. SUFFICES ASSUME TInv, GiveUp PROVE TInv'
  OBVIOUS
<1>2. TypeOK'
  BY <1>1, TransportAssumption DEF GiveUp, CloseFailed, LastAttempt,
     Discarded, Closed, TInv, TypeOK, Stage, Answer, Status, Attempts
<1>3. Waiting'
  BY <1>1, TransportAssumption DEF GiveUp, CloseFailed, LastAttempt,
     Discarded, Closed, TInv, Waiting, TypeOK, Inside, Attempts
<1>4. Holds'
  BY <1>1, TransportAssumption DEF GiveUp, CloseFailed, LastAttempt,
     Discarded, Closed, TInv, Holds, TypeOK, Holding, Status, Answer
<1>5. ContextReleased'
  BY <1>1, TransportAssumption DEF GiveUp, CloseFailed, LastAttempt,
     Discarded, Closed, TInv, ContextReleased, TypeOK, Waiting, Holds,
     Inside, Holding, Status
<1>6. Spent'
  BY <1>1, TransportAssumption DEF GiveUp, CloseFailed, LastAttempt,
     Discarded, Closed, TInv, Spent, TypeOK, EventsInOrder, Attempts
<1>7. QED
  BY <1>2, <1>3, <1>4, <1>5, <1>6 DEF TInv

\* An attempt has failed and another will follow.
LEMMA PlanRetryTInv == TInv /\ PlanRetry => TInv'
<1>1. SUFFICES ASSUME TInv, PlanRetry PROVE TInv'
  OBVIOUS
<1>2. TypeOK'
  BY <1>1, TransportAssumption DEF PlanRetry, CloseFailed, LastAttempt,
     Discarded, Closed, Report, WaitAfter, TInv, TypeOK, Stage, Answer,
     Status, Attempts
<1>3. Waiting'
  BY <1>1, TransportAssumption DEF PlanRetry, CloseFailed, LastAttempt,
     Discarded, Closed, Report, WaitAfter, TInv, Waiting, TypeOK, Inside,
     Attempts
<1>4. Holds'
  BY <1>1, TransportAssumption DEF PlanRetry, CloseFailed, LastAttempt,
     Discarded, Closed, Report, WaitAfter, TInv, Holds, TypeOK, Holding,
     Status, Answer
<1>5. ContextReleased'
  BY <1>1, TransportAssumption DEF PlanRetry, CloseFailed, LastAttempt,
     Discarded, Closed, Report, WaitAfter, TInv, ContextReleased, TypeOK,
     Waiting, Holds, Inside, Holding, Status
<1>6. Spent'
  BY <1>1, TransportAssumption DEF PlanRetry, CloseFailed, LastAttempt,
     Discarded, Closed, Report, WaitAfter, TInv, Spent, TypeOK,
     EventsInOrder, Attempts
<1>7. QED
  BY <1>2, <1>3, <1>4, <1>5, <1>6 DEF TInv

\* The wait is over.
LEMMA WakeTInv == TInv /\ Wake => TInv'
<1>1. SUFFICES ASSUME TInv, Wake PROVE TInv'
  OBVIOUS
<1>2. TypeOK'
  <2>1. /\ backoff \in Nat \ {0} /\ MaxBackoff \in Nat \ {0}
        /\ InitialBackoff \in Nat \ {0} /\ MaxRetries \in Nat
        /\ attempt \in 0 .. MaxRetries /\ attempt < MaxRetries
    BY <1>1, TransportAssumption DEF Wake, TInv, TypeOK, Spent, Attempts
  <2>2. backoff' \in Nat \ {0} /\ backoff' <= MaxBackoff
    BY <1>1, <2>1 DEF Wake, CapDuration
  <2>3. attempt' \in Attempts
    BY <1>1, <2>1 DEF Wake, Attempts
  <2>4. QED
    BY <1>1, <2>2, <2>3 DEF Wake, TInv, TypeOK, Stage, Attempts
<1>3. Waiting'
  BY <1>1, TransportAssumption DEF Wake, CapDuration, TInv, Waiting, TypeOK,
     Inside, Attempts
<1>4. Holds'
  BY <1>1, TransportAssumption DEF Wake, CapDuration, TInv, Holds, TypeOK,
     Holding, Status, Answer
<1>5. ContextReleased'
  BY <1>1, TransportAssumption DEF Wake, CapDuration, TInv, ContextReleased,
     TypeOK, Waiting, Holds, Inside, Holding, Status
<1>6. Spent'
  BY <1>1, TransportAssumption DEF Wake, CapDuration, TInv, Spent, TypeOK,
     EventsInOrder, Attempts
<1>7. QED
  BY <1>2, <1>3, <1>4, <1>5, <1>6 DEF TInv

\* The context ends the wait.
LEMMA SleepInterruptedTInv == TInv /\ SleepInterrupted => TInv'
<1>1. SUFFICES ASSUME TInv, SleepInterrupted PROVE TInv'
  OBVIOUS
<1>2. TypeOK'
  BY <1>1, TransportAssumption DEF SleepInterrupted, TInv, TypeOK, Stage,
     Answer, Status, Attempts
<1>3. Waiting'
  BY <1>1, TransportAssumption DEF SleepInterrupted, TInv, Waiting, TypeOK,
     Inside, Attempts
<1>4. Holds'
  BY <1>1, TransportAssumption DEF SleepInterrupted, TInv, Holds, TypeOK,
     Holding, Status, Answer
<1>5. ContextReleased'
  BY <1>1, TransportAssumption DEF SleepInterrupted, TInv, ContextReleased,
     TypeOK, Waiting, Holds, Inside, Holding, Status
<1>6. Spent'
  BY <1>1, TransportAssumption DEF SleepInterrupted, TInv, Spent, TypeOK,
     EventsInOrder, Attempts
<1>7. QED
  BY <1>2, <1>3, <1>4, <1>5, <1>6 DEF TInv

\* The watchdog of the call is released.
LEMMA DoReturnedTInv == TInv /\ DoReturned => TInv'
<1>1. SUFFICES ASSUME TInv, DoReturned PROVE TInv'
  OBVIOUS
<1>2. TypeOK'
  BY <1>1, TransportAssumption DEF DoReturned, ReleaseOuter, Release, TInv,
     TypeOK, Stage, Answer, Status, Attempts
<1>3. Waiting'
  BY <1>1, TransportAssumption DEF DoReturned, ReleaseOuter, Release, TInv,
     Waiting, TypeOK, Inside, Attempts
<1>4. Holds'
  BY <1>1, TransportAssumption DEF DoReturned, ReleaseOuter, Release, TInv,
     Holds, TypeOK, Holding, Status, Answer
<1>5. ContextReleased'
  BY <1>1, TransportAssumption DEF DoReturned, ReleaseOuter, Release, TInv,
     ContextReleased, TypeOK, Waiting, Holds, Inside, Holding, Status
<1>6. Spent'
  <2>1. /\ pc = "did" /\ pc' \in {"read", "returned"}
        /\ UNCHANGED <<attempt, events, answer, canceled, expired>>
    BY <1>1 DEF DoReturned, ReleaseOuter
  <2>2. EventsInOrder'
    <3>1. /\ \A i \in DOMAIN events : events[i].attempt = i
          /\ Len(events) = attempt + 0 \/ answer = "ctx"
      BY <1>1, <2>1 DEF TInv, Spent, EventsInOrder
    <3>2. /\ events' = events /\ attempt' = attempt /\ answer' = answer
          /\ pc' \in {"did", "returned"} \/ pc' = "read"
      BY <2>1
    <3>3. CASE answer = "ctx"
      <4>1. pc' = "returned"
        BY <1>1, <3>3 DEF DoReturned, ReleaseOuter, Status
      <4>2. QED
        BY <3>1, <3>2, <3>3, <4>1 DEF EventsInOrder
    <3>4. CASE answer # "ctx"
      <4>1. (IF pc' = "sleep" THEN 1 ELSE 0) = 0
        BY <2>1
      <4>2. QED
        BY <3>1, <3>2, <3>4, <4>1 DEF EventsInOrder
    <3>5. QED
      BY <3>3, <3>4
  <2>3. QED
    BY <1>1, <2>1, <2>2 DEF TInv, Spent
<1>7. QED
  BY <1>2, <1>3, <1>4, <1>5, <1>6 DEF TInv

\* The body is read to its end.
LEMMA ReadToEndTInv == TInv /\ ReadToEnd => TInv'
<1>1. SUFFICES ASSUME TInv, ReadToEnd PROVE TInv'
  OBVIOUS
<1>2. TypeOK'
  <2>1. TypeOK /\ pc' = "returned" /\ body' = "closed"
        /\ owner' = [owner EXCEPT ![conn] = IF @ = "call" THEN "free" ELSE @]
    BY <1>1 DEF ReadToEnd, CloseBody, TInv
  <2>2. owner' \in [Conns -> {"free", "call", "stuck", "other", "closed"}]
    BY <2>1 DEF TypeOK
  <2>3. /\ UNCHANGED <<loopVars, phase, conn, answer, timer, watchVars, ctxVars>>
        /\ attemptDone' = (attemptDone \/ PerAttempt)
    BY <1>1 DEF ReadToEnd, CloseBody
  <2>4. pc' \in Stage /\ attemptDone' \in BOOLEAN
    BY <2>1, <2>3, TransportAssumption DEF Stage, TypeOK
  <2>5. QED
    BY <2>1, <2>2, <2>3, <2>4 DEF TypeOK
<1>3. Waiting'
  BY <1>1, TransportAssumption DEF ReadToEnd, CloseBody, TInv, Waiting,
     TypeOK, Inside, Attempts
<1>4. Holds'
  BY <1>1, TransportAssumption DEF ReadToEnd, CloseBody, TInv, Holds, TypeOK,
     Holding, Status, Answer
<1>5. ContextReleased'
  BY <1>1, TransportAssumption DEF ReadToEnd, CloseBody, TInv,
     ContextReleased, TypeOK, Waiting, Holds, Inside, Holding, Status
<1>6. Spent'
  BY <1>1, TransportAssumption DEF ReadToEnd, CloseBody, TInv, Spent, TypeOK,
     EventsInOrder, Attempts
<1>7. QED
  BY <1>2, <1>3, <1>4, <1>5, <1>6 DEF TInv

\* The body is closed early.
LEMMA ReadCutTInv == TInv /\ ReadCut => TInv'
<1>1. SUFFICES ASSUME TInv, ReadCut PROVE TInv'
  OBVIOUS
<1>2. TypeOK'
  <2>1. owner' \in [Conns -> {"free", "call", "stuck", "other", "closed"}]
    BY <1>1 DEF ReadCut, CloseBody, TInv, TypeOK
  <2>2. QED
    BY <1>1, <2>1 DEF ReadCut, CloseBody, TInv, TypeOK, Stage
<1>3. Waiting'
  BY <1>1, TransportAssumption DEF ReadCut, CloseBody, TInv, Waiting, TypeOK,
     Inside, Attempts
<1>4. Holds'
  BY <1>1, TransportAssumption DEF ReadCut, CloseBody, TInv, Holds, TypeOK,
     Holding, Status, Answer
<1>5. ContextReleased'
  BY <1>1, TransportAssumption DEF ReadCut, CloseBody, TInv, ContextReleased,
     TypeOK, Waiting, Holds, Inside, Holding, Status
<1>6. Spent'
  BY <1>1, TransportAssumption DEF ReadCut, CloseBody, TInv, Spent, TypeOK,
     EventsInOrder, Attempts
<1>7. QED
  BY <1>2, <1>3, <1>4, <1>5, <1>6 DEF TInv

\* The caller's context is done: both watchdogs fire.
LEMMA CancelTInv == TInv /\ Cancel => TInv'
<1>1. SUFFICES ASSUME TInv, Cancel PROVE TInv'
  OBVIOUS
<1>2. TypeOK'
  BY <1>1, TransportAssumption DEF Cancel, FireAttempt, Fire, TInv, TypeOK,
     Stage, Answer, Status, Attempts
<1>3. Waiting'
  BY <1>1, TransportAssumption DEF Cancel, FireAttempt, Fire, TInv, Waiting,
     TypeOK, Inside, Attempts
<1>4. Holds'
  BY <1>1, TransportAssumption DEF Cancel, FireAttempt, Fire, TInv, Holds,
     TypeOK, Holding, Status, Answer
<1>5. ContextReleased'
  BY <1>1, TransportAssumption DEF Cancel, FireAttempt, Fire, TInv,
     ContextReleased, TypeOK, Waiting, Holds, Inside, Holding, Status
<1>6. Spent'
  BY <1>1, TransportAssumption DEF Cancel, FireAttempt, Fire, TInv, Spent,
     TypeOK, EventsInOrder, Attempts
<1>7. QED
  BY <1>2, <1>3, <1>4, <1>5, <1>6 DEF TInv

\* The request timeout fires the attempt's watchdog alone.
LEMMA ExpireTInv == TInv /\ Expire => TInv'
<1>1. SUFFICES ASSUME TInv, Expire PROVE TInv'
  OBVIOUS
<1>2. TypeOK'
  BY <1>1, TransportAssumption DEF Expire, FireAttempt, Fire, TInv, TypeOK,
     Stage, Answer, Status, Attempts
<1>3. Waiting'
  BY <1>1, TransportAssumption DEF Expire, FireAttempt, Fire, TInv, Waiting,
     TypeOK, Inside, Attempts
<1>4. Holds'
  BY <1>1, TransportAssumption DEF Expire, FireAttempt, Fire, TInv, Holds,
     TypeOK, Holding, Status, Answer
<1>5. ContextReleased'
  BY <1>1, TransportAssumption DEF Expire, FireAttempt, Fire, TInv,
     ContextReleased, TypeOK, Waiting, Holds, Inside, Holding, Status
<1>6. Spent'
  BY <1>1, TransportAssumption DEF Expire, FireAttempt, Fire, TInv, Spent,
     TypeOK, EventsInOrder, Attempts
<1>7. QED
  BY <1>2, <1>3, <1>4, <1>5, <1>6 DEF TInv

\* Another request takes a free connection.
LEMMA OtherTakesTInv == TInv /\ OtherTakes => TInv'
<1>1. SUFFICES ASSUME TInv, OtherTakes PROVE TInv'
  OBVIOUS
<1>2. TypeOK'
  BY <1>1, TransportAssumption DEF OtherTakes, TInv, TypeOK, Stage, Answer,
     Status, Attempts
<1>3. Waiting'
  BY <1>1, TransportAssumption DEF OtherTakes, TInv, Waiting, TypeOK, Inside,
     Attempts
<1>4. Holds'
  BY <1>1, TransportAssumption DEF OtherTakes, TInv, Holds, TypeOK, Holding,
     Status, Answer
<1>5. ContextReleased'
  BY <1>1, TransportAssumption DEF OtherTakes, TInv, ContextReleased, TypeOK,
     Waiting, Holds, Inside, Holding, Status
<1>6. Spent'
  BY <1>1, TransportAssumption DEF OtherTakes, TInv, Spent, TypeOK,
     EventsInOrder, Attempts
<1>7. QED
  BY <1>2, <1>3, <1>4, <1>5, <1>6 DEF TInv

\* Another request gives its connection back.
LEMMA OtherReturnsTInv == TInv /\ OtherReturns => TInv'
<1>1. SUFFICES ASSUME TInv, OtherReturns PROVE TInv'
  OBVIOUS
<1>2. TypeOK'
  BY <1>1, TransportAssumption DEF OtherReturns, TInv, TypeOK, Stage, Answer,
     Status, Attempts
<1>3. Waiting'
  BY <1>1, TransportAssumption DEF OtherReturns, TInv, Waiting, TypeOK,
     Inside, Attempts
<1>4. Holds'
  BY <1>1, TransportAssumption DEF OtherReturns, TInv, Holds, TypeOK,
     Holding, Status, Answer
<1>5. ContextReleased'
  BY <1>1, TransportAssumption DEF OtherReturns, TInv, ContextReleased,
     TypeOK, Waiting, Holds, Inside, Holding, Status
<1>6. Spent'
  BY <1>1, TransportAssumption DEF OtherReturns, TInv, Spent, TypeOK,
     EventsInOrder, Attempts
<1>7. QED
  BY <1>2, <1>3, <1>4, <1>5, <1>6 DEF TInv

\* The call's watchdog closes the connection it captured.
LEMMA OuterWatchdogFiresTInv == TInv /\ OuterWatchdogFires => TInv'
<1>1. SUFFICES ASSUME TInv, OuterWatchdogFires PROVE TInv'
  OBVIOUS
<1>2. TypeOK'
  BY <1>1, TransportAssumption DEF OuterWatchdogFires, Closed, TInv, TypeOK,
     Stage, Answer, Status, Attempts
<1>3. Waiting'
  BY <1>1, TransportAssumption DEF OuterWatchdogFires, Closed, TInv, Waiting,
     TypeOK, Inside, Attempts
<1>4. Holds'
  BY <1>1, TransportAssumption DEF OuterWatchdogFires, Closed, TInv, Holds,
     TypeOK, Holding, Status, Answer
<1>5. ContextReleased'
  BY <1>1, TransportAssumption DEF OuterWatchdogFires, Closed, TInv,
     ContextReleased, TypeOK, Waiting, Holds, Inside, Holding, Status
<1>6. Spent'
  BY <1>1, TransportAssumption DEF OuterWatchdogFires, Closed, TInv, Spent,
     TypeOK, EventsInOrder, Attempts
<1>7. QED
  BY <1>2, <1>3, <1>4, <1>5, <1>6 DEF TInv

\* A watchdog of an attempt closes the connection it captured.
LEMMA WatchdogFiresTInv ==
  ASSUME TInv, NEW a \in Attempts, WatchdogFires(a)
  PROVE  TInv'
<1>2. TypeOK'
  BY TransportAssumption DEF WatchdogFires, Closed, TInv, TypeOK
<1>3. Waiting'
  BY DEF WatchdogFires, TInv, Waiting, TypeOK, Inside
<1>4. Holds'
  BY DEF WatchdogFires, Closed, TInv, Holds, TypeOK
<1>5. ContextReleased'
  BY DEF WatchdogFires, TInv, ContextReleased, Inside
<1>6. Spent'
  BY DEF WatchdogFires, TInv, Spent, EventsInOrder
<1>7. QED
  BY <1>2, <1>3, <1>4, <1>5, <1>6 DEF TInv

\* The watchdog of an attempt reaches its select, or leaves without a look.
LEMMA WatchdogRestsTInv ==
  ASSUME TInv, NEW a \in Attempts, WatchdogParks(a) \/ WatchdogLeaves(a)
  PROVE  TInv'
<1>1. TypeOK'
  <2>1. watch' \in [Attempts -> Watchdog]
    BY DEF WatchdogParks, WatchdogLeaves, TInv, TypeOK
  <2>2. UNCHANGED <<pc, loopVars, tripVars, timerVars, watched, outer,
                    outerConn, owner, ctxVars>>
    BY DEF WatchdogParks, WatchdogLeaves
  <2>3. QED
    BY <2>1, <2>2 DEF TInv, TypeOK
<1>2. Waiting'
  <2>1. Waiting /\ watch \in [Attempts -> Watchdog]
    BY DEF TInv, TypeOK
  <2>2. /\ \A b \in Attempts : b # a => watch'[b] = watch[b]
        /\ watch'[a] \in {"parked", "firing", "gone"}
        /\ watch'[a] = "parked" => watch[a] = "starting" /\ ~WatchedDone(a)
    <3>1. CASE WatchdogParks(a)
      BY <2>1, <3>1 DEF WatchdogParks
    <3>2. CASE WatchdogLeaves(a)
      BY <2>1, <3>2 DEF WatchdogLeaves
    <3>3. QED
      BY <3>1, <3>2
  <2>3. UNCHANGED <<pc, attempt, timer, attemptDone, watched, outer, canceled,
                    expired>>
    BY DEF WatchdogParks, WatchdogLeaves
  <2>4. watch[a] # "off"
    BY DEF WatchdogParks, WatchdogLeaves
  <2>5. ASSUME NEW b \in Attempts
        PROVE  /\ watch'[b] = "parked" => ~AttemptCtxDone
               /\ watch'[b] \in Armed => b = attempt /\ PerAttempt /\ pc \in Inside
               /\ watch'[b] = "released" => b < attempt \/ pc \notin Inside
               /\ b > attempt \/ (b = attempt /\ pc = "top") =>
                    watch'[b] = "off" /\ watched[b] = None
    <3>1. CASE b = a
      BY <2>1, <2>2, <2>4, <3>1 DEF Waiting
    <3>2. CASE b # a
      <4>1. watch'[b] = watch[b]
        BY <2>1, <2>2, <3>2
      <4>2. QED
        BY <2>1, <4>1 DEF Waiting
    <3>3. QED
      BY <3>1, <3>2
  <2>6. QED
    BY <2>1, <2>3, <2>5 DEF Waiting
<1>3. Holds' /\ ContextReleased' /\ Spent'
  BY DEF WatchdogParks, WatchdogLeaves, TInv, Holds, ContextReleased, Inside,
     Spent, EventsInOrder
<1>4. QED
  BY <1>1, <1>2, <1>3 DEF TInv

\* The call's watchdog does.
LEMMA OuterWatchdogRestsTInv ==
  ASSUME TInv, OuterWatchdogParks \/ OuterWatchdogLeaves
  PROVE  TInv'
<1>1. TypeOK'
  BY DEF OuterWatchdogParks, OuterWatchdogLeaves, TInv, TypeOK
<1>2. Waiting'
  BY DEF OuterWatchdogParks, OuterWatchdogLeaves, TInv, Waiting, Inside
<1>3. Holds' /\ ContextReleased' /\ Spent'
  BY DEF OuterWatchdogParks, OuterWatchdogLeaves, TInv, Holds,
     ContextReleased, Inside, Spent, EventsInOrder
<1>4. QED
  BY <1>1, <1>2, <1>3 DEF TInv

\* A step that changes nothing.
LEMMA StutterTInv == TInv /\ UNCHANGED vars => TInv'
  BY DEF vars, TInv, TypeOK, Waiting, Holds, ContextReleased, Spent,
     EventsInOrder, Inside, Holding

\* A call begins with nothing armed but its own watchdog.
LEMMA InitTInv == Init => TInv
<1>1. SUFFICES ASSUME Init PROVE TInv
  OBVIOUS
<1>2. TypeOK
  BY <1>1, TransportAssumption DEF Init, TypeOK, Stage, Answer, Attempts
<1>3. Waiting
  BY <1>1, TransportAssumption DEF Init, Waiting, Inside, Attempts
<1>4. Holds
  BY <1>1, TransportAssumption DEF Init, Holds, Holding, Status
<1>5. ContextReleased
  BY <1>1 DEF Init, ContextReleased, Inside
<1>6. Spent
  BY <1>1 DEF Init, Spent, EventsInOrder
<1>7. QED
  BY <1>2, <1>3, <1>4, <1>5, <1>6 DEF TInv

\* Every step preserves the inductive invariant.
LEMMA NextTInv == TInv /\ [Next]_vars => TInv'
<1>1. SUFFICES ASSUME TInv, [Next]_vars PROVE TInv'
  OBVIOUS
<1>2. CASE Loop
  BY <1>1, <1>2, StartAttemptTInv, StopTimerTInv, SucceedTInv, GiveUpTInv,
     PlanRetryTInv, DoReturnedTInv DEF Loop
<1>3. CASE Network
  BY <1>1, <1>3, GotConnTInv, WriteRequestTInv, RespondTInv,
     NetworkFailsTInv, WakeTInv DEF Network
<1>4. CASE Reading
  BY <1>1, <1>4, ReadToEndTInv, ReadCutTInv DEF Reading
<1>5. CASE Aborting
  BY <1>1, <1>5, ConnClosedTInv, TripInterruptedTInv, SleepInterruptedTInv,
     ReadCutTInv DEF Aborting, ReadInterrupted
<1>6. CASE Watchdogs
  BY <1>1, <1>6, OuterWatchdogFiresTInv, WatchdogFiresTInv,
     OuterWatchdogRestsTInv, WatchdogRestsTInv
     DEF Watchdogs, OuterWatchdogRuns, WatchdogRuns
<1>7. CASE TimerFires \/ TimerCancels \/ Cancel \/ Expire
  BY <1>1, <1>7, TimerFiresTInv, TimerCancelsTInv, CancelTInv, ExpireTInv
<1>8. CASE OtherTakes \/ OtherReturns
  BY <1>1, <1>8, OtherTakesTInv, OtherReturnsTInv
<1>9. CASE UNCHANGED vars
  BY <1>1, <1>9, StutterTInv
<1>10. QED
  BY <1>1, <1>2, <1>3, <1>4, <1>5, <1>6, <1>7, <1>8, <1>9 DEF Next

\* The conjunction is an invariant of every call, whatever the configuration,
\* the statuses, the moments at which timers fire and contexts end.
THEOREM TransportInvariance == Spec => []TInv
<1>1. Init => TInv
  BY InitTInv
<1>2. TInv /\ [Next]_vars => TInv'
  BY NextTInv
<1>3. QED
  BY <1>1, <1>2, PTL DEF Spec

\* Every variable keeps its type: in particular the backoff stays below the
\* longer of the two configured durations however many attempts are made.
THEOREM TransportTypes == Spec => []TypeOK
<1>1. TInv => TypeOK
  BY DEF TInv
<1>2. QED
  BY <1>1, TransportInvariance, PTL

\* A call that has returned leaves no timer, watchdog, body, context or
\* connection behind, on any path through the retry loop.
THEOREM TransportCleansUp == Spec => []NothingLeftBehind
<1>1. TInv => NothingLeftBehind
  BY DEF TInv, TypeOK, Waiting, Holds, ContextReleased, NothingLeftBehind,
     Inside, Holding
<1>2. QED
  BY <1>1, TransportInvariance, PTL

\* A retry abandons no response: the call never holds a second connection.
THEOREM TransportHoldsOne == Spec => []OneConnection
<1>1. TInv => OneConnection
  BY DEF TInv, Holds, OneConnection
<1>2. QED
  BY <1>1, TransportInvariance, PTL

\* OnRetry is told of each failed attempt in order and once, and a call whose
\* context is live fails only when its budget is spent.
THEOREM TransportSpendsBudget == Spec => []BudgetSpent
<1>1. TInv => EventsInOrder
  BY DEF TInv, Spent
<1>2. TInv => BudgetSpent
  <2>1. SUFFICES ASSUME TInv, pc = "returned", Retrying, ~CtxDone, answer # "ok"
                 PROVE  attempt = MaxRetries /\ Len(events) = MaxRetries
    BY <1>1 DEF BudgetSpent
  <2>2. answer # "ctx" /\ attempt = MaxRetries
    BY <2>1 DEF TInv, Spent
  <2>3. (IF pc = "sleep" THEN 1 ELSE 0) = 0
    BY <2>1
  <2>4. Len(events) = attempt + 0
    BY <2>1, <2>2, <2>3 DEF TInv, Spent, EventsInOrder
  <2>5. QED
    BY <2>2, <2>4, TransportAssumption
<1>3. QED
  BY <1>1, <1>2, TransportInvariance, PTL
-----------------------------------------------------------------------------
(***************************************************************************)
(* What the watchdogs leave alone when every response has a body: the body *)
(* the caller is reading, and the connections of other requests.  The      *)
(* inductive invariant is PoolInv: a watchdog that may still act captured  *)
(* a connection that is the call's, closed, or given up.                   *)
(***************************************************************************)

\* An attempt starts with a timer, a watchdog and a context of its own.
LEMMA StartAttemptGuards ==
  ASSUME EmptyOn = {}, PoolInv, StartAttempt
  PROVE  Guarded'
<1>1. TInv /\ TInv' /\ Guarded
  BY StartAttemptTInv DEF PoolInv
<1>2. CallGuarded'
  BY <1>1, TransportAssumption DEF StartAttempt, Guarded, CallGuarded,
     Ruined, TInv, TypeOK, Waiting, Holds
<1>3. ASSUME NEW a \in Attempts PROVE AttemptGuarded(a)'
  BY <1>1, <1>3, TransportAssumption DEF StartAttempt, Guarded,
     AttemptGuarded, Ruined, Inside, Attempts, TInv, TypeOK, Waiting, Holds
<1>4. BodyGuarded'
  BY <1>1, TransportAssumption DEF StartAttempt, Guarded, BodyGuarded,
     Ruined, TInv, TypeOK, Waiting, Holds, Status
<1>5. QED
  BY <1>2, <1>3, <1>4 DEF Guarded

\* The attempt gets its connection, and both watchdogs capture it.
LEMMA GotConnGuards ==
  ASSUME EmptyOn = {}, PoolInv, GotConn
  PROVE  Guarded'
<1>1. TInv /\ TInv' /\ Guarded
  BY GotConnTInv DEF PoolInv
<1>2. CallGuarded'
  BY <1>1, TransportAssumption DEF GotConn, Capture, Guarded, CallGuarded,
     Ruined, TInv, TypeOK, Waiting, Holds
<1>3. ASSUME NEW a \in Attempts PROVE AttemptGuarded(a)'
  BY <1>1, <1>3, TransportAssumption DEF GotConn, Capture, Guarded,
     AttemptGuarded, Ruined, Inside, Attempts, TInv, TypeOK, Waiting, Holds
<1>4. BodyGuarded'
  BY <1>1, TransportAssumption DEF GotConn, Capture, Guarded, BodyGuarded,
     Ruined, TInv, TypeOK, Waiting, Holds, Status
<1>5. QED
  BY <1>2, <1>3, <1>4 DEF Guarded

\* Writing moves the phase alone.
LEMMA WriteRequestGuards ==
  ASSUME EmptyOn = {}, PoolInv, WriteRequest
  PROVE  Guarded'
<1>1. TInv /\ TInv' /\ Guarded
  BY WriteRequestTInv DEF PoolInv
<1>2. CallGuarded'
  BY <1>1, TransportAssumption DEF WriteRequest, Guarded, CallGuarded,
     Ruined, TInv, TypeOK, Waiting, Holds
<1>3. ASSUME NEW a \in Attempts PROVE AttemptGuarded(a)'
  BY <1>1, <1>3, TransportAssumption DEF WriteRequest, Guarded,
     AttemptGuarded, Ruined, Inside, Attempts, TInv, TypeOK, Waiting, Holds
<1>4. BodyGuarded'
  BY <1>1, TransportAssumption DEF WriteRequest, Guarded, BodyGuarded,
     Ruined, TInv, TypeOK, Waiting, Holds, Status
<1>5. QED
  BY <1>2, <1>3, <1>4 DEF Guarded

\* The headers arrive.
LEMMA RespondGuards ==
  ASSUME EmptyOn = {}, PoolInv, Respond
  PROVE  Guarded'
<1>1. TInv /\ TInv' /\ Guarded
  BY RespondTInv DEF PoolInv
<1>2. CallGuarded'
  BY <1>1, TransportAssumption DEF Respond, Status, Guarded, CallGuarded,
     Ruined, TInv, TypeOK, Waiting, Holds
<1>3. ASSUME NEW a \in Attempts PROVE AttemptGuarded(a)'
  BY <1>1, <1>3, TransportAssumption DEF Respond, Status, Guarded,
     AttemptGuarded, Ruined, Inside, Attempts, TInv, TypeOK, Waiting, Holds
<1>4. BodyGuarded'
  BY <1>1, TransportAssumption DEF Respond, Status, Guarded, BodyGuarded,
     Ruined, TInv, TypeOK, Waiting, Holds
<1>5. QED
  BY <1>2, <1>3, <1>4 DEF Guarded

\* The round trip fails on the network.
LEMMA NetworkFailsGuards ==
  ASSUME EmptyOn = {}, PoolInv, NetworkFails
  PROVE  Guarded'
<1>1. TInv /\ TInv' /\ Guarded
  BY NetworkFailsTInv DEF PoolInv
<1>2. CallGuarded'
  BY <1>1, TransportAssumption DEF NetworkFails, TripFails, Guarded,
     CallGuarded, Ruined, TInv, TypeOK, Waiting, Holds
<1>3. ASSUME NEW a \in Attempts PROVE AttemptGuarded(a)'
  BY <1>1, <1>3, TransportAssumption DEF NetworkFails, TripFails, Guarded,
     AttemptGuarded, Ruined, Inside, Attempts, TInv, TypeOK, Waiting, Holds
<1>4. BodyGuarded'
  BY <1>1, TransportAssumption DEF NetworkFails, TripFails, Guarded,
     BodyGuarded, Ruined, TInv, TypeOK, Waiting, Holds, Status
<1>5. QED
  BY <1>2, <1>3, <1>4 DEF Guarded

\* The round trip fails on a connection that was closed.
LEMMA ConnClosedGuards ==
  ASSUME EmptyOn = {}, PoolInv, ConnClosed
  PROVE  Guarded'
<1>1. TInv /\ TInv' /\ Guarded
  BY ConnClosedTInv DEF PoolInv
<1>2. CallGuarded'
  BY <1>1, TransportAssumption DEF ConnClosed, TripFails, Guarded,
     CallGuarded, Ruined, TInv, TypeOK, Waiting, Holds
<1>3. ASSUME NEW a \in Attempts PROVE AttemptGuarded(a)'
  BY <1>1, <1>3, TransportAssumption DEF ConnClosed, TripFails, Guarded,
     AttemptGuarded, Ruined, Inside, Attempts, TInv, TypeOK, Waiting, Holds
<1>4. BodyGuarded'
  BY <1>1, TransportAssumption DEF ConnClosed, TripFails, Guarded,
     BodyGuarded, Ruined, TInv, TypeOK, Waiting, Holds, Status
<1>5. QED
  BY <1>2, <1>3, <1>4 DEF Guarded

\* The round trip ends with its context.
LEMMA TripInterruptedGuards ==
  ASSUME EmptyOn = {}, PoolInv, TripInterrupted
  PROVE  Guarded'
<1>1. TInv /\ TInv' /\ Guarded
  BY TripInterruptedTInv DEF PoolInv
<1>2. CallGuarded'
  BY <1>1, TransportAssumption DEF TripInterrupted, TripFails, Guarded,
     CallGuarded, Ruined, TInv, TypeOK, Waiting, Holds
<1>3. ASSUME NEW a \in Attempts PROVE AttemptGuarded(a)'
  BY <1>1, <1>3, TransportAssumption DEF TripInterrupted, TripFails, Guarded,
     AttemptGuarded, Ruined, Inside, Attempts, TInv, TypeOK, Waiting, Holds
<1>4. BodyGuarded'
  BY <1>1, TransportAssumption DEF TripInterrupted, TripFails, Guarded,
     BodyGuarded, Ruined, TInv, TypeOK, Waiting, Holds, Status
<1>5. QED
  BY <1>2, <1>3, <1>4 DEF Guarded

\* The timer fires.
LEMMA TimerFiresGuards ==
  ASSUME EmptyOn = {}, PoolInv, TimerFires
  PROVE  Guarded'
<1>1. TInv /\ TInv' /\ Guarded
  BY TimerFiresTInv DEF PoolInv
<1>2. CallGuarded'
  BY <1>1, TransportAssumption DEF TimerFires, Guarded, CallGuarded, Ruined,
     TInv, TypeOK, Waiting, Holds
<1>3. ASSUME NEW a \in Attempts PROVE AttemptGuarded(a)'
  BY <1>1, <1>3, TransportAssumption DEF TimerFires, Guarded, AttemptGuarded,
     Ruined, Inside, Attempts, TInv, TypeOK, Waiting, Holds
<1>4. BodyGuarded'
  BY <1>1, TransportAssumption DEF TimerFires, Guarded, BodyGuarded, Ruined,
     TInv, TypeOK, Waiting, Holds, Status
<1>5. QED
  BY <1>2, <1>3, <1>4 DEF Guarded

\* The timer cancels the attempt's context, which fires its watchdog.
LEMMA TimerCancelsGuards ==
  ASSUME EmptyOn = {}, PoolInv, TimerCancels
  PROVE  Guarded'
<1>1. TInv /\ TInv' /\ Guarded
  BY TimerCancelsTInv DEF PoolInv
<1>2. CallGuarded'
  BY <1>1, TransportAssumption DEF TimerCancels, FireAttempt, Fire, Guarded,
     CallGuarded, Ruined, TInv, TypeOK, Waiting, Holds
<1>3. ASSUME NEW a \in Attempts PROVE AttemptGuarded(a)'
  BY <1>1, <1>3, TransportAssumption DEF TimerCancels, FireAttempt, Fire,
     Guarded, AttemptGuarded, Ruined, Inside, Attempts, TInv, TypeOK,
     Waiting, Holds
<1>4. BodyGuarded'
  BY <1>1 DEF TimerCancels, BodyGuarded, Guarded, TInv, Waiting, Holds,
     Inside
<1>5. QED
  BY <1>2, <1>3, <1>4 DEF Guarded

\* The attempt stops its timer and releases or fires its watchdog.
LEMMA StopTimerGuards ==
  ASSUME EmptyOn = {}, PoolInv, StopTimer
  PROVE  Guarded'
<1>1. TInv /\ TInv' /\ Guarded
  BY StopTimerTInv DEF PoolInv
<1>2. CallGuarded'
  BY <1>1, TransportAssumption DEF StopTimer, TimedOutResponse,
     ReleaseAttempt, Fire, Release, Discarded, Closed, Guarded, CallGuarded,
     Ruined, TInv, TypeOK, Waiting, Holds
<1>3. ASSUME NEW a \in Attempts PROVE AttemptGuarded(a)'
  <2>1. CASE ~PerAttempt
    BY <1>1, <1>3, <2>1 DEF StopTimer, Guarded, AttemptGuarded,
       Ruined, Inside, TInv, TypeOK, Waiting,
       Holds, ContextReleased
  <2>2. CASE PerAttempt /\ answer = "error"
    BY <1>1, <1>3, <2>2 DEF StopTimer, Fire, Release,
       Guarded, AttemptGuarded,
       Ruined, Inside, TInv, TypeOK, Waiting,
       Holds, ContextReleased
  <2>3. CASE PerAttempt /\ answer \in Status /\ timer = "fired"
    BY <1>1, <1>3, <2>3 DEF StopTimer, TimedOutResponse, Fire, Release,
       Discarded, Closed, Status, Guarded, AttemptGuarded,
       Ruined, Inside, TInv, TypeOK, Waiting,
       Holds, ContextReleased
  <2>4. CASE PerAttempt /\ answer \in Status /\ timer # "fired"
    BY <1>1, <1>3, <2>4 DEF StopTimer, ReleaseAttempt, Release,
       Status, Guarded, AttemptGuarded,
       Ruined, Inside, TInv, TypeOK, Waiting,
       Holds, ContextReleased
  <2>5. QED
    BY <1>1, <2>1, <2>2, <2>3, <2>4 DEF StopTimer
<1>4. BodyGuarded'
  <2>1. CASE ~PerAttempt
    BY <1>1, <2>1 DEF StopTimer, Guarded, BodyGuarded, TInv,
       Holds, ContextReleased, Inside
  <2>2. CASE PerAttempt /\ answer = "error"
    BY <1>1, <2>2 DEF StopTimer, Fire, Release,
       Guarded, BodyGuarded, TInv,
       Holds, ContextReleased, Inside
  <2>3. CASE PerAttempt /\ answer \in Status /\ timer = "fired"
    BY <1>1, <2>3 DEF StopTimer, TimedOutResponse, Fire, Release,
       Discarded, Closed, Status, Guarded, BodyGuarded, TInv,
       Holds, ContextReleased, Inside
  <2>4. CASE PerAttempt /\ answer \in Status /\ timer # "fired"
    BY <1>1, <2>4 DEF StopTimer, ReleaseAttempt, Release,
       Status, Guarded, BodyGuarded, TInv,
       Holds, ContextReleased, Inside
  <2>5. QED
    BY <1>1, <2>1, <2>2, <2>3, <2>4 DEF StopTimer
<1>5. QED
  BY <1>2, <1>3, <1>4 DEF Guarded

\* The attempt's result is returned.
LEMMA SucceedGuards ==
  ASSUME EmptyOn = {}, PoolInv, Succeed
  PROVE  Guarded'
<1>1. TInv /\ TInv' /\ Guarded
  BY SucceedTInv DEF PoolInv
<1>2. CallGuarded'
  BY <1>1, TransportAssumption DEF Succeed, Guarded, CallGuarded, Ruined,
     TInv, TypeOK, Waiting, Holds
<1>3. ASSUME NEW a \in Attempts PROVE AttemptGuarded(a)'
  BY <1>1, <1>3, TransportAssumption DEF Succeed, Guarded, AttemptGuarded,
     Ruined, Inside, Attempts, TInv, TypeOK, Waiting, Holds
<1>4. BodyGuarded'
  BY <1>1, TransportAssumption DEF Succeed, Guarded, BodyGuarded, Ruined,
     TInv, TypeOK, Waiting, Holds, Status
<1>5. QED
  BY <1>2, <1>3, <1>4 DEF Guarded

\* The last attempt has failed.
LEMMA GiveUpGuards ==
  ASSUME EmptyOn = {}, PoolInv, GiveUp
  PROVE  Guarded'
<1>1. TInv /\ TInv' /\ Guarded
  BY GiveUpTInv DEF PoolInv
<1>2. CallGuarded'
  BY <1>1, TransportAssumption DEF GiveUp, CloseFailed, LastAttempt,
     Discarded, Closed, Guarded, CallGuarded, Ruined, TInv, TypeOK, Waiting,
     Holds
<1>3. ASSUME NEW a \in Attempts PROVE AttemptGuarded(a)'
  BY <1>1, <1>3, TransportAssumption DEF GiveUp, CloseFailed, LastAttempt,
     Discarded, Closed, Guarded, AttemptGuarded, Ruined, Inside, Attempts,
     TInv, TypeOK, Waiting, Holds
<1>4. BodyGuarded'
  BY <1>1, TransportAssumption DEF GiveUp, CloseFailed, LastAttempt,
     Discarded, Closed, Guarded, BodyGuarded, Ruined, TInv, TypeOK, Waiting,
     Holds, Status
<1>5. QED
  BY <1>2, <1>3, <1>4 DEF Guarded

\* An attempt has failed and another will follow.
LEMMA PlanRetryGuards ==
  ASSUME EmptyOn = {}, PoolInv, PlanRetry
  PROVE  Guarded'
<1>1. TInv /\ TInv' /\ Guarded
  BY PlanRetryTInv DEF PoolInv
<1>2. CallGuarded'
  BY <1>1, TransportAssumption DEF PlanRetry, CloseFailed, LastAttempt,
     Discarded, Closed, Report, WaitAfter, Guarded, CallGuarded, Ruined,
     TInv, TypeOK, Waiting, Holds
<1>3. ASSUME NEW a \in Attempts PROVE AttemptGuarded(a)'
  BY <1>1, <1>3, TransportAssumption DEF PlanRetry, CloseFailed, LastAttempt,
     Discarded, Closed, Report, WaitAfter, Guarded, AttemptGuarded, Ruined,
     Inside, Attempts, TInv, TypeOK, Waiting, Holds
<1>4. BodyGuarded'
  BY <1>1, TransportAssumption DEF PlanRetry, CloseFailed, LastAttempt,
     Discarded, Closed, Report, WaitAfter, Guarded, BodyGuarded, Ruined,
     TInv, TypeOK, Waiting, Holds, Status
<1>5. QED
  BY <1>2, <1>3, <1>4 DEF Guarded

\* The wait is over.
LEMMA WakeGuards ==
  ASSUME EmptyOn = {}, PoolInv, Wake
  PROVE  Guarded'
<1>1. TInv /\ TInv' /\ Guarded
  BY WakeTInv DEF PoolInv
<1>2. CallGuarded'
  BY <1>1, TransportAssumption DEF Wake, CapDuration, Guarded, CallGuarded,
     Ruined, TInv, TypeOK, Waiting, Holds
<1>3. ASSUME NEW a \in Attempts PROVE AttemptGuarded(a)'
  BY <1>1, <1>3, TransportAssumption DEF Wake, CapDuration, Guarded,
     AttemptGuarded, Ruined, Inside, Attempts, TInv, TypeOK, Waiting, Holds
<1>4. BodyGuarded'
  BY <1>1, TransportAssumption DEF Wake, CapDuration, Guarded, BodyGuarded,
     Ruined, TInv, TypeOK, Waiting, Holds, Status
<1>5. QED
  BY <1>2, <1>3, <1>4 DEF Guarded

\* The context ends the wait.
LEMMA SleepInterruptedGuards ==
  ASSUME EmptyOn = {}, PoolInv, SleepInterrupted
  PROVE  Guarded'
<1>1. TInv /\ TInv' /\ Guarded
  BY SleepInterruptedTInv DEF PoolInv
<1>2. CallGuarded'
  BY <1>1, TransportAssumption DEF SleepInterrupted, Guarded, CallGuarded,
     Ruined, TInv, TypeOK, Waiting, Holds
<1>3. ASSUME NEW a \in Attempts PROVE AttemptGuarded(a)'
  BY <1>1, <1>3, TransportAssumption DEF SleepInterrupted, Guarded,
     AttemptGuarded, Ruined, Inside, Attempts, TInv, TypeOK, Waiting, Holds
<1>4. BodyGuarded'
  BY <1>1, TransportAssumption DEF SleepInterrupted, Guarded, BodyGuarded,
     Ruined, TInv, TypeOK, Waiting, Holds, Status
<1>5. QED
  BY <1>2, <1>3, <1>4 DEF Guarded

\* The watchdog of the call is released.
LEMMA DoReturnedGuards ==
  ASSUME EmptyOn = {}, PoolInv, DoReturned
  PROVE  Guarded'
<1>1. TInv /\ TInv' /\ Guarded
  BY DoReturnedTInv DEF PoolInv
<1>2. CallGuarded'
  BY <1>1, TransportAssumption DEF DoReturned, ReleaseOuter, Release,
     Guarded, CallGuarded, Ruined, TInv, TypeOK, Waiting, Holds
<1>3. ASSUME NEW a \in Attempts PROVE AttemptGuarded(a)'
  BY <1>1, <1>3, TransportAssumption DEF DoReturned, ReleaseOuter, Release,
     Guarded, AttemptGuarded, Ruined, Inside, Attempts, TInv, TypeOK,
     Waiting, Holds
<1>4. BodyGuarded'
  BY <1>1, TransportAssumption DEF DoReturned, ReleaseOuter, Release,
     Guarded, BodyGuarded, Ruined, TInv, TypeOK, Waiting, Holds, Status
<1>5. QED
  BY <1>2, <1>3, <1>4 DEF Guarded

\* The body is read to its end.
LEMMA ReadToEndGuards ==
  ASSUME EmptyOn = {}, PoolInv, ReadToEnd
  PROVE  Guarded'
<1>1. TInv /\ TInv' /\ Guarded
  BY ReadToEndTInv DEF PoolInv
<1>2. CallGuarded'
  BY <1>1, TransportAssumption DEF ReadToEnd, CloseBody, Guarded,
     CallGuarded, Ruined, TInv, TypeOK, Waiting, Holds
<1>3. ASSUME NEW a \in Attempts PROVE AttemptGuarded(a)'
  BY <1>1, <1>3, TransportAssumption DEF ReadToEnd, CloseBody, Guarded,
     AttemptGuarded, Ruined, Inside, Attempts, TInv, TypeOK, Waiting, Holds
<1>4. BodyGuarded'
  BY <1>1, TransportAssumption DEF ReadToEnd, CloseBody, Guarded,
     BodyGuarded, Ruined, TInv, TypeOK, Waiting, Holds, Status
<1>5. QED
  BY <1>2, <1>3, <1>4 DEF Guarded

\* The body is closed early.
LEMMA ReadCutGuards ==
  ASSUME EmptyOn = {}, PoolInv, ReadCut
  PROVE  Guarded'
<1>1. TInv /\ TInv' /\ Guarded
  BY ReadCutTInv DEF PoolInv
<1>2. CallGuarded'
  BY <1>1, TransportAssumption DEF ReadCut, CloseBody, Guarded, CallGuarded,
     Ruined, TInv, TypeOK, Waiting, Holds
<1>3. ASSUME NEW a \in Attempts PROVE AttemptGuarded(a)'
  BY <1>1, <1>3, TransportAssumption DEF ReadCut, CloseBody, Guarded,
     AttemptGuarded, Ruined, Inside, Attempts, TInv, TypeOK, Waiting, Holds
<1>4. BodyGuarded'
  BY <1>1, TransportAssumption DEF ReadCut, CloseBody, Guarded, BodyGuarded,
     Ruined, TInv, TypeOK, Waiting, Holds, Status
<1>5. QED
  BY <1>2, <1>3, <1>4 DEF Guarded

\* The caller's context is done: both watchdogs fire.
LEMMA CancelGuards ==
  ASSUME EmptyOn = {}, PoolInv, Cancel
  PROVE  Guarded'
<1>1. TInv /\ TInv' /\ Guarded
  BY CancelTInv DEF PoolInv
<1>2. CallGuarded'
  BY <1>1, TransportAssumption DEF Cancel, FireAttempt, Fire, Guarded,
     CallGuarded, Ruined, TInv, TypeOK, Waiting, Holds
<1>3. ASSUME NEW a \in Attempts PROVE AttemptGuarded(a)'
  BY <1>1, <1>3, TransportAssumption DEF Cancel, FireAttempt, Fire, Guarded,
     AttemptGuarded, Ruined, Inside, Attempts, TInv, TypeOK, Waiting, Holds
<1>4. BodyGuarded'
  BY <1>1, TransportAssumption DEF Cancel, FireAttempt, Fire, Guarded,
     BodyGuarded, Ruined, TInv, TypeOK, Waiting, Holds, Status
<1>5. QED
  BY <1>2, <1>3, <1>4 DEF Guarded

\* The request timeout fires the attempt's watchdog alone.
LEMMA ExpireGuards ==
  ASSUME EmptyOn = {}, PoolInv, Expire
  PROVE  Guarded'
<1>1. TInv /\ TInv' /\ Guarded
  BY ExpireTInv DEF PoolInv
<1>2. CallGuarded'
  BY <1>1, TransportAssumption DEF Expire, FireAttempt, Fire, Guarded,
     CallGuarded, Ruined, TInv, TypeOK, Waiting, Holds
<1>3. ASSUME NEW a \in Attempts PROVE AttemptGuarded(a)'
  BY <1>1, <1>3, TransportAssumption DEF Expire, FireAttempt, Fire, Guarded,
     AttemptGuarded, Ruined, Inside, Attempts, TInv, TypeOK, Waiting, Holds
<1>4. BodyGuarded'
  BY <1>1, TransportAssumption DEF Expire, FireAttempt, Fire, Guarded,
     BodyGuarded, Ruined, TInv, TypeOK, Waiting, Holds, Status
<1>5. QED
  BY <1>2, <1>3, <1>4 DEF Guarded

\* Another request takes a free connection.
LEMMA OtherTakesGuards ==
  ASSUME EmptyOn = {}, PoolInv, OtherTakes
  PROVE  Guarded'
<1>1. TInv /\ TInv' /\ Guarded
  BY OtherTakesTInv DEF PoolInv
<1>2. CallGuarded'
  BY <1>1, TransportAssumption DEF OtherTakes, Guarded, CallGuarded, Ruined,
     TInv, TypeOK, Waiting, Holds
<1>3. ASSUME NEW a \in Attempts PROVE AttemptGuarded(a)'
  BY <1>1, <1>3, TransportAssumption DEF OtherTakes, Guarded, AttemptGuarded,
     Ruined, Inside, Attempts, TInv, TypeOK, Waiting, Holds
<1>4. BodyGuarded'
  BY <1>1, TransportAssumption DEF OtherTakes, Guarded, BodyGuarded, Ruined,
     TInv, TypeOK, Waiting, Holds, Status
<1>5. QED
  BY <1>2, <1>3, <1>4 DEF Guarded

\* Another request gives its connection back.
LEMMA OtherReturnsGuards ==
  ASSUME EmptyOn = {}, PoolInv, OtherReturns
  PROVE  Guarded'
<1>1. TInv /\ TInv' /\ Guarded
  BY OtherReturnsTInv DEF PoolInv
<1>2. CallGuarded'
  BY <1>1, TransportAssumption DEF OtherReturns, Guarded, CallGuarded,
     Ruined, TInv, TypeOK, Waiting, Holds
<1>3. ASSUME NEW a \in Attempts PROVE AttemptGuarded(a)'
  BY <1>1, <1>3, TransportAssumption DEF OtherReturns, Guarded,
     AttemptGuarded, Ruined, Inside, Attempts, TInv, TypeOK, Waiting, Holds
<1>4. BodyGuarded'
  BY <1>1, TransportAssumption DEF OtherReturns, Guarded, BodyGuarded,
     Ruined, TInv, TypeOK, Waiting, Holds, Status
<1>5. QED
  BY <1>2, <1>3, <1>4 DEF Guarded

\* The call's watchdog closes the connection it captured.
LEMMA OuterWatchdogFiresGuards ==
  ASSUME EmptyOn = {}, PoolInv, OuterWatchdogFires
  PROVE  Guarded'
<1>1. TInv /\ TInv' /\ Guarded
  BY OuterWatchdogFiresTInv DEF PoolInv
<1>2. CallGuarded'
  BY <1>1, TransportAssumption DEF OuterWatchdogFires, Closed, Guarded,
     CallGuarded, Ruined, TInv, TypeOK, Waiting, Holds
<1>3. ASSUME NEW a \in Attempts PROVE AttemptGuarded(a)'
  BY <1>1, <1>3, TransportAssumption DEF OuterWatchdogFires, Closed, Guarded,
     AttemptGuarded, Ruined, Inside, Attempts, TInv, TypeOK, Waiting, Holds
<1>4. BodyGuarded'
  BY <1>1, TransportAssumption DEF OuterWatchdogFires, Closed, Guarded,
     BodyGuarded, Ruined, TInv, TypeOK, Waiting, Holds, Status
<1>5. QED
  BY <1>2, <1>3, <1>4 DEF Guarded

\* A watchdog closes what it captured: a connection of the call's own, whose
\* context is done, or one that is ruined already.
LEMMA WatchdogFiresGuards ==
  ASSUME EmptyOn = {}, PoolInv, NEW b \in Attempts, WatchdogFires(b)
  PROVE  Guarded'
<1>1. TInv /\ TInv' /\ Guarded
  BY WatchdogFiresTInv DEF PoolInv
<1>2. CallGuarded'
  BY <1>1 DEF WatchdogFires, Closed, Guarded, CallGuarded, Ruined, TInv, TypeOK
<1>3. ASSUME NEW a \in Attempts PROVE AttemptGuarded(a)'
  BY <1>1, <1>3 DEF WatchdogFires, Closed, Guarded, AttemptGuarded, Ruined,
     Inside, TInv, TypeOK
<1>4. BodyGuarded'
  <2>1. CASE watched[b] = None
    BY <1>1, <2>1 DEF WatchdogFires, Closed, Guarded, BodyGuarded, Ruined
  <2>2. CASE watched[b] # None
    BY <1>1, <2>2 DEF WatchdogFires, Closed, Guarded, AttemptGuarded,
       BodyGuarded, Ruined, TInv, TypeOK, Holds
  <2>3. QED
    BY <2>1, <2>2
<1>5. QED
  BY <1>2, <1>3, <1>4 DEF Guarded

\* A watchdog that parks on a context that is done was not released: its
\* connection is still the attempt's, or ruined.
LEMMA WatchdogRestsGuards ==
  ASSUME EmptyOn = {}, PoolInv, NEW b \in Attempts,
         WatchdogParks(b) \/ WatchdogLeaves(b)
  PROVE  Guarded'
<1>1. TInv /\ Guarded
  BY DEF PoolInv
<1>2. CallGuarded' /\ BodyGuarded'
  BY <1>1 DEF WatchdogParks, WatchdogLeaves, Guarded, CallGuarded, BodyGuarded,
     Ruined
<1>3. ASSUME NEW a \in Attempts PROVE AttemptGuarded(a)'
  BY <1>1, <1>3, TransportAssumption DEF WatchdogParks, WatchdogLeaves,
     Guarded, AttemptGuarded, Ruined, Inside, TInv, TypeOK, Waiting, Attempts
<1>4. QED
  BY <1>2, <1>3 DEF Guarded

\* The call's watchdog parks or leaves.
LEMMA OuterWatchdogRestsGuards ==
  ASSUME EmptyOn = {}, PoolInv, OuterWatchdogParks \/ OuterWatchdogLeaves
  PROVE  Guarded'
<1>1. TInv /\ Guarded
  BY DEF PoolInv
<1>2. CallGuarded' /\ BodyGuarded'
  BY <1>1 DEF OuterWatchdogParks, OuterWatchdogLeaves, Guarded, CallGuarded,
     BodyGuarded, Ruined
<1>3. ASSUME NEW a \in Attempts PROVE AttemptGuarded(a)'
  BY <1>1, <1>3 DEF OuterWatchdogParks, OuterWatchdogLeaves, Guarded,
     AttemptGuarded, Ruined, Inside
<1>4. QED
  BY <1>2, <1>3 DEF Guarded

\* Every step preserves Guarded.
LEMMA NextGuards ==
  ASSUME EmptyOn = {}
  PROVE  PoolInv /\ [Next]_vars => Guarded'
<1>1. SUFFICES ASSUME PoolInv, [Next]_vars PROVE Guarded'
  OBVIOUS
<1>2. CASE Loop
  BY <1>1, <1>2, StartAttemptGuards, StopTimerGuards, SucceedGuards,
     GiveUpGuards, PlanRetryGuards, DoReturnedGuards DEF Loop
<1>3. CASE Network
  BY <1>1, <1>3, GotConnGuards, WriteRequestGuards, RespondGuards,
     NetworkFailsGuards, WakeGuards DEF Network
<1>4. CASE Reading
  BY <1>1, <1>4, ReadToEndGuards, ReadCutGuards DEF Reading
<1>5. CASE Aborting
  BY <1>1, <1>5, ConnClosedGuards, TripInterruptedGuards,
     SleepInterruptedGuards, ReadCutGuards DEF Aborting, ReadInterrupted
<1>6. CASE Watchdogs
  BY <1>1, <1>6, OuterWatchdogFiresGuards, WatchdogFiresGuards,
     OuterWatchdogRestsGuards, WatchdogRestsGuards
     DEF Watchdogs, OuterWatchdogRuns, WatchdogRuns
<1>7. CASE TimerFires \/ TimerCancels \/ Cancel \/ Expire
  BY <1>1, <1>7, TimerFiresGuards, TimerCancelsGuards, CancelGuards,
     ExpireGuards
<1>8. CASE OtherTakes \/ OtherReturns
  BY <1>1, <1>8, OtherTakesGuards, OtherReturnsGuards
<1>9. CASE UNCHANGED vars
  BY <1>1, <1>9 DEF vars, PoolInv, Guarded, CallGuarded, AttemptGuarded,
     BodyGuarded, Ruined, Inside
<1>10. QED
  BY <1>1, <1>2, <1>3, <1>4, <1>5, <1>6, <1>7, <1>8, <1>9 DEF Next

\* Only a watchdog touches a connection another request is using, and what it
\* captured is never such a connection as long as nobody has released it.
LEMMA NextSparesOthers ==
  ASSUME EmptyOn = {}, PoolInv, [Next]_vars, NEW c \in Conns, owner[c] = "other",
         owner'[c] = "closed"
  PROVE  OvertakenCloses(c)
<1>1. /\ TypeOK /\ Holds /\ CallGuarded /\ BodyGuarded
      /\ \A a \in Attempts : AttemptGuarded(a)
  BY DEF PoolInv, TInv, Guarded
<1>2. CASE OuterWatchdogRuns
  BY <1>1, <1>2 DEF OuterWatchdogRuns, OuterWatchdogParks, OuterWatchdogFires,
     OuterWatchdogLeaves, Closed, CallGuarded, Ruined, TypeOK, OvertakenCloses
<1>3. ASSUME NEW a \in Attempts, WatchdogRuns(a) PROVE OvertakenCloses(c)
  <2>1. /\ WatchdogFires(a)
        /\ watched[a] = c
    BY <1>1, <1>3 DEF WatchdogRuns, WatchdogParks, WatchdogFires,
       WatchdogLeaves, Closed, TypeOK
  <2>2. watch[a] = "released"
    BY <1>1, <2>1, TransportAssumption DEF WatchdogFires, AttemptGuarded, Ruined
  <2>3. watch'[a] = "gone"
    BY <1>1, <2>1 DEF WatchdogFires, TypeOK
  <2>4. QED
    BY <2>1, <2>2, <2>3 DEF OvertakenCloses
<1>4. CASE Loop
  BY <1>1, <1>4, TransportAssumption DEF BodyGuarded, Ruined, Loop, StartAttempt, StopTimer, TimedOutResponse, Succeed,
     GiveUp, PlanRetry, CloseFailed, Discarded, Closed, DoReturned, TypeOK,
     Holds
<1>5. CASE Network
  BY <1>1, <1>5, TransportAssumption DEF BodyGuarded, Ruined, Network, GotConn, Capture, WriteRequest, Respond,
     NetworkFails, TripFails, Wake, TypeOK, Holds
<1>6. CASE Reading
  BY <1>1, <1>6 DEF Reading, ReadToEnd, ReadCut, CloseBody, TypeOK, Holds
<1>7. CASE Aborting
  BY <1>1, <1>7, TransportAssumption DEF BodyGuarded, Ruined, Aborting, ConnClosed, TripInterrupted, TripFails,
     SleepInterrupted, ReadInterrupted, ReadCut, CloseBody, TypeOK, Holds
<1>8. CASE TimerFires \/ TimerCancels \/ Cancel \/ Expire
  BY <1>8 DEF TimerFires, TimerCancels, Cancel, Expire
<1>9. CASE OtherTakes \/ OtherReturns \/ UNCHANGED vars
  BY <1>1, <1>9 DEF OtherTakes, OtherReturns, vars, TypeOK
<1>10. QED
  BY <1>2, <1>3, <1>4, <1>5, <1>6, <1>7, <1>8, <1>9 DEF Next, Watchdogs

\* The two parts of the invariant, where responses have bodies.
THEOREM PoolInvariance == ASSUME EmptyOn = {} PROVE Spec => []PoolInv
<1>1. Init => PoolInv
  BY InitTInv DEF Init, PoolInv, Guarded, CallGuarded, AttemptGuarded,
     BodyGuarded
<1>2. PoolInv /\ [Next]_vars => PoolInv'
  BY NextTInv, NextGuards DEF PoolInv
<1>3. QED
  BY <1>1, <1>2, PTL DEF Spec

\* A response handed to the caller stays readable: no timer and no watchdog of
\* any attempt takes its context or its connection away while the call's own
\* context is live.
THEOREM BodyStaysUsable == ASSUME EmptyOn = {} PROVE Spec => []BodyUsable
<1>1. PoolInv => BodyUsable
  BY DEF PoolInv, TInv, Guarded, BodyGuarded, Waiting, Inside, BodyUsable
<1>2. QED
  BY <1>1, PoolInvariance, PTL

\* No watchdog closes a connection another request is using, unless it was
\* released before it ever reached its select.
THEOREM WatchdogsSpareOthers == ASSUME EmptyOn = {} PROVE Spec => NoForeignClose
<1>1. PoolInv /\ [Next]_vars =>
        [\A c \in Conns :
           owner[c] = "other" /\ owner'[c] = "closed" => OvertakenCloses(c)]_vars
  BY NextSparesOthers
<1>2. QED
  BY <1>1, PoolInvariance, PTL DEF Spec, NoForeignClose
=============================================================================
