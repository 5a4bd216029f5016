--------------------------- MODULE AnthropicAdapt ----------------------------
(***************************************************************************)
(* How the Anthropic client adapts to its model and endpoint               *)
(* (provider/anthropic/adapt.go).  Calls of Chat and ChatStream build a    *)
(* request from what the client has learned, drop from it what the call    *)
(* alone has learned, send it, and after a rejection they understand build *)
(* and send it anew, up to MaxSends times.  Calls of one client run        *)
(* concurrently; each read and each write of what the client has learned   *)
(* holds its mutex.                                                        *)
(*                                                                         *)
(* A rejection names one fault of the request; which one is up to the API, *)
(* except that an API checks the signatures of replayed thinking blocks    *)
(* either before everything else or after.  Whatever else goes wrong is    *)
(* "other".                                                                *)
(***************************************************************************)
EXTENDS Naturals, FiniteSets

CONSTANTS
  Calls,     \* the calls that may run at a time
  Requests,  \* what callers ask for
  Apis,      \* the models and endpoints a client may be bound to
  MaxSends

Level == {"low", "medium", "high", "xhigh", "max"}  \* output_config.effort
Effort == {"default", "none", "minimal"} \cup Level
Type == {"adaptive", "disabled", "enabled"}         \* thinking.type
Unset == "unset"

\* A temperature is 1 or another; extended thinking is the Extension's; auto
\* asks for the top-level cache_control marker; marks says which blocks carry
\* markers of their own: none, some, a replayed thinking block, or as many as a
\* request may have; replayed says whether the history has thinking blocks and
\* whether their signatures still hold.
RequestType ==
  [temperature : {Unset, "one", "other"}, effort : Effort, extended : BOOLEAN,
   auto : BOOLEAN, marks : {"none", "some", "thinking", "full"},
   replayed : {"none", "valid", "stale"}]

\* An API takes any temperature, none, or none but 1 together with thinking; it
\* takes some thinking types and some levels, of these some only beside thinking
\* ("output_config.effort 'xhigh' is not supported when thinking is disabled");
\* it takes the top-level marker, and markers on the blocks that are marked, or
\* not.
ApiType ==
  [temperature : {"any", "refused", "not with thinking"}, types : SUBSET Type,
   levels : SUBSET Level, besideThinking : SUBSET Level, marker : BOOLEAN,
   marked : SUBSET {"some", "thinking", "full"}, signatureFirst : BOOLEAN]

ASSUME AnthropicAssumption ==
  /\ Requests \subseteq RequestType
  /\ \A r \in Requests : r.marks = "thinking" => r.replayed # "none"
  /\ Apis \subseteq ApiType
  /\ MaxSends \in Nat \ {0}

VARIABLES
  api,      \* the model and endpoint the client is bound to
  learned,  \* dropTemperature, rejectedThinking, rejectedEffort, dropAutoCaching
  pc,       \* per call: what it does next
  request,  \* per call: what the caller asked for
  sent,     \* per call: the request as built
  sends,    \* per call: the number of the request being sent
  applied   \* per call: the adjustments it has made

vars == <<api, learned, pc, request, sent, sends, applied>>

NothingAsked == [temperature |-> Unset, effort |-> "default", extended |-> FALSE,
                 auto |-> FALSE, marks |-> "none", replayed |-> "none"]
NothingSent == [temperature |-> Unset, thinking |-> Unset, effort |-> Unset,
                marker |-> FALSE, marks |-> "none", replayed |-> "none"]

Init ==
  /\ api \in Apis
  /\ learned = [temperature |-> FALSE, types |-> {}, levels |-> {}, marker |-> FALSE]
  /\ pc = [c \in Calls |-> "idle"]
  /\ request = [c \in Calls |-> NothingAsked]
  /\ sent = [c \in Calls |-> NothingSent]
  /\ sends = [c \in Calls |-> 0]
  /\ applied = [c \in Calls |-> {}]

Goto(c, stage) == pc' = [pc EXCEPT ![c] = stage]

-----------------------------------------------------------------------------
(* Building a request *)

Begin(c) ==
  /\ pc[c] \in {"idle", "exhausted"}
  /\ \E r \in Requests : request' = [request EXCEPT ![c] = r]
  /\ sends' = [sends EXCEPT ![c] = 1]
  /\ applied' = [applied EXCEPT ![c] = {}]
  /\ Goto(c, "temperature")
  /\ UNCHANGED <<api, learned, sent>>

\* The call returns, and its locals with it.
Return(c) ==
  /\ Goto(c, "idle")
  /\ request' = [request EXCEPT ![c] = NothingAsked]
  /\ sent' = [sent EXCEPT ![c] = NothingSent]
  /\ sends' = [sends EXCEPT ![c] = 0]
  /\ applied' = [applied EXCEPT ![c] = {}]
  /\ UNCHANGED api

ReadTemperature(c) ==
  /\ pc[c] = "temperature"
  /\ sent' = [sent EXCEPT ![c] =
       [NothingSent EXCEPT
          !.temperature = IF learned.temperature THEN Unset ELSE request[c].temperature,
          !.marks = request[c].marks, !.replayed = request[c].replayed]]
  /\ Goto(c, "effort")
  /\ UNCHANGED <<api, learned, request, sends, applied>>

\* The thinking type of an effort, and its level.
TypeOf(effort) ==
  IF effort = "default" THEN Unset
  ELSE IF effort = "none" THEN "disabled" ELSE "adaptive"

\* Anthropic has no "minimal".
LevelOf(effort) ==
  IF effort \in Level THEN effort ELSE IF effort = "minimal" THEN "low" ELSE Unset

Thinking(c) ==
  IF request[c].extended THEN "enabled"
  ELSE IF TypeOf(request[c].effort) \in learned.types THEN Unset
  ELSE TypeOf(request[c].effort)

EffortLevel(c) ==
  IF LevelOf(request[c].effort) \in learned.levels THEN Unset
  ELSE LevelOf(request[c].effort)

\* Adaptive thinking is incompatible with any temperature other than 1.
Compatible(temperature, thinking) ==
  IF thinking = "adaptive" /\ temperature = "other" THEN Unset ELSE temperature

ReadEffort(c) ==
  /\ pc[c] = "effort"
  /\ sent' = [sent EXCEPT ![c].thinking = Thinking(c), ![c].effort = EffortLevel(c),
                          ![c].temperature = Compatible(@, Thinking(c))]
  /\ Goto(c, "caching")
  /\ UNCHANGED <<api, learned, request, sends, applied>>

\* mutant: the stripped blocks are put back by the next build
BlocksReturn(c, s) ==
  [s EXCEPT !.temperature = IF "temperature" \in applied[c] THEN Unset ELSE @,
            !.marker = IF "cache_control/this call" \in applied[c] THEN FALSE ELSE @]

\* What the call has dropped for itself.  Markers on stripped blocks go too.
OmitForCall(c, s) ==
  LET strip == "thinking blocks" \in applied[c]
  IN  [s EXCEPT !.temperature = IF "temperature" \in applied[c] THEN Unset ELSE @,
                !.marker = IF "cache_control/this call" \in applied[c] THEN FALSE ELSE @,
                !.marks = IF strip /\ @ = "thinking" THEN "none" ELSE @,
                !.replayed = IF strip THEN "none" ELSE @]

\* The top-level marker is added unless the blocks use all markers.
ReadCaching(c) ==
  /\ pc[c] = "caching"
  /\ sent' = [sent EXCEPT ![c] =
       OmitForCall(c, [@ EXCEPT !.marker = /\ request[c].auto /\ ~learned.marker
                                           /\ sent[c].marks # "full"])]
  /\ Goto(c, "sent")
  /\ UNCHANGED <<api, learned, request, sends, applied>>

-----------------------------------------------------------------------------
(* The API *)

\* What an error message is about, and whether it mentions thinking.
Complaint(about, thinking) == [about |-> about, thinking |-> thinking]

TemperatureFaults(s) ==
  IF s.temperature # Unset /\ api.temperature = "refused"
  THEN {Complaint("temperature", t) : t \in BOOLEAN}
  ELSE IF /\ s.temperature = "other" /\ api.temperature = "not with thinking"
          /\ s.thinking \in {"adaptive", "enabled"}
  THEN {Complaint("temperature", TRUE)} ELSE {}

\* A message about a level may mention thinking; one about a thinking type that
\* mentions the effort names thinking.type, so it is told apart.
EffortFaults(s) ==
  IF \/ s.effort \notin api.levels \cup {Unset}
     \/ s.effort \in api.besideThinking /\ s.thinking \in {"disabled", Unset}
  THEN {Complaint("effort", t) : t \in BOOLEAN} ELSE {}

ThinkingFaults(s) ==
  IF s.thinking \notin api.types \cup {Unset} THEN {Complaint("thinking", TRUE)} ELSE {}

MarkerFaults(s) ==
  IF (s.marker /\ ~api.marker) \/ s.marks \notin api.marked \cup {"none"}
  THEN {Complaint("cache_control", FALSE)} ELSE {}

SignatureFaults(s) ==
  IF s.replayed = "stale" THEN {Complaint("signature", TRUE)} ELSE {}

Faults(s) ==
  LET others == TemperatureFaults(s) \cup EffortFaults(s) \cup ThinkingFaults(s)
                  \cup MarkerFaults(s)
      signature == SignatureFaults(s)
  IN  IF signature # {} /\ (api.signatureFirst \/ others = {}) THEN signature ELSE others

\* Another error, or one about thinking blocks that cannot be modified.
OtherFaults == {Complaint("other", FALSE), Complaint("blocks", TRUE)}

-----------------------------------------------------------------------------
(* After the answer *)

\* mutant: the thinking that a request carries is not thought of
NeverForThinking(s, f) == FALSE

TemperatureRejectedForThinking(s, f) ==
  s.thinking # Unset /\ (s.thinking = "enabled" \/ f.thinking)

\* mutant: a marker is dropped for good although the blocks carry markers
MarkerAtOnce(s, f) ==
  CASE f.about = "signature" /\ s.replayed # "none" -> "thinking blocks"
    [] f.about = "temperature" /\ s.temperature # Unset -> "temperature"
    [] f.about = "effort" /\ s.effort # Unset -> "effort"
    [] f.about = "cache_control" /\ s.marker -> "cache_control"
    [] f.about = "thinking" /\ s.thinking \in {"adaptive", "disabled"} -> "thinking"
    [] OTHER -> "none"

\* The adjustment that a rejection calls for, or "none".
AdaptToRejection(s, f) ==
  CASE f.about = "signature" /\ s.replayed # "none" -> "thinking blocks"
    [] f.about = "temperature" /\ s.temperature # Unset -> "temperature"
    [] f.about = "effort" /\ s.effort # Unset -> "effort"
    [] f.about = "cache_control" /\ s.marker ->
         IF s.marks = "none" THEN "cache_control" ELSE "cache_control/this call"
    [] f.about = "thinking" /\ s.thinking \in {"adaptive", "disabled"} -> "thinking"
    [] OTHER -> "none"

\* mutant: a refused thinking type is left out of this call only
TypeForgotten(s, f) ==
  LET adj == AdaptToRejection(s, f)
  IN  CASE adj = "temperature" /\ ~TemperatureRejectedForThinking(s, f) ->
             [learned EXCEPT !.temperature = TRUE]
        [] adj = "effort" -> [learned EXCEPT !.levels = @ \cup {s.effort}]
        [] adj = "cache_control" -> [learned EXCEPT !.marker = TRUE]
        [] OTHER -> learned

\* What the client learns from a rejection.
Lesson(s, f) ==
  LET adj == AdaptToRejection(s, f)
  IN  CASE adj = "temperature" /\ ~TemperatureRejectedForThinking(s, f) ->
             [learned EXCEPT !.temperature = TRUE]
        [] adj = "effort" -> [learned EXCEPT !.levels = @ \cup {s.effort}]
        [] adj = "cache_control" -> [learned EXCEPT !.marker = TRUE]
        [] adj = "thinking" -> [learned EXCEPT !.types = @ \cup {s.thinking}]
        [] OTHER -> learned

\* mutant: the last request but one is taken for the last
OneShort(c) == sends[c] + 1 = MaxSends

OutOfSends(c) == sends[c] = MaxSends

\* A rejection: the client learns from it in any case, and the call builds its
\* request anew unless it has made that adjustment before.  A call that is out of
\* sends has returned the rejection; it stays "exhausted" until the next begins.
Rejected(c) ==
  /\ pc[c] = "sent"
  /\ \E f \in Faults(sent[c]) \cup OtherFaults :
       LET adj == AdaptToRejection(sent[c], f)
       IN  /\ learned' = Lesson(sent[c], f)
           /\ \/ /\ adj \in applied[c] \cup {"none"}
                 /\ Return(c)
              \/ /\ adj \notin applied[c] \cup {"none"}
                 /\ applied' = [applied EXCEPT ![c] = @ \cup {adj}]
                 /\ Goto(c, IF OutOfSends(c) THEN "exhausted" ELSE "temperature")
                 /\ sends' = [sends EXCEPT ![c] = IF OutOfSends(c) THEN @ ELSE @ + 1]
                 /\ UNCHANGED <<api, request, sent>>

\* The marker that the call had dropped for itself was the cause.
Accepted(c) ==
  /\ pc[c] = "sent" /\ Faults(sent[c]) = {}
  /\ learned' = [learned EXCEPT !.marker = @ \/ "cache_control/this call" \in applied[c]]
  /\ Return(c)

Build(c) == ReadTemperature(c) \/ ReadEffort(c) \/ ReadCaching(c)
Answer(c) == Accepted(c) \/ Rejected(c)

Next == \E c \in Calls : Begin(c) \/ Build(c) \/ Answer(c)

Spec == Init /\ [][Next]_vars

\* A call that has begun goes on; callers need not call again.
FairSpec == Spec /\ \A c \in Calls : WF_vars(Build(c) \/ Answer(c))

-----------------------------------------------------------------------------
(* Properties *)

Adjustments == {"temperature", "thinking", "effort", "cache_control",
                "cache_control/this call", "thinking blocks"}

SentType ==
  [temperature : {Unset, "one", "other"}, thinking : Type \cup {Unset},
   effort : Level \cup {Unset}, marker : BOOLEAN,
   marks : {"none", "some", "thinking", "full"}, replayed : {"none", "valid", "stale"}]

\* Every variable holds a value of its type; no call sends more than MaxSends.
TypeOK ==
  /\ api \in Apis
  /\ learned \in [temperature : BOOLEAN, types : SUBSET Type, levels : SUBSET Level,
                  marker : BOOLEAN]
  /\ pc \in [Calls -> {"idle", "temperature", "effort", "caching", "sent", "exhausted"}]
  /\ request \in [Calls -> Requests \cup {NothingAsked}]
  /\ sent \in [Calls -> SentType]
  /\ sends \in [Calls -> 0 .. MaxSends]
  /\ applied \in [Calls -> SUBSET Adjustments]

\* The levels that the model refuses, and those that it takes beside thinking when
\* it does not take the thinking that goes with a level.  The latter are refused
\* in a request that has lost its thinking, and learnRejected leaves them out of
\* every later request, those with extended thinking included, beside which the
\* model would take them.  A model that takes adaptive thinking loses no level.
RefusedLevels ==
  {l \in Level : \/ l \notin api.levels
                 \/ l \in api.besideThinking /\ "adaptive" \notin api.types}

\* Whatever the client has learned is true of its model and endpoint, although
\* a temperature may have been refused for the thinking beside it, a level for
\* the lack of it, a marker for those of the blocks, and a call confirms late
\* (adaptToRejection, confirmAdjustments: "was the cause of the rejection, since
\* the resend without it succeeded").
LearnedTrue ==
  /\ learned.temperature => api.temperature = "refused"
  /\ learned.types \cap api.types = {}
  /\ learned.levels \subseteq RefusedLevels
  /\ learned.marker => ~api.marker

\* A request gives up what its caller asked for only for a cause: the model
\* refuses it, or refuses it beside what else the request carries.  A
\* temperature dropped for adaptive thinking comes back when the thinking goes.
AdjustedForCause ==
  \A c \in Calls : pc[c] = "sent" =>
    LET r == request[c]  s == sent[c]
    IN  /\ s.temperature # r.temperature =>
             \/ api.temperature = "refused"
             \/ api.temperature = "not with thinking" /\ s.thinking = "enabled"
             \/ r.temperature = "other" /\ s.thinking = "adaptive"
        /\ s.thinking # (IF r.extended THEN "enabled" ELSE TypeOf(r.effort)) =>
             ~r.extended /\ TypeOf(r.effort) \notin api.types
        /\ s.effort # LevelOf(r.effort) => LevelOf(r.effort) \in RefusedLevels
        /\ r.auto /\ ~s.marker =>
             ~api.marker \/ r.marks \notin api.marked \cup {"none"} \/ r.marks = "full"
        /\ s.replayed # r.replayed => r.replayed = "stale"

\* What a call has adjusted does not come back: no request of it can be rejected
\* for a reason it has dealt with, whatever other calls learn while it is built
\* (omitForCall, the learned flags).
AdjustmentsHold ==
  \A c \in Calls : pc[c] = "sent" =>
    \A f \in Faults(sent[c]) : AdaptToRejection(sent[c], f) \notin applied[c]

\* MaxSends is enough: no call is given an error that the client could have
\* resolved by another send (adapt.go: "so a chain of adjustments (temperature,
\* thinking type, effort level, the cache_control marker and the replayed
\* thinking blocks, each rejected in turn) can complete").
GetsThrough == \A c \in Calls : pc[c] # "exhausted"

\* A client settles: from some moment on a request is sent anew only for what
\* concerns the call alone, namely replayed thinking blocks, markers of the
\* blocks, and a temperature beside thinking ("the client omits that level or
\* type from every later request").
OfTheCall(c, adj) ==
  \/ adj \in {"thinking blocks", "cache_control/this call"}
  \/ adj = "temperature" /\ sent[c].thinking # Unset

Settles ==
  <>[][\A c \in Calls : \A adj \in applied'[c] \ applied[c] : OfTheCall(c, adj)]_vars

-----------------------------------------------------------------------------
(* The inductive invariant *)

TemperatureCause(c) ==
  \/ api.temperature = "refused"
  \/ api.temperature = "not with thinking" /\ request[c].extended

\* Why a call left out the top-level marker although its blocks carry some.  A
\* marker on a thinking block is not stripped once it has been complained of:
\* the API would have complained of the signature before, or never will.
MarkersCause(c) ==
  \/ ~api.marker
  \/ /\ request[c].marks \notin api.marked \cup {"none"}
     /\ request[c].marks = "thinking" =>
          /\ "thinking blocks" \notin applied[c]
          /\ api.signatureFirst => request[c].replayed # "stale"

\* Each adjustment a call has made had a cause, and lasts.
AppliedForCause(c) ==
  /\ "temperature" \in applied[c] => TemperatureCause(c)
  /\ "thinking" \in applied[c] =>
       ~request[c].extended /\ TypeOf(request[c].effort) \in learned.types
  /\ "effort" \in applied[c] => LevelOf(request[c].effort) \in learned.levels
  /\ "cache_control" \in applied[c] => learned.marker
  /\ "cache_control/this call" \in applied[c] => MarkersCause(c)
  /\ "thinking blocks" \in applied[c] => request[c].replayed = "stale"
  /\ "cache_control" \in applied[c] => "cache_control/this call" \notin applied[c]

TemperatureBuilt(c) ==
  sent[c].temperature # request[c].temperature =>
    /\ sent[c].temperature = Unset
    /\ \/ TemperatureCause(c)
       \/ request[c].temperature = "other" /\ sent[c].thinking = "adaptive"

ThinkingBuilt(c) ==
  /\ request[c].extended => sent[c].thinking = "enabled"
  /\ ~request[c].extended =>
       /\ sent[c].thinking \in {Unset, TypeOf(request[c].effort)}
       /\ sent[c].thinking # TypeOf(request[c].effort) =>
            TypeOf(request[c].effort) \notin api.types
       /\ "thinking" \in applied[c] => sent[c].thinking = Unset
  /\ sent[c].thinking = "adaptive" => sent[c].temperature # "other"

EffortBuilt(c) ==
  /\ sent[c].effort \in {Unset, LevelOf(request[c].effort)}
  /\ sent[c].effort # LevelOf(request[c].effort) =>
       LevelOf(request[c].effort) \in RefusedLevels
  /\ "effort" \in applied[c] => sent[c].effort = Unset

BlocksKept(c) ==
  sent[c].marks = request[c].marks /\ sent[c].replayed = request[c].replayed

MarkerBuilt(c) ==
  /\ sent[c].marker =>
       applied[c] \cap {"cache_control", "cache_control/this call"} = {}
  /\ request[c].auto /\ ~sent[c].marker =>
       ~api.marker \/ MarkersCause(c) \/ request[c].marks = "full"

\* What the call has dropped for itself is gone.
Omitted(c) ==
  /\ "temperature" \in applied[c] => sent[c].temperature = Unset
  /\ IF "thinking blocks" \in applied[c]
     THEN /\ sent[c].replayed = "none"
          /\ sent[c].marks = IF request[c].marks = "thinking" THEN "none"
                             ELSE request[c].marks
     ELSE BlocksKept(c)

\* Every send but the first follows an adjustment.
Counted(c) ==
  /\ pc[c] = "idle" => sends[c] = 0 /\ applied[c] = {}
  /\ pc[c] = "exhausted" => Cardinality(applied[c]) = MaxSends
  /\ pc[c] \notin {"idle", "exhausted"} => Cardinality(applied[c]) + 1 = sends[c]

CallInv(c) ==
  /\ AppliedForCause(c) /\ Counted(c)
  /\ pc[c] # "idle" => request[c] \in Requests
  /\ pc[c] \in {"effort", "caching", "sent"} => TemperatureBuilt(c)
  /\ pc[c] = "effort" => sent[c].thinking = Unset
  /\ pc[c] \in {"effort", "caching"} => BlocksKept(c)
  /\ pc[c] \in {"caching", "sent"} => ThinkingBuilt(c) /\ EffortBuilt(c)
  /\ pc[c] = "sent" => MarkerBuilt(c) /\ Omitted(c)

IInv == TypeOK /\ LearnedTrue /\ \A c \in Calls : CallInv(c)

=============================================================================
