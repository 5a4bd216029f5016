----------------------------- MODULE OpenAIAdapt -----------------------------
(***************************************************************************)
(* How the OpenAI client adapts to its model (provider/openai/adapt.go).   *)
(* A call of Chat or ChatStream builds a request from what the client has  *)
(* learned, sends it, and after a rejection it understands learns from it  *)
(* and builds the request anew, up to MaxSends times.  Calls of one client *)
(* run concurrently and share what is learned: each read and each write of *)
(* it holds learnedMu, but building a request takes several of them.       *)
(*                                                                         *)
(* The model behind the API is a record: which parameters it takes and at  *)
(* which efforts it takes a temperature.  A rejection names one thing the  *)
(* request carried that the model refuses, in any order; whatever else     *)
(* goes wrong (a value out of range, a status of 500) is "other".          *)
(*                                                                         *)
(* A caller may set extra body fields, which replace the library's own of  *)
(* the same name after it noted what it sent.  When they replace the       *)
(* effort, the tools or the model, the API judges another request than the *)
(* one the client has noted.                                               *)
(***************************************************************************)
EXTENDS Naturals, FiniteSets

CONSTANTS
  Calls,     \* the calls that may run at a time
  Requests,  \* what callers ask for
  Models,    \* the models a client may be bound to
  Forced,    \* openai.Extension{ResponsesAPI}: "unset", "chat", "responses"
  MaxSends

Level == {"none", "minimal", "low", "medium", "high", "xhigh", "max"}
Default == "default"    \* no reasoning effort

\* The kinds of effort alongside which a temperature is remembered as refused.
Class == {"default", "none", "reasoning"}

\* The extra body fields that matter here.
Replacing  == {"effort", "tools", "model"}
ExtraField == Replacing \cup {"temperature", "max_tokens"}

\* A request asks for an effort, may carry a temperature, a token limit, tools,
\* stop sequences and extra body fields.
RequestType ==
  [effort : Level \cup {Default}, temperature : BOOLEAN, maxTokens : BOOLEAN,
   tools : BOOLEAN, stops : BOOLEAN, extra : SUBSET ExtraField]

\* A model takes max_tokens or wants max_completion_tokens; takes a temperature
\* except at the efforts of some classes; takes some effort levels, or no
\* effort parameter at all; may refuse tools on Chat Completions at any effort
\* above none; may be available through /v1/responses only.
ModelType ==
  [maxTokens : BOOLEAN, noTemperature : SUBSET Class, levels : SUBSET Level,
   effort : BOOLEAN, toolsNeedNone : BOOLEAN, responsesOnly : BOOLEAN]

ASSUME OpenAIAssumption ==
  /\ Requests \subseteq RequestType
  /\ Models \subseteq ModelType
  /\ Forced \in {"unset", "chat", "responses"}
  /\ MaxSends \in Nat \ {0}

VARIABLES
  model,       \* the model the client is bound to
  learned,     \* the adjustments the client has learned
  pc,          \* per call: what it does next
  request,     \* per call: what the caller asked for
  sent,        \* per call: the request as built
  sends,       \* per call: the number of the request being sent
  applied,     \* per call: the adjustments it has made
  omitEffort,  \* per call: leave the effort out from now on
  stepped,     \* per call: a level has been replaced by its neighbour
  complaint,   \* per call: the rejection it got
  misled       \* history: the client has learned what is false of its model
               \* from a request in which extra fields replaced what it noted

callVars == <<pc, request, sent, sends, applied, omitEffort, stepped, complaint>>
vars == <<model, learned, callVars, misled>>

NoComplaint ==
  [param |-> "none", code |-> "none", mentions |-> "none", extra |-> FALSE]
NothingAsked == [effort |-> Default, temperature |-> FALSE, maxTokens |-> FALSE,
                 tools |-> FALSE, stops |-> FALSE, extra |-> {}]
NothingSent == [responses |-> FALSE, maxTokens |-> FALSE, effort |-> Default,
                temperature |-> FALSE, tools |-> FALSE]
NothingLearned ==
  [maxCompletionTokens |-> FALSE, responsesAPI |-> FALSE, dropTemperature |-> {},
   rejectedEffort |-> {}, effortUnsupported |-> FALSE]

Init ==
  /\ model \in Models
  /\ learned = NothingLearned
  /\ pc = [c \in Calls |-> "idle"]
  /\ request = [c \in Calls |-> NothingAsked]
  /\ sent = [c \in Calls |-> NothingSent]
  /\ sends = [c \in Calls |-> 0]
  /\ applied = [c \in Calls |-> {}]
  /\ omitEffort = [c \in Calls |-> FALSE]
  /\ stepped = [c \in Calls |-> FALSE]
  /\ complaint = [c \in Calls |-> NoComplaint]
  /\ misled = FALSE

-----------------------------------------------------------------------------
(* Reasoning effort and temperature *)

effortOrder == [none |-> 0, minimal |-> 1, low |-> 2, medium |-> 3, high |-> 4,
                xhigh |-> 5, max |-> 6]

\* mutant: medium itself has a neighbour, the level above it
PastMedium(effort) ==
  {e \in Level : effortOrder[e] \in effortOrder[effort] .. 4 \cup 3 .. effortOrder[effort]}

\* The levels from an effort to medium, a step at a time.
towardsMedium(effort) ==
  {e \in Level : effortOrder[e] \in effortOrder[effort] .. 3 \cup 3 .. effortOrder[effort]}

Nearer(effort, e, f) ==
  IF effortOrder[effort] <= 3 THEN effortOrder[e] < effortOrder[f]
  ELSE effortOrder[e] > effortOrder[f]

\* The nearest level towards medium that the model has not refused.
NearestAccepted(effort) ==
  LET nearest == {e \in towardsMedium(effort) \ learned.rejectedEffort :
                    \A f \in towardsMedium(effort) :
                      Nearer(effort, f, e) => f \in learned.rejectedEffort}
  IN  IF nearest = {} THEN Default ELSE CHOOSE e \in nearest : TRUE

ReasoningEffort(c) ==
  IF omitEffort[c] \/ learned.effortUnsupported \/ request[c].effort = Default
  THEN Default
  ELSE NearestAccepted(request[c].effort)

TemperatureFlag(effort) ==
  IF effort \in {"default", "none"} THEN effort ELSE "reasoning"

-----------------------------------------------------------------------------
(* Building a request *)

Goto(c, stage) == pc' = [pc EXCEPT ![c] = stage]

Begin(c) ==
  /\ pc[c] = "idle"
  /\ \E r \in Requests : request' = [request EXCEPT ![c] = r]
  /\ sends' = [sends EXCEPT ![c] = 1]
  /\ Goto(c, "route")
  /\ UNCHANGED <<model, learned, sent, applied, omitEffort, stepped, complaint,
                 misled>>

\* The call returns, and its locals with it.
Return(c) ==
  /\ Goto(c, "idle")
  /\ request' = [request EXCEPT ![c] = NothingAsked]
  /\ sent' = [sent EXCEPT ![c] = NothingSent]
  /\ sends' = [sends EXCEPT ![c] = 0]
  /\ applied' = [applied EXCEPT ![c] = {}]
  /\ omitEffort' = [omitEffort EXCEPT ![c] = FALSE]
  /\ stepped' = [stepped EXCEPT ![c] = FALSE]
  /\ complaint' = [complaint EXCEPT ![c] = NoComplaint]
  /\ UNCHANGED <<model, learned, misled>>

UseResponsesAPI ==
  Forced = "responses" \/ (Forced = "unset" /\ learned.responsesAPI)

\* The Responses API takes no stop sequences: a call with any fails unsent.
Route(c) ==
  /\ pc[c] = "route"
  /\ ~(UseResponsesAPI /\ request[c].stops)
  /\ sent' = [sent EXCEPT ![c] = [NothingSent EXCEPT !.responses = UseResponsesAPI,
                                                     !.tools = request[c].tools]]
  /\ Goto(c, "tokens")
  /\ UNCHANGED <<model, learned, request, sends, applied, omitEffort, stepped,
                 complaint, misled>>

RejectUnsupported(c) ==
  /\ pc[c] = "route"
  /\ UseResponsesAPI /\ request[c].stops
  /\ Return(c)

\* The Responses API has a parameter of its own for the token limit.
ReadTokens(c) ==
  /\ pc[c] = "tokens"
  /\ sent' = [sent EXCEPT ![c].maxTokens =
                ~sent[c].responses /\ request[c].maxTokens
                  /\ ~learned.maxCompletionTokens]
  /\ Goto(c, "effort")
  /\ UNCHANGED <<model, learned, request, sends, applied, omitEffort, stepped,
                 complaint, misled>>

ReadEffort(c) ==
  /\ pc[c] = "effort"
  /\ sent' = [sent EXCEPT ![c].effort = ReasoningEffort(c)]
  /\ Goto(c, "temperature")
  /\ UNCHANGED <<model, learned, request, sends, applied, omitEffort, stepped,
                 complaint, misled>>

\* mutant: the flag is that of the effort asked for, not of the one sent
FlagOfAsked(c) ==
  /\ pc[c] = "temperature"
  /\ sent' = [sent EXCEPT ![c].temperature =
                /\ request[c].temperature
                /\ TemperatureFlag(request[c].effort) \notin learned.dropTemperature]
  /\ Goto(c, "sent")
  /\ UNCHANGED <<model, learned, request, sends, applied, omitEffort, stepped,
                 complaint, misled>>

ReadTemperature(c) ==
  /\ pc[c] = "temperature"
  /\ sent' = [sent EXCEPT ![c].temperature =
                /\ request[c].temperature
                /\ TemperatureFlag(sent[c].effort) \notin learned.dropTemperature]
  /\ Goto(c, "sent")
  /\ UNCHANGED <<model, learned, request, sends, applied, omitEffort, stepped,
                 complaint, misled>>

-----------------------------------------------------------------------------
(* The API *)

Complaint(params, codes, mentions) ==
  [param : params, code : codes, mentions : {mentions}, extra : {FALSE}]

Refused == {"unsupported_value", "unsupported_parameter"}

\* What model m refuses of request s.
TokensFaults(s, m) ==
  IF s.maxTokens /\ ~m.maxTokens
  THEN Complaint({"max_tokens"}, {"unsupported_parameter"}, "none") ELSE {}

TemperatureFaults(s, m) ==
  IF s.temperature /\ TemperatureFlag(s.effort) \in m.noTemperature
  THEN Complaint({"temperature"}, {"unsupported_value"}, "none") ELSE {}

\* The error names the effort in its param or, with a null param, in its message.
EffortFaults(s, m) ==
  IF s.effort = Default THEN {}
  ELSE IF ~m.effort
    THEN Complaint({"effort", ""}, {"unsupported_parameter"}, "effort")
  ELSE IF s.effort \notin m.levels
    THEN Complaint({"effort", ""}, {"unsupported_value"}, "effort")
  ELSE IF m.toolsNeedNone /\ s.tools /\ ~s.responses /\ s.effort # "none"
    THEN Complaint({""}, Refused, "effort")
  ELSE {}

EndpointFaults(s, m) ==
  IF m.responsesOnly /\ ~s.responses
  THEN Complaint({""}, {"other"}, "endpoint") ELSE {}

\* The faults of the library's own fields.
Faults(c, s, m) ==
  EffortFaults(s, m) \cup EndpointFaults(s, m)
    \cup (IF "max_tokens" \in request[c].extra THEN {} ELSE TokensFaults(s, m))
    \cup (IF "temperature" \in request[c].extra THEN {} ELSE TemperatureFaults(s, m))

\* The requests that call c may have put on the wire, and the models that may
\* judge it: extra fields put others in the place of what was built.
Wires(c) ==
  {[sent[c] EXCEPT !.effort = e, !.tools = t] :
     e \in IF "effort" \in request[c].extra THEN Level \cup {Default}
           ELSE {sent[c].effort},
     t \in IF "tools" \in request[c].extra THEN BOOLEAN ELSE {sent[c].tools}}
Judges(c) == IF "model" \in request[c].extra THEN Models ELSE {model}

\* Extra fields replace something the client notes of the requests it sends.
Replaced(c) == request[c].extra \cap Replacing # {}

\* Of the extra fields, and of the values of the others, only the API knows
\* whether the model takes them.
NamedFaults(c) ==
  [param : request[c].extra \ {"tools", "model"}, code : {"unsupported_value"},
   mentions : {"none"}, extra : {TRUE}]

OtherFault(c) ==
  [param |-> "temperature", code |-> "other", mentions |-> "none",
   extra |-> "temperature" \in request[c].extra]

\* An extra effort may go unnamed: the endpoints call the field differently, and
\* a message need not quote it.
Complaints(c) ==
  NamedFaults(c) \cup {OtherFault(c)}
    \cup UNION {Faults(c, s, m) : s \in Wires(c), m \in Judges(c)}

\* A response, or an error that is not one: the call returns it.
Accepted(c) ==
  /\ pc[c] = "sent"
  /\ \E s \in Wires(c), m \in Judges(c) : Faults(c, s, m) = {}
  /\ Return(c)

Rejected(c) ==
  /\ pc[c] = "sent"
  /\ \E f \in Complaints(c) : complaint' = [complaint EXCEPT ![c] = f]
  /\ Goto(c, "rejected")
  /\ UNCHANGED <<model, learned, request, sent, sends, applied, omitEffort,
                 stepped, misled>>

-----------------------------------------------------------------------------
(* After a rejection *)

Adjustment(p, a) == [param |-> p, action |-> a]
None == Adjustment("none", "none")

RejectsMaxTokens(c) ==
  /\ sent[c].maxTokens /\ complaint[c].param = "max_tokens"
  /\ complaint[c].code = "unsupported_parameter"

RejectsTemperature(c) ==
  /\ sent[c].temperature /\ complaint[c].param = "temperature"
  /\ complaint[c].code \in Refused

RejectsReasoningEffort(c) ==
  /\ sent[c].effort # Default
  /\ \/ complaint[c].param = "effort"
     \/ complaint[c].param = "" /\ complaint[c].mentions = "effort"

RequiresResponsesAPI(c) ==
  /\ ~sent[c].responses /\ complaint[c].param = ""
  /\ Forced = "unset" /\ complaint[c].mentions = "endpoint"

\* mutant: a rejection that may be about the tools is learned as the effort's
EffortAlways(c) ==
  IF complaint[c].code = "unsupported_value" THEN Adjustment("effort", sent[c].effort)
  ELSE IF complaint[c].code = "unsupported_parameter" THEN Adjustment("effort", "all")
  ELSE None

\* With tools, a rejection that names the effort in its message alone may be
\* about the combination, so it is not remembered.
ClassifyEffort(c) ==
  IF complaint[c].param = "" /\ sent[c].tools THEN Adjustment("effort", "this call")
  ELSE IF complaint[c].code = "unsupported_value" THEN Adjustment("effort", sent[c].effort)
  ELSE IF complaint[c].code = "unsupported_parameter" THEN Adjustment("effort", "all")
  ELSE None

Classify(c) ==
  IF RejectsMaxTokens(c) THEN Adjustment("max_tokens", "renamed")
  ELSE IF RejectsTemperature(c)
    THEN Adjustment("temperature", TemperatureFlag(sent[c].effort))
  ELSE IF RejectsReasoningEffort(c) THEN ClassifyEffort(c)
  ELSE IF RequiresResponsesAPI(c) THEN Adjustment("endpoint", "responses")
  ELSE None

\* mutant: nothing is remembered of a refused level
LevelForgotten(action) ==
  IF action = "all" THEN [learned EXCEPT !.effortUnsupported = TRUE] ELSE learned

LearnEffort(action) ==
  CASE action = "all" -> [learned EXCEPT !.effortUnsupported = TRUE]
    [] action = "this call" -> learned
    [] OTHER -> [learned EXCEPT !.rejectedEffort = @ \cup {action}]

Learn(adj) ==
  CASE adj.param = "max_tokens" -> [learned EXCEPT !.maxCompletionTokens = TRUE]
    [] adj.param = "temperature" -> [learned EXCEPT !.dropTemperature = @ \cup {adj.action}]
    [] adj.param = "effort" -> LearnEffort(adj.action)
    [] adj.param = "endpoint" -> [learned EXCEPT !.responsesAPI = TRUE]

NamesExtraField(c) == complaint[c].extra

\* The rejection is one the client resolves by changing the request.
Resolvable(c) ==
  ~NamesExtraField(c) /\ Classify(c) # None /\ Classify(c) \notin applied[c]

\* The rejection is returned to the caller.
Stand(c) ==
  /\ pc[c] = "rejected" /\ ~Resolvable(c)
  /\ Return(c)

\* mutant: a second refused level is replaced as well
StepAgain(c, adj) ==
  /\ omitEffort' = [omitEffort EXCEPT ![c] = @ \/ adj.action = "this call"]
  /\ UNCHANGED stepped

\* The first refused level of a call is replaced by its neighbour, after the
\* second the effort is left out.
StepOrOmit(c, adj) ==
  LET level == adj.param = "effort" /\ adj.action \in Level
  IN  /\ omitEffort' = [omitEffort EXCEPT ![c] =
                          @ \/ (level /\ stepped[c]) \/ adj.action = "this call"]
      /\ stepped' = [stepped EXCEPT ![c] = @ \/ level]

\* What the client has learned is true of its model.
TrueOfModel ==
  /\ learned.maxCompletionTokens => ~model.maxTokens
  /\ learned.dropTemperature \subseteq model.noTemperature
  /\ learned.rejectedEffort \cap model.levels = {} \/ ~model.effort
  /\ learned.effortUnsupported => ~model.effort
  /\ learned.responsesAPI => model.responsesOnly

OutOfSends(c) == sends[c] = MaxSends

\* The client learns even from the last send it may make.
Adjust(c) ==
  /\ pc[c] = "rejected" /\ Resolvable(c)
  /\ LET adj == Classify(c)
     IN  /\ applied' = [applied EXCEPT ![c] = @ \cup {adj}]
         /\ StepOrOmit(c, adj)
         /\ learned' = Learn(adj)
  /\ IF OutOfSends(c)
     THEN Goto(c, "exhausted") /\ UNCHANGED sends
     ELSE Goto(c, "route") /\ sends' = [sends EXCEPT ![c] = @ + 1]
  /\ complaint' = [complaint EXCEPT ![c] = NoComplaint]
  /\ UNCHANGED <<model, request, sent>>
  /\ misled' = (misled \/ (Replaced(c) /\ ~TrueOfModel'))

\* The last rejection is returned.
Exhausted(c) ==
  /\ pc[c] = "exhausted"
  /\ Return(c)

Build(c) ==
  Route(c) \/ RejectUnsupported(c) \/ ReadTokens(c) \/ ReadEffort(c) \/ ReadTemperature(c)
Answer(c) == Accepted(c) \/ Rejected(c)
Handle(c) == Stand(c) \/ Adjust(c) \/ Exhausted(c)

Next == \E c \in Calls : Begin(c) \/ Build(c) \/ Answer(c) \/ Handle(c)

Spec == Init /\ [][Next]_vars

\* A call that has begun goes on; callers need not call again.
FairSpec == Spec /\ \A c \in Calls : WF_vars(Build(c) \/ Answer(c) \/ Handle(c))

-----------------------------------------------------------------------------
(* Properties *)

Stage == {"idle", "route", "tokens", "effort", "temperature", "sent", "rejected",
          "exhausted"}

ComplaintType ==
  [param : {"none", "", "max_tokens", "temperature", "effort"},
   code : {"none", "other"} \cup Refused, mentions : {"none", "effort", "endpoint"},
   extra : BOOLEAN]

AdjustmentType ==
  [param : {"max_tokens", "temperature", "effort", "endpoint"},
   action : Class \cup Level \cup {"renamed", "all", "this call", "responses"}]

\* Every variable holds a value of its type; no call sends more than MaxSends.
TypeOK ==
  /\ model \in Models
  /\ learned \in [maxCompletionTokens : BOOLEAN, responsesAPI : BOOLEAN,
                  dropTemperature : SUBSET Class, rejectedEffort : SUBSET Level,
                  effortUnsupported : BOOLEAN]
  /\ pc \in [Calls -> Stage]
  /\ request \in [Calls -> Requests \cup {NothingAsked}]
  /\ sent \in [Calls -> [responses : BOOLEAN, maxTokens : BOOLEAN,
                         effort : Level \cup {Default}, temperature : BOOLEAN,
                         tools : BOOLEAN]]
  /\ sends \in [Calls -> 0 .. MaxSends]
  /\ applied \in [Calls -> SUBSET AdjustmentType]
  /\ omitEffort \in [Calls -> BOOLEAN] /\ stepped \in [Calls -> BOOLEAN]
  /\ complaint \in [Calls -> ComplaintType]
  /\ misled \in BOOLEAN

\* Whatever the client has learned is true of its model: no rejection of one
\* call's request, of an extra field it names or of its combination with tools,
\* is held against later calls (adapt.go: a rejection "is acted on only when it
\* names something the library sent").  A client is excepted that learned what is
\* false from a request whose effort, tools or model an extra field had replaced:
\* the code then takes the rejection for one of the request it had built, so that
\* a temperature refused at the caller's effort is learned under its own.
LearnedTrue == misled \/ TrueOfModel

\* The calls the other properties are about: the client knows what they send,
\* and was not misled by the others.
Known(c) == ~misled /\ ~Replaced(c)

\* What the caller asked for is only given up for a cause: a built request
\* lacks its temperature, its level, its max_tokens or its endpoint only if the
\* model refuses them, although other calls were learning while it was built.
TemperatureForCause(c) ==
  request[c].temperature /\ ~sent[c].temperature =>
    TemperatureFlag(sent[c].effort) \in model.noTemperature
EffortCause(c) ==
  /\ request[c].effort # Default
  /\ \/ ~model.effort \/ request[c].effort \notin model.levels
     \/ model.toolsNeedNone /\ request[c].tools
EffortForCause(c) == sent[c].effort # request[c].effort => EffortCause(c)
TokensForCause(c) ==
  request[c].maxTokens /\ ~sent[c].responses /\ ~sent[c].maxTokens => ~model.maxTokens
EndpointForCause(c) == sent[c].responses => Forced = "responses" \/ model.responsesOnly

AdjustedForCause ==
  \A c \in Calls : pc[c] = "sent" /\ Known(c) =>
    /\ TemperatureForCause(c) /\ EffortForCause(c)
    /\ TokensForCause(c) /\ EndpointForCause(c)

\* A level is replaced by the nearest one towards medium that the model takes,
\* never by one on the other side of medium, and left out from the start only
\* if there is none: what is sent lies between what was asked for and medium,
\* and every level nearer to that is one the model refuses (towardsMedium: a
\* default would be "further from what the caller asked for than any
\* neighbour").
Between(i, j) == {e \in Level : effortOrder[e] \in i .. j \cup j .. i}
NearestSent(c) ==
  request[c].effort # Default /\ model.effort =>
    LET asked == effortOrder[request[c].effort]  medium == effortOrder["medium"]
        got == effortOrder[sent[c].effort]
    IN  /\ sent[c].effort # Default =>
             /\ sent[c].effort \in Between(asked, medium)
             /\ Between(asked, got) \cap model.levels \subseteq {sent[c].effort}
        /\ sent[c].effort = Default /\ sends[c] = 1 =>
             Between(asked, medium) \cap model.levels = {}

EffortNearest == \A c \in Calls : pc[c] = "sent" /\ Known(c) => NearestSent(c)

\* The most a call may have to give up on the model: its endpoint, the name of
\* its token limit, its temperature beside each kind of effort, and twice its
\* effort.
Refusals(c) ==
  LET count(P) == IF P THEN 1 ELSE 0
  IN  count(Forced = "unset" /\ model.responsesOnly)
      + count(request[c].maxTokens /\ ~model.maxTokens)
      + (IF request[c].temperature THEN Cardinality(model.noTemperature) ELSE 0)
      + 2 * count(EffortCause(c))

\* No send is wasted: a call fails for want of sends only when its request has
\* as many things to give up as it has sends.  This is less than the comments
\* promise ("so a chain of adjustments ... can complete", "a model accepting only
\* one level ... still gets a request it accepts within maxSends"): with four
\* sends that is so as long as at most one thing besides the effort has to be
\* given up.  When the endpoint and the temperature have to be, as the first
\* request of MCOpenAI has to on Pro, those two and two levels take all four
\* sends, and the call fails although a fifth would be accepted.
ExhaustedForCause ==
  \A c \in Calls : pc[c] = "exhausted" /\ Known(c) => Refusals(c) >= MaxSends

\* A client settles: from some moment on no request is rejected for something
\* the client can learn, whatever callers ask for ("later calls skip the failed
\* attempt").
Settles ==
  <>[](\A c \in Calls :
         pc[c] = "rejected" /\ Resolvable(c) => Classify(c).action = "this call")

-----------------------------------------------------------------------------
(* The inductive invariant *)

\* What has been built of a request, at each stage, is built for a cause.
BuiltForCause(c) ==
  /\ pc[c] \in {"tokens", "effort", "temperature", "sent", "rejected"} =>
       EndpointForCause(c) /\ sent[c].tools = request[c].tools
  /\ pc[c] \in {"effort", "temperature", "sent", "rejected"} => TokensForCause(c)
  /\ pc[c] \in {"temperature", "sent", "rejected"} => EffortForCause(c) /\ NearestSent(c)
  /\ pc[c] \in {"sent", "rejected"} => TemperatureForCause(c)

\* A call leaves its effort out, or has replaced it once, only for a cause, and
\* not before it has sent a request.
OmittedForCause(c) ==
  /\ omitEffort[c] \/ stepped[c] => EffortCause(c)
  /\ omitEffort[c] /\ pc[c] # "exhausted" => sends[c] > 1
  /\ pc[c] # "idle" => sends[c] > 0
  /\ pc[c] = "idle" => ~omitEffort[c] /\ ~stepped[c]

\* A rejection is of the request that was sent.
ComplaintOfSent(c) == pc[c] = "rejected" => complaint[c] \in Complaints(c)

CallInv(c) == BuiltForCause(c) /\ OmittedForCause(c) /\ ComplaintOfSent(c)

\* A call that is not running asks for nothing.
IdleAsksNothing == \A c \in Calls : pc[c] = "idle" => request[c] = NothingAsked

\* The inductive invariant of the proofs.
IInv ==
  /\ TypeOK /\ LearnedTrue /\ IdleAsksNothing
  /\ \A c \in Calls : Known(c) => CallInv(c)

=============================================================================
