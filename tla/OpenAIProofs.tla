---------------------------- MODULE OpenAIProofs -----------------------------
(***************************************************************************)
(* Proofs about OpenAIAdapt, for every set of calls, requests and models,  *)
(* every pinned endpoint and every number of sends.  IInv says that what a *)
(* request leaves out has a cause; JInv adds that each send but the first  *)
(* follows an adjustment that was not made before.                         *)
(***************************************************************************)
EXTENDS OpenAIAdapt, FiniteSetTheorems, TLAPS

-----------------------------------------------------------------------------
(* Efforts *)

\* The order of the levels is a number each, medium in the middle.
LEMMA OrderOfLevels ==
  /\ effortOrder["none"] = 0 /\ effortOrder["minimal"] = 1 /\ effortOrder["low"] = 2
  /\ effortOrder["medium"] = 3 /\ effortOrder["high"] = 4 /\ effortOrder["xhigh"] = 5
  /\ effortOrder["max"] = 6
BY DEF effortOrder

LEMMA OrderTypes ==
  ASSUME NEW e \in Level
  PROVE  effortOrder[e] \in 0 .. 6
BY OrderOfLevels DEF Level

\* The default is not one of the levels.
LEMMA DefaultIsNoLevel == Default \notin Level
BY DEF Default, Level

\* What NearestAccepted returns: a level it has not been told of is returned as
\* it is; any other is replaced by one towards medium, and every level nearer to
\* it has been refused.
LEMMA NearestAcceptedIs ==
  ASSUME NEW e \in Level
  PROVE  LET n == NearestAccepted(e) IN
         /\ n \in Level \cup {Default}
         /\ n # Default =>
              /\ n \in towardsMedium(e) \ learned.rejectedEffort
              /\ \A f \in towardsMedium(e) :
                   Nearer(e, f, n) => f \in learned.rejectedEffort
<1> DEFINE nearest == {l \in towardsMedium(e) \ learned.rejectedEffort :
                         \A f \in towardsMedium(e) :
                           Nearer(e, f, l) => f \in learned.rejectedEffort}
<1>1. CASE nearest = {}
  BY <1>1 DEF NearestAccepted
<1>2. CASE nearest # {}
  <2>1. NearestAccepted(e) \in nearest
    BY <1>2 DEF NearestAccepted
  <2>2. QED
    BY <2>1 DEF towardsMedium
<1>3. QED
  BY <1>1, <1>2

\* A level that has not been refused is its own nearest.
LEMMA NearestIsAsked ==
  ASSUME NEW e \in Level, e \notin learned.rejectedEffort
  PROVE  NearestAccepted(e) = e
<1> DEFINE nearest == {l \in towardsMedium(e) \ learned.rejectedEffort :
                         \A f \in towardsMedium(e) :
                           Nearer(e, f, l) => f \in learned.rejectedEffort}
<1>1. e \in towardsMedium(e)
  BY OrderTypes DEF towardsMedium
<1>2. \A f \in towardsMedium(e) : ~Nearer(e, f, e)
  BY OrderTypes DEF towardsMedium, Nearer
<1>3. e \in nearest
  BY <1>1, <1>2
<1>4. \A l \in nearest : l = e
  <2> SUFFICES ASSUME NEW l \in nearest, l # e PROVE FALSE
    OBVIOUS
  <2>1. ~Nearer(e, e, l)
    BY <1>1
  <2>2. l \in Level /\ l \in towardsMedium(e)
    BY DEF towardsMedium
  <2>3. effortOrder[l] # effortOrder[e]
    BY <2>2, OrderOfLevels DEF Level
  <2>4. QED
    BY <2>1, <2>2, <2>3, OrderTypes DEF Nearer, towardsMedium
<1>5. NearestAccepted(e) \in nearest
  BY <1>3 DEF NearestAccepted
<1>6. QED
  BY <1>4, <1>5

\* If none is left, every level from the effort to medium has been refused.
LEMMA NoneIsLeft ==
  ASSUME NEW e \in Level, NearestAccepted(e) = Default
  PROVE  towardsMedium(e) \subseteq learned.rejectedEffort
<1> DEFINE refused == learned.rejectedEffort
           nearest == {l \in towardsMedium(e) \ refused :
                         \A f \in towardsMedium(e) : Nearer(e, f, l) => f \in refused}
<1>1. nearest = {}
  <2> SUFFICES ASSUME nearest # {} PROVE FALSE
    OBVIOUS
  <2>1. NearestAccepted(e) \in nearest
    BY DEF NearestAccepted
  <2>2. QED
    BY <2>1, DefaultIsNoLevel DEF towardsMedium
<1>2. \A l \in Level : l \in towardsMedium(e) <=>
        \/ effortOrder[e] <= effortOrder[l] /\ effortOrder[l] <= 3
        \/ 3 <= effortOrder[l] /\ effortOrder[l] <= effortOrder[e]
  BY OrderTypes DEF towardsMedium
<1>3. \A l \in towardsMedium(e) :
        l \in refused \/ \E f \in towardsMedium(e) : Nearer(e, f, l) /\ f \notin refused
  BY <1>1
<1>4. towardsMedium(e) \subseteq Level
  BY DEF towardsMedium
<1>5. CASE effortOrder[e] <= 3
  <2>1. \A f, l \in Level : Nearer(e, f, l) <=> effortOrder[f] < effortOrder[l]
    BY <1>5 DEF Nearer
  <2>2. ("none" \in towardsMedium(e) => "none" \in refused)
    BY <1>2, <1>3, <1>4, <2>1, OrderOfLevels DEF Level
  <2>3. ("minimal" \in towardsMedium(e) => "minimal" \in refused)
    BY <1>2, <1>3, <1>4, <2>1, <2>2, OrderOfLevels DEF Level
  <2>4. ("low" \in towardsMedium(e) => "low" \in refused)
    BY <1>2, <1>3, <1>4, <2>1, <2>2, <2>3, OrderOfLevels DEF Level
  <2>5. ("medium" \in towardsMedium(e) => "medium" \in refused)
    BY <1>2, <1>3, <1>4, <2>1, <2>2, <2>3, <2>4, OrderOfLevels DEF Level
  <2>6. ~("high" \in towardsMedium(e)) /\ ~("xhigh" \in towardsMedium(e))
           /\ ~("max" \in towardsMedium(e))
    BY <1>2, <1>5, OrderOfLevels, OrderTypes DEF Level
  <2>7. QED
    BY <1>4, <2>2, <2>3, <2>4, <2>5, <2>6 DEF Level
<1>6. CASE ~(effortOrder[e] <= 3)
  <2>1. \A f, l \in Level : Nearer(e, f, l) <=> effortOrder[f] > effortOrder[l]
    BY <1>6 DEF Nearer
  <2>2. ("max" \in towardsMedium(e) => "max" \in refused)
    BY <1>2, <1>3, <1>4, <2>1, OrderOfLevels DEF Level
  <2>3. ("xhigh" \in towardsMedium(e) => "xhigh" \in refused)
    BY <1>2, <1>3, <1>4, <2>1, <2>2, OrderOfLevels DEF Level
  <2>4. ("high" \in towardsMedium(e) => "high" \in refused)
    BY <1>2, <1>3, <1>4, <2>1, <2>2, <2>3, OrderOfLevels DEF Level
  <2>5. ("medium" \in towardsMedium(e) => "medium" \in refused)
    BY <1>2, <1>3, <1>4, <2>1, <2>2, <2>3, <2>4, OrderOfLevels DEF Level
  <2>6. ~("none" \in towardsMedium(e)) /\ ~("minimal" \in towardsMedium(e))
           /\ ~("low" \in towardsMedium(e))
    BY <1>2, <1>6, OrderOfLevels, OrderTypes DEF Level
  <2>7. QED
    BY <1>4, <2>2, <2>3, <2>4, <2>5, <2>6 DEF Level
<1>7. QED
  BY <1>5, <1>6

-----------------------------------------------------------------------------
(* Rejections *)

\* The parts of an adjustment.
LEMMA AdjustmentParts ==
  ASSUME NEW p, NEW a
  PROVE  /\ Adjustment(p, a).param = p /\ Adjustment(p, a).action = a
         /\ p \in {"max_tokens", "temperature", "effort", "endpoint"}
              /\ a \in Class \cup Level \cup {"renamed", "all", "this call", "responses"}
              => Adjustment(p, a) \in AdjustmentType
BY DEF Adjustment, AdjustmentType

\* Of a client that was not misled, what it learned is true of its model; the
\* requests it knows go out as they were built, to that model.
LEMMA KnownFacts ==
  ASSUME IInv, NEW c \in Calls, Known(c)
  PROVE  /\ TrueOfModel /\ CallInv(c)
         /\ Complaints(c) = NamedFaults(c) \cup {OtherFault(c)} \cup Faults(c, sent[c], model)
<1>1. TrueOfModel /\ CallInv(c)
  BY DEF IInv, LearnedTrue, Known
<1>2. request[c].extra \cap Replacing = {}
  BY DEF Known, Replaced
<1>3. Judges(c) = {model}
  BY <1>2 DEF Judges, Replacing
<1>4. Wires(c) = {sent[c]}
  <2>2. /\ sent[c] \in [responses : BOOLEAN, maxTokens : BOOLEAN, effort : Level \cup {Default},
                         temperature : BOOLEAN, tools : BOOLEAN]
        /\ "effort" \notin request[c].extra /\ "tools" \notin request[c].extra
    BY <1>2 DEF IInv, TypeOK, Replacing
  <2>3. [sent[c] EXCEPT !.effort = sent[c].effort, !.tools = sent[c].tools] = sent[c]
    BY <2>2
  <2>4. Wires(c) = {[sent[c] EXCEPT !.effort = e, !.tools = t] :
                      e \in {sent[c].effort}, t \in {sent[c].tools}}
    BY <2>2 DEF Wires
  <2>5. QED
    BY <2>3, <2>4
<1>5. UNION {Faults(c, s, m) : s \in Wires(c), m \in Judges(c)} = Faults(c, sent[c], model)
  BY <1>3, <1>4
<1>6. QED
  BY <1>1, <1>5 DEF Complaints

\* A rejection that the client understands and resolves names something that
\* the model refuses, or, of the effort, a combination that it refuses.
LEMMA ClassifyIsSound ==
  ASSUME IInv, NEW c \in Calls, Known(c), pc[c] = "rejected", Resolvable(c)
  PROVE  LET adj == Classify(c) IN
         /\ adj \in AdjustmentType
         /\ adj.param = "max_tokens" => ~model.maxTokens
         /\ adj.param = "temperature" =>
              adj.action \in Class /\ adj.action \in model.noTemperature
         /\ adj.param = "endpoint" => model.responsesOnly
         /\ adj.param = "effort" =>
              /\ adj.action \in Level \cup {"all", "this call"}
              /\ EffortCause(c)
              /\ adj.action = "all" => ~model.effort
              /\ adj.action \in Level => ~model.effort \/ adj.action \notin model.levels
<1> DEFINE s == sent[c]  m == complaint[c]
<1>1. /\ s \in [responses : BOOLEAN, maxTokens : BOOLEAN, effort : Level \cup {Default},
                temperature : BOOLEAN, tools : BOOLEAN]
      /\ m \in ComplaintType
  BY DEF IInv, TypeOK
<1>2. m \in NamedFaults(c) \cup {OtherFault(c)} \cup Faults(c, s, model)
  BY KnownFacts DEF CallInv, ComplaintOfSent
<1>3. m \in TokensFaults(s, model) \cup EffortFaults(s, model)
           \cup EndpointFaults(s, model) \cup TemperatureFaults(s, model)
  <2>1. m # OtherFault(c)
    <3> SUFFICES ASSUME m = OtherFault(c) PROVE FALSE
      OBVIOUS
    <3>1. m.param = "temperature" /\ m.code = "other"
      BY DEF OtherFault
    <3>2. ~RejectsMaxTokens(c) /\ ~RejectsTemperature(c) /\ ~RejectsReasoningEffort(c)
            /\ ~RequiresResponsesAPI(c)
      BY <3>1 DEF RejectsMaxTokens, RejectsTemperature, RejectsReasoningEffort,
         RequiresResponsesAPI, Refused
    <3>3. QED
      BY <3>2 DEF Classify, Resolvable
  <2>2. m \notin NamedFaults(c)
    BY DEF Resolvable, NamesExtraField, NamedFaults
  <2>3. QED
    BY <1>2, <2>1, <2>2 DEF Faults
<1>4. /\ sent[c].tools = request[c].tools
      /\ EffortForCause(c)
  BY KnownFacts DEF CallInv, BuiltForCause
<1>5. CASE m \in TokensFaults(s, model)
  <2>1. m.param = "max_tokens" /\ ~model.maxTokens
    BY <1>5 DEF TokensFaults, Complaint
  <2>2. Classify(c) = Adjustment("max_tokens", "renamed")
    BY <1>5, <2>1 DEF Resolvable, Classify, RejectsMaxTokens, RejectsTemperature,
       RejectsReasoningEffort, RequiresResponsesAPI
  <2>3. Classify(c).param = "max_tokens"
    BY <2>2 DEF Adjustment
  <2>4. Adjustment("max_tokens", "renamed") \in AdjustmentType
    BY AdjustmentParts
  <2>5. QED
    BY <2>1, <2>2, <2>3, <2>4
<1>6. CASE m \in TemperatureFaults(s, model)
  <2>1. m.param = "temperature" /\ TemperatureFlag(s.effort) \in model.noTemperature
    BY <1>6 DEF TemperatureFaults, Complaint
  <2>2. Classify(c) = Adjustment("temperature", TemperatureFlag(s.effort))
    BY <1>6, <2>1 DEF Resolvable, Classify, RejectsMaxTokens, RejectsTemperature,
       RejectsReasoningEffort, RequiresResponsesAPI
  <2>3. TemperatureFlag(s.effort) \in Class
    BY DEF TemperatureFlag, Class
  <2>4. /\ Classify(c).param = "temperature"
        /\ Classify(c).action = TemperatureFlag(s.effort)
    BY <2>2 DEF Adjustment
  <2>5. Adjustment("temperature", TemperatureFlag(s.effort)) \in AdjustmentType
    BY <2>3, AdjustmentParts
  <2>6. QED
    BY <2>1, <2>2, <2>3, <2>4, <2>5
<1>7. CASE m \in EffortFaults(s, model)
  <2>1. /\ m.param \in {"effort", ""} /\ m.mentions = "effort"
        /\ s.effort \in Level
        /\ \/ ~model.effort /\ m.code = "unsupported_parameter"
           \/ model.effort /\ s.effort \notin model.levels /\ m.code = "unsupported_value"
           \/ model.toolsNeedNone /\ s.tools /\ m.param = ""
    BY <1>1, <1>7 DEF EffortFaults, Complaint, Default, Refused
  <2>2. EffortCause(c)
    <3>1. CASE s.effort = request[c].effort
      BY <1>4, <2>1, <3>1, DefaultIsNoLevel DEF EffortCause
    <3>2. CASE s.effort # request[c].effort
      BY <1>4, <3>2 DEF EffortForCause
    <3>3. QED
      BY <3>1, <3>2
  <2>3. Classify(c) = ClassifyEffort(c)
    <3>1. ~RejectsMaxTokens(c) /\ ~RejectsTemperature(c)
      BY <2>1 DEF RejectsMaxTokens, RejectsTemperature
    <3>2. RejectsReasoningEffort(c)
      BY <2>1, DefaultIsNoLevel DEF RejectsReasoningEffort
    <3>3. QED
      BY <3>1, <3>2 DEF Classify
  <2>4. ClassifyEffort(c) # None
    BY <2>3 DEF Resolvable
  <2>5. \/ ClassifyEffort(c) = Adjustment("effort", "this call")
        \/ /\ ClassifyEffort(c) = Adjustment("effort", s.effort)
           /\ m.code = "unsupported_value"
           /\ ~(m.param = "" /\ s.tools)
        \/ /\ ClassifyEffort(c) = Adjustment("effort", "all")
           /\ m.code = "unsupported_parameter"
           /\ ~(m.param = "" /\ s.tools)
    BY <2>4 DEF ClassifyEffort
  <2>6. "this call" \notin Level /\ "all" \notin Level
    BY DEF Level
  <2>7. PICK a : /\ ClassifyEffort(c) = Adjustment("effort", a)
                 /\ \/ a = "this call"
                    \/ a = s.effort /\ m.code = "unsupported_value" /\ ~(m.param = "" /\ s.tools)
                    \/ a = "all" /\ m.code = "unsupported_parameter" /\ ~(m.param = "" /\ s.tools)
    BY <2>5
  <2>8. Classify(c).action = a /\ Classify(c).param = "effort"
    <3>1. Classify(c) = Adjustment("effort", a)
      BY <2>3, <2>7
    <3>2. QED
      BY <3>1 DEF Adjustment
  <2>9. Classify(c).action \in Level => ~model.effort \/ Classify(c).action \notin model.levels
    BY <2>1, <2>6, <2>7, <2>8
  <2>10. Classify(c).action = "all" => ~model.effort
    BY <2>1, <2>6, <2>7, <2>8
  <2>11. a \in Level \cup {"all", "this call"}
    BY <2>1, <2>7
  <2>12. Adjustment("effort", a) \in AdjustmentType
    BY <2>11, AdjustmentParts
  <2>13. QED
    BY <2>2, <2>3, <2>7, <2>8, <2>9, <2>10, <2>11, <2>12
<1>8. CASE m \in EndpointFaults(s, model)
  <2>1. m.param = "" /\ m.mentions = "endpoint" /\ model.responsesOnly
    BY <1>8 DEF EndpointFaults, Complaint
  <2>2. Classify(c) = Adjustment("endpoint", "responses")
    BY <1>8, <2>1 DEF Resolvable, Classify, RejectsMaxTokens, RejectsTemperature,
       RejectsReasoningEffort, RequiresResponsesAPI
  <2>3. Classify(c).param = "endpoint"
    BY <2>2 DEF Adjustment
  <2>4. Adjustment("endpoint", "responses") \in AdjustmentType
    BY AdjustmentParts
  <2>5. QED
    BY <2>1, <2>2, <2>3, <2>4
<1>9. QED
  BY <1>3, <1>5, <1>6, <1>7, <1>8

-----------------------------------------------------------------------------
(* Steps *)

\* Nothing that CallInv says of a call has changed.
Same(d) ==
  /\ model' = model
  /\ pc'[d] = pc[d] /\ request'[d] = request[d] /\ sent'[d] = sent[d]
  /\ sends'[d] = sends[d] /\ omitEffort'[d] = omitEffort[d]
  /\ stepped'[d] = stepped[d] /\ complaint'[d] = complaint[d]

\* What the API may object to in a request depends on what was built and what
\* was asked for.
LEMMA ComplaintsKept ==
  ASSUME NEW d \in Calls, model' = model, sent'[d] = sent[d], request'[d] = request[d]
  PROVE  Complaints(d)' = Complaints(d)
<1>1. NamedFaults(d)' = NamedFaults(d) /\ OtherFault(d)' = OtherFault(d)
  BY DEF NamedFaults, OtherFault
<1>2. Wires(d)' = Wires(d) /\ Judges(d)' = Judges(d)
  BY DEF Wires, Judges
<1>3. \A s, m : Faults(d, s, m)' = Faults(d, s, m)
  BY DEF Faults
<1>4. QED
  BY <1>1, <1>2, <1>3 DEF Complaints

LEMMA OthersKeepCallInv ==
  ASSUME NEW d \in Calls, Same(d), CallInv(d)
  PROVE  CallInv(d)'
<1>1. BuiltForCause(d)'
  BY DEF Same, CallInv, BuiltForCause, EndpointForCause, TokensForCause, EffortForCause,
     EffortCause, NearestSent, TemperatureForCause, TemperatureFlag, Between
<1>2. OmittedForCause(d)'
  BY DEF Same, CallInv, OmittedForCause, EffortCause
<1>3. ComplaintOfSent(d)'
  <2>1. /\ model' = model /\ sent'[d] = sent[d] /\ request'[d] = request[d]
        /\ pc'[d] = pc[d] /\ complaint'[d] = complaint[d]
    BY DEF Same
  <2>2. Complaints(d)' = Complaints(d)
    BY <2>1, ComplaintsKept
  <2>3. ComplaintOfSent(d)
    BY DEF CallInv
  <2>4. QED
    BY <2>1, <2>2, <2>3 DEF ComplaintOfSent
<1>4. QED
  BY <1>1, <1>2, <1>3 DEF CallInv

\* Types of the parts of a call's state.
LEMMA CallTypes ==
  ASSUME TypeOK, NEW c \in Calls
  PROVE  /\ model \in ModelType
         /\ request[c] \in RequestType
         /\ sent[c] \in [responses : BOOLEAN, maxTokens : BOOLEAN,
                         effort : Level \cup {Default}, temperature : BOOLEAN,
                         tools : BOOLEAN]
<1>1. NothingAsked \in RequestType
  BY DEF NothingAsked, RequestType
<1>2. QED
  BY <1>1, OpenAIAssumption DEF TypeOK

LEMMA InitIInv == Init => IInv
<1> SUFFICES ASSUME Init PROVE IInv
  OBVIOUS
<1>1. TypeOK
  <2>1. NothingSent \in [responses : BOOLEAN, maxTokens : BOOLEAN,
                         effort : Level \cup {Default}, temperature : BOOLEAN,
                         tools : BOOLEAN]
    BY DEF NothingSent
  <2>2. NoComplaint \in ComplaintType
    BY DEF NoComplaint, ComplaintType
  <2>3. learned \in [maxCompletionTokens : BOOLEAN, responsesAPI : BOOLEAN,
                     dropTemperature : SUBSET Class, rejectedEffort : SUBSET Level,
                     effortUnsupported : BOOLEAN]
    BY DEF Init, NothingLearned
  <2>4. 0 \in 0 .. MaxSends
    BY OpenAIAssumption
  <2>5. QED
    BY <2>1, <2>2, <2>3, <2>4 DEF Init, TypeOK, Stage
<1>2. LearnedTrue
  BY DEF Init, LearnedTrue, TrueOfModel, NothingLearned
<1>3. \A c \in Calls : CallInv(c)
  BY DEF Init, CallInv, BuiltForCause, OmittedForCause, ComplaintOfSent
<1>4. IdleAsksNothing
  BY DEF Init, IdleAsksNothing
<1>5. QED
  BY <1>1, <1>2, <1>3, <1>4 DEF IInv

\* A call the client knows after a step it knew before, unless it began with it.
LEMMA KnownBefore ==
  ASSUME IInv, NEW c \in Calls, Known(c)', misled => misled',
         request' = request \/ pc[c] = "idle"
  PROVE  Known(c) /\ TrueOfModel /\ CallInv(c)
<1>1. ~misled
  BY DEF Known
<1>2. CASE request' = request
  BY <1>1, <1>2, KnownFacts DEF Known, Replaced
<1>3. CASE pc[c] = "idle"
  <2>1. request[c].extra = {}
    BY <1>3 DEF IInv, IdleAsksNothing, NothingAsked
  <2>2. QED
    BY <1>1, <2>1, KnownFacts DEF Known, Replaced
<1>4. QED
  BY <1>2, <1>3

\* A call that returns forgets everything.
LEMMA ReturnKeeps ==
  ASSUME IInv, NEW c \in Calls, Return(c)
  PROVE  /\ TypeOK' /\ LearnedTrue' /\ (Known(c)' => CallInv(c)')
         /\ \A d \in Calls \ {c} : Same(d)
<1>1. TypeOK'
  <2>1. NothingSent \in [responses : BOOLEAN, maxTokens : BOOLEAN,
                         effort : Level \cup {Default}, temperature : BOOLEAN,
                         tools : BOOLEAN]
    BY DEF NothingSent
  <2>2. NoComplaint \in ComplaintType
    BY DEF NoComplaint, ComplaintType
  <2>3. 0 \in 0 .. MaxSends
    BY OpenAIAssumption
  <2>4. model' \in Models /\ learned' = learned
    BY DEF IInv, TypeOK, Return
  <2>5. pc' \in [Calls -> Stage] /\ request' \in [Calls -> Requests \cup {NothingAsked}]
    BY DEF IInv, TypeOK, Return, Goto, Stage
  <2>6. /\ sent' \in [Calls -> [responses : BOOLEAN, maxTokens : BOOLEAN,
                                effort : Level \cup {Default}, temperature : BOOLEAN,
                                tools : BOOLEAN]]
        /\ sends' \in [Calls -> 0 .. MaxSends]
    BY <2>1, <2>3 DEF IInv, TypeOK, Return
  <2>7. /\ applied' \in [Calls -> SUBSET AdjustmentType]
        /\ omitEffort' \in [Calls -> BOOLEAN] /\ stepped' \in [Calls -> BOOLEAN]
        /\ complaint' \in [Calls -> ComplaintType] /\ misled' \in BOOLEAN
    BY <2>2 DEF IInv, TypeOK, Return
  <2>8. QED
    BY <2>4, <2>5, <2>6, <2>7 DEF IInv, TypeOK
<1>2. LearnedTrue'
  BY DEF IInv, LearnedTrue, TrueOfModel, Return
<1>3. CallInv(c)'
  <2>1. pc'[c] = "idle" /\ ~omitEffort'[c] /\ ~stepped'[c]
    BY DEF IInv, TypeOK, Return, Goto
  <2>2. QED
    BY <2>1 DEF CallInv, BuiltForCause, OmittedForCause, ComplaintOfSent
<1>4. \A d \in Calls \ {c} : Same(d)
  BY DEF IInv, TypeOK, Return, Goto, Same
<1>5. QED
  BY <1>1, <1>2, <1>3, <1>4

LEMMA BeginKeeps ==
  ASSUME IInv, NEW c \in Calls, Begin(c)
  PROVE  /\ TypeOK' /\ LearnedTrue' /\ (Known(c)' => CallInv(c)')
         /\ \A d \in Calls \ {c} : Same(d)
<1>1. TypeOK'
  <2>1. 1 \in 0 .. MaxSends
    BY OpenAIAssumption
  <2>2. QED
    BY <2>1 DEF IInv, TypeOK, Begin, Goto, Stage
<1>2. LearnedTrue'
  BY DEF IInv, LearnedTrue, TrueOfModel, Begin
<1>3. ASSUME Known(c)' PROVE CallInv(c)'
  <2>0. CallInv(c) /\ TrueOfModel
    BY <1>3, KnownBefore DEF Begin
  <2>1. pc'[c] = "route" /\ sends'[c] = 1 /\ omitEffort' = omitEffort /\ stepped' = stepped
    BY DEF IInv, TypeOK, Begin, Goto
  <2>2. ~omitEffort[c] /\ ~stepped[c]
    BY <2>0 DEF CallInv, OmittedForCause, Begin
  <2>3. QED
    BY <2>1, <2>2 DEF CallInv, BuiltForCause, OmittedForCause, ComplaintOfSent
<1>4. \A d \in Calls \ {c} : Same(d)
  BY DEF IInv, TypeOK, Begin, Goto, Same
<1>5. QED
  BY <1>1, <1>2, <1>3, <1>4

LEMMA RouteKeeps ==
  ASSUME IInv, NEW c \in Calls, Route(c)
  PROVE  /\ TypeOK' /\ LearnedTrue' /\ (Known(c)' => CallInv(c)')
         /\ \A d \in Calls \ {c} : Same(d)
<1> DEFINE s == [NothingSent EXCEPT !.responses = UseResponsesAPI, !.tools = request[c].tools]
<1>1. UseResponsesAPI \in BOOLEAN
  BY DEF UseResponsesAPI, IInv, TypeOK
<1>2. request[c].tools \in BOOLEAN
  BY CallTypes DEF IInv, RequestType
<1>3. /\ s \in [responses : BOOLEAN, maxTokens : BOOLEAN, effort : Level \cup {Default},
                temperature : BOOLEAN, tools : BOOLEAN]
      /\ s.responses = UseResponsesAPI /\ s.tools = request[c].tools
  BY <1>1, <1>2 DEF NothingSent
<1>4. TypeOK'
  BY <1>3 DEF IInv, TypeOK, Route, Goto, Stage
<1>5. LearnedTrue'
  BY DEF IInv, LearnedTrue, TrueOfModel, Route
<1>6. ASSUME Known(c)' PROVE CallInv(c)'
  <2>0. CallInv(c) /\ TrueOfModel
    BY <1>6, KnownBefore DEF Route
  <2>1. /\ pc'[c] = "tokens" /\ sent'[c] = s /\ request' = request /\ model' = model
        /\ sends' = sends /\ omitEffort' = omitEffort /\ stepped' = stepped
    BY DEF IInv, TypeOK, Route, Goto
  <2>2. BuiltForCause(c)'
    <3>1. UseResponsesAPI => Forced = "responses" \/ model.responsesOnly
      BY <2>0 DEF UseResponsesAPI, TrueOfModel
    <3>2. QED
      BY <1>3, <2>1, <3>1 DEF BuiltForCause, EndpointForCause
  <2>3. OmittedForCause(c) /\ pc[c] = "route"
    BY <2>0 DEF CallInv, Route
  <2>4. OmittedForCause(c)'
    BY <2>1, <2>3 DEF OmittedForCause, EffortCause
  <2>5. QED
    BY <2>1, <2>2, <2>4 DEF CallInv, ComplaintOfSent
<1>7. \A d \in Calls \ {c} : Same(d)
  BY DEF IInv, TypeOK, Route, Goto, Same
<1>8. QED
  BY <1>4, <1>5, <1>6, <1>7

LEMMA ReadTokensKeeps ==
  ASSUME IInv, NEW c \in Calls, ReadTokens(c)
  PROVE  /\ TypeOK' /\ LearnedTrue' /\ (Known(c)' => CallInv(c)')
         /\ \A d \in Calls \ {c} : Same(d)
<1> DEFINE t == ~sent[c].responses /\ request[c].maxTokens /\ ~learned.maxCompletionTokens
           s == [sent[c] EXCEPT !.maxTokens = t]
<1>1. TypeOK'
  <2>1. s \in [responses : BOOLEAN, maxTokens : BOOLEAN, effort : Level \cup {Default},
               temperature : BOOLEAN, tools : BOOLEAN]
    BY CallTypes DEF IInv
  <2>2. sent' = [sent EXCEPT ![c] = s]
    BY DEF ReadTokens
  <2>3. QED
    BY <2>1, <2>2 DEF IInv, TypeOK, ReadTokens, Goto, Stage
<1>2. LearnedTrue'
  BY DEF IInv, LearnedTrue, TrueOfModel, ReadTokens
<1>3. ASSUME Known(c)' PROVE CallInv(c)'
  <2>0. CallInv(c) /\ TrueOfModel
    BY <1>3, KnownBefore DEF ReadTokens
  <2>1. /\ pc[c] = "tokens" /\ pc'[c] = "effort" /\ sent'[c] = s /\ request' = request
        /\ model' = model
        /\ sends' = sends /\ omitEffort' = omitEffort /\ stepped' = stepped
    BY DEF IInv, TypeOK, ReadTokens, Goto
  <2>2. /\ s.responses = sent[c].responses /\ s.tools = sent[c].tools
        /\ s.maxTokens = t
    BY CallTypes DEF IInv
  <2>3. EndpointForCause(c) /\ sent[c].tools = request[c].tools /\ OmittedForCause(c)
    BY <2>0, <2>1 DEF CallInv, BuiltForCause
  <2>4. learned.maxCompletionTokens => ~model.maxTokens
    BY <2>0 DEF TrueOfModel
  <2>5. BuiltForCause(c)'
    BY <2>1, <2>2, <2>3, <2>4 DEF BuiltForCause, EndpointForCause, TokensForCause
  <2>6. OmittedForCause(c)'
    BY <2>1, <2>3 DEF OmittedForCause, EffortCause
  <2>7. QED
    BY <2>1, <2>5, <2>6 DEF CallInv, ComplaintOfSent
<1>4. \A d \in Calls \ {c} : Same(d)
  BY DEF IInv, TypeOK, ReadTokens, Goto, Same
<1>5. QED
  BY <1>1, <1>2, <1>3, <1>4

LEMMA ReasoningEffortType ==
  ASSUME TypeOK, NEW c \in Calls
  PROVE  ReasoningEffort(c) \in Level \cup {Default}
<1>1. request[c].effort \in Level \cup {Default}
  BY CallTypes DEF RequestType
<1>2. CASE request[c].effort \in Level
  BY <1>2, NearestAcceptedIs DEF ReasoningEffort
<1>3. CASE request[c].effort = Default
  BY <1>3 DEF ReasoningEffort
<1>4. QED
  BY <1>1, <1>2, <1>3

\* What ReadEffort sends is the nearest accepted level, given up only for a cause.
LEMMA ReasoningEffortIs ==
  ASSUME IInv, NEW c \in Calls, Known(c), pc[c] = "effort"
  PROVE  LET n == ReasoningEffort(c)  e == request[c].effort IN
         /\ n \in Level \cup {Default}
         /\ n # e => EffortCause(c)
         /\ e # Default /\ model.effort =>
              /\ n # Default =>
                   /\ n \in Between(effortOrder[e], effortOrder["medium"])
                   /\ Between(effortOrder[e], effortOrder[n]) \cap model.levels \subseteq {n}
              /\ n = Default /\ sends[c] = 1 =>
                   Between(effortOrder[e], effortOrder["medium"]) \cap model.levels = {}
<1> DEFINE n == ReasoningEffort(c)  e == request[c].effort
<1>1. e \in Level \cup {Default}
  BY CallTypes DEF IInv, RequestType
<1>2. /\ omitEffort[c] => EffortCause(c) /\ sends[c] > 1
      /\ sends[c] > 0 /\ sends[c] \in Nat
  BY KnownFacts DEF IInv, CallInv, OmittedForCause, TypeOK
<1>3. /\ learned.effortUnsupported => ~model.effort
      /\ model.effort => learned.rejectedEffort \cap model.levels = {}
      /\ learned.rejectedEffort \subseteq Level
  BY KnownFacts DEF IInv, TrueOfModel, TypeOK
<1>4. CASE e = Default
  BY <1>4 DEF ReasoningEffort
<1>5. CASE e # Default /\ (omitEffort[c] \/ learned.effortUnsupported)
  <2>1. n = Default
    BY <1>5 DEF ReasoningEffort
  <2>2. EffortCause(c)
    BY <1>2, <1>3, <1>5 DEF EffortCause
  <2>3. model.effort => sends[c] # 1
    BY <1>2, <1>3, <1>5
  <2>4. QED
    BY <2>1, <2>2, <2>3
<1>6. CASE e # Default /\ ~omitEffort[c] /\ ~learned.effortUnsupported
  <2>1. n = NearestAccepted(e) /\ e \in Level
    BY <1>1, <1>6 DEF ReasoningEffort
  <2>2. /\ n \in Level \cup {Default}
        /\ n # Default =>
             /\ n \in towardsMedium(e) \ learned.rejectedEffort
             /\ \A f \in towardsMedium(e) : Nearer(e, f, n) => f \in learned.rejectedEffort
    BY <2>1, NearestAcceptedIs
  <2>3. n # e => EffortCause(c)
    <3> SUFFICES ASSUME n # e PROVE EffortCause(c)
      OBVIOUS
    <3>1. e \in learned.rejectedEffort
      BY <2>1, NearestIsAsked
    <3>2. model.effort => e \notin model.levels
      BY <1>3, <3>1
    <3>3. QED
      BY <1>6, <3>2 DEF EffortCause
  <2>4. towardsMedium(e) = Between(effortOrder[e], effortOrder["medium"])
    BY <2>1, OrderOfLevels, OrderTypes DEF towardsMedium, Between
  <2>5. ASSUME n # Default, NEW l \in Between(effortOrder[e], effortOrder[n]), l # n
        PROVE  l \in towardsMedium(e) /\ Nearer(e, l, n)
    <3>1. n \in Level /\ n \in towardsMedium(e) /\ l \in Level
      BY <2>2, <2>5 DEF Between
    <3>2. /\ effortOrder[l] \in 0 .. 6 /\ effortOrder[n] \in 0 .. 6
          /\ effortOrder[e] \in 0 .. 6
      BY <2>1, <3>1, OrderTypes
    <3>3. effortOrder[l] # effortOrder[n]
      BY <2>5, <3>1, OrderOfLevels DEF Level
    <3>4. \/ effortOrder[e] <= effortOrder[l] /\ effortOrder[l] <= effortOrder[n]
          \/ effortOrder[n] <= effortOrder[l] /\ effortOrder[l] <= effortOrder[e]
      BY <3>2 DEF Between
    <3>5. \/ effortOrder[e] <= effortOrder[n] /\ effortOrder[n] <= 3
          \/ 3 <= effortOrder[n] /\ effortOrder[n] <= effortOrder[e]
      BY <3>1, <3>2 DEF towardsMedium
    <3>6. \/ effortOrder[e] <= effortOrder[l] /\ effortOrder[l] <= 3
          \/ 3 <= effortOrder[l] /\ effortOrder[l] <= effortOrder[e]
      BY <3>2, <3>4, <3>5
    <3>7. l \in towardsMedium(e)
      BY <3>1, <3>2, <3>6 DEF towardsMedium
    <3>8. Nearer(e, l, n)
      BY <3>2, <3>3, <3>4, <3>5 DEF Nearer
    <3>9. QED
      BY <3>7, <3>8
  <2>6. ASSUME n # Default, model.effort
        PROVE  Between(effortOrder[e], effortOrder[n]) \cap model.levels \subseteq {n}
    BY <1>3, <2>2, <2>5, <2>6
  <2>7. ASSUME n = Default, model.effort
        PROVE  Between(effortOrder[e], effortOrder["medium"]) \cap model.levels = {}
    BY <1>3, <2>1, <2>4, <2>7, NoneIsLeft
  <2>8. QED
    BY <2>2, <2>3, <2>4, <2>6, <2>7
<1>7. QED
  BY <1>4, <1>5, <1>6

LEMMA ReadEffortKeeps ==
  ASSUME IInv, NEW c \in Calls, ReadEffort(c)
  PROVE  /\ TypeOK' /\ LearnedTrue' /\ (Known(c)' => CallInv(c)')
         /\ \A d \in Calls \ {c} : Same(d)
<1> DEFINE n == ReasoningEffort(c)
           s == [sent[c] EXCEPT !.effort = n]
<1>1. n \in Level \cup {Default}
  BY ReasoningEffortType DEF IInv
<1>2. TypeOK'
  <2>1. s \in [responses : BOOLEAN, maxTokens : BOOLEAN, effort : Level \cup {Default},
               temperature : BOOLEAN, tools : BOOLEAN]
    BY <1>1, CallTypes DEF IInv
  <2>2. sent' = [sent EXCEPT ![c] = s]
    BY DEF ReadEffort
  <2>3. QED
    BY <2>1, <2>2 DEF IInv, TypeOK, ReadEffort, Goto, Stage
<1>3. LearnedTrue'
  BY DEF IInv, LearnedTrue, TrueOfModel, ReadEffort
<1>4. ASSUME Known(c)' PROVE CallInv(c)'
  <2>0. CallInv(c) /\ TrueOfModel
    BY <1>4, KnownBefore DEF ReadEffort
  <2>9. /\ n \in Level \cup {Default}
        /\ n # request[c].effort => EffortCause(c)
        /\ request[c].effort # Default /\ model.effort =>
             /\ n # Default =>
                  /\ n \in Between(effortOrder[request[c].effort], effortOrder["medium"])
                  /\ Between(effortOrder[request[c].effort], effortOrder[n])
                       \cap model.levels \subseteq {n}
             /\ n = Default /\ sends[c] = 1 =>
                  Between(effortOrder[request[c].effort], effortOrder["medium"])
                    \cap model.levels = {}
    BY <1>4, KnownBefore, ReasoningEffortIs DEF ReadEffort
  <2>1. /\ pc[c] = "effort" /\ pc'[c] = "temperature" /\ sent'[c] = s /\ request' = request
        /\ model' = model
        /\ sends' = sends /\ omitEffort' = omitEffort /\ stepped' = stepped
    BY DEF IInv, TypeOK, ReadEffort, Goto
  <2>2. /\ s.responses = sent[c].responses /\ s.tools = sent[c].tools
        /\ s.maxTokens = sent[c].maxTokens /\ s.effort = n
    BY CallTypes DEF IInv
  <2>3. /\ EndpointForCause(c) /\ sent[c].tools = request[c].tools
        /\ TokensForCause(c) /\ OmittedForCause(c)
    BY <2>0, <2>1 DEF CallInv, BuiltForCause
  <2>4. EffortForCause(c)'
    BY <2>1, <2>2, <2>9 DEF EffortForCause, EffortCause
  <2>5. NearestSent(c)'
    BY <2>1, <2>2, <2>9 DEF NearestSent, Between
  <2>6. BuiltForCause(c)'
    BY <2>1, <2>2, <2>3, <2>4, <2>5 DEF BuiltForCause, EndpointForCause, TokensForCause
  <2>7. OmittedForCause(c)'
    BY <2>1, <2>3 DEF OmittedForCause, EffortCause
  <2>8. QED
    BY <2>1, <2>6, <2>7 DEF CallInv, ComplaintOfSent
<1>5. \A d \in Calls \ {c} : Same(d)
  BY DEF IInv, TypeOK, ReadEffort, Goto, Same
<1>6. QED
  BY <1>2, <1>3, <1>4, <1>5

LEMMA ReadTemperatureKeeps ==
  ASSUME IInv, NEW c \in Calls, ReadTemperature(c)
  PROVE  /\ TypeOK' /\ LearnedTrue' /\ (Known(c)' => CallInv(c)')
         /\ \A d \in Calls \ {c} : Same(d)
<1> DEFINE t == request[c].temperature
                  /\ TemperatureFlag(sent[c].effort) \notin learned.dropTemperature
           s == [sent[c] EXCEPT !.temperature = t]
<1>1. TypeOK'
  <2>1. s \in [responses : BOOLEAN, maxTokens : BOOLEAN, effort : Level \cup {Default},
               temperature : BOOLEAN, tools : BOOLEAN]
    BY CallTypes DEF IInv
  <2>2. sent' = [sent EXCEPT ![c] = s]
    BY DEF ReadTemperature
  <2>3. /\ model' = model /\ learned' = learned /\ request' = request /\ sends' = sends
        /\ applied' = applied /\ omitEffort' = omitEffort /\ stepped' = stepped
        /\ complaint' = complaint /\ pc' = [pc EXCEPT ![c] = "sent"]
        /\ misled' = misled
    BY DEF ReadTemperature, Goto
  <2>4. QED
    BY <2>1, <2>2, <2>3 DEF IInv, TypeOK, Stage
<1>2. LearnedTrue'
  BY DEF IInv, LearnedTrue, TrueOfModel, ReadTemperature
<1>3. ASSUME Known(c)' PROVE CallInv(c)'
  <2>0. CallInv(c) /\ TrueOfModel
    BY <1>3, KnownBefore DEF ReadTemperature
  <2>1. /\ pc[c] = "temperature" /\ pc'[c] = "sent" /\ sent'[c] = s /\ request' = request
        /\ model' = model
        /\ sends' = sends /\ omitEffort' = omitEffort /\ stepped' = stepped
    BY DEF IInv, TypeOK, ReadTemperature, Goto
  <2>2. /\ s.responses = sent[c].responses /\ s.tools = sent[c].tools
        /\ s.maxTokens = sent[c].maxTokens /\ s.effort = sent[c].effort
        /\ s.temperature = t
    BY CallTypes DEF IInv
  <2>3. /\ EndpointForCause(c) /\ sent[c].tools = request[c].tools
        /\ TokensForCause(c) /\ EffortForCause(c) /\ NearestSent(c)
        /\ OmittedForCause(c)
    BY <2>0, <2>1 DEF CallInv, BuiltForCause
  <2>4. TemperatureForCause(c)'
    BY <2>0, <2>1, <2>2 DEF TemperatureForCause, TemperatureFlag, TrueOfModel
  <2>5. EffortForCause(c)' /\ NearestSent(c)'
    BY <2>1, <2>2, <2>3 DEF EffortForCause, EffortCause, NearestSent, Between
  <2>6. BuiltForCause(c)'
    BY <2>1, <2>2, <2>3, <2>4, <2>5 DEF BuiltForCause, EndpointForCause, TokensForCause
  <2>7. OmittedForCause(c)'
    BY <2>1, <2>3 DEF OmittedForCause, EffortCause
  <2>8. QED
    BY <2>1, <2>6, <2>7 DEF CallInv, ComplaintOfSent
<1>4. \A d \in Calls \ {c} : Same(d)
  BY DEF IInv, TypeOK, ReadTemperature, Goto, Same
<1>5. QED
  BY <1>1, <1>2, <1>3, <1>4

LEMMA RejectedKeeps ==
  ASSUME IInv, NEW c \in Calls, Rejected(c)
  PROVE  /\ TypeOK' /\ LearnedTrue' /\ (Known(c)' => CallInv(c)')
         /\ \A d \in Calls \ {c} : Same(d)
<1>1. PICK f \in Complaints(c) : complaint' = [complaint EXCEPT ![c] = f]
  BY DEF Rejected
<1>2. f \in ComplaintType
  <2>1. CASE f \in NamedFaults(c)
    <3>1. request[c].extra \in SUBSET ExtraField
      BY CallTypes DEF IInv, RequestType
    <3>2. f.param \in {"effort", "temperature", "max_tokens"}
      BY <2>1, <3>1 DEF NamedFaults, ExtraField, Replacing
    <3>3. QED
      BY <2>1, <3>2 DEF NamedFaults, ComplaintType, Refused
  <2>2. CASE f = OtherFault(c)
    BY <2>2 DEF OtherFault, ComplaintType
  <2>3. ASSUME NEW s, NEW m, f \in Faults(c, s, m)
        PROVE  f \in ComplaintType
    <3>1. CASE f \in EffortFaults(s, m)
      BY <3>1 DEF EffortFaults, Complaint, ComplaintType, Refused
    <3>2. CASE f \in TokensFaults(s, m) \cup TemperatureFaults(s, m)
      BY <3>2 DEF TokensFaults, TemperatureFaults, Complaint, ComplaintType, Refused
    <3>3. CASE f \in EndpointFaults(s, m)
      BY <3>3 DEF EndpointFaults, Complaint, ComplaintType, Refused
    <3>4. QED
      BY <2>3, <3>1, <3>2, <3>3 DEF Faults
  <2>4. QED
    BY <1>1, <2>1, <2>2, <2>3 DEF Complaints
<1>3. TypeOK'
  BY <1>1, <1>2 DEF IInv, TypeOK, Rejected, Goto, Stage
<1>4. LearnedTrue'
  BY DEF IInv, LearnedTrue, TrueOfModel, Rejected
<1>5. ASSUME Known(c)' PROVE CallInv(c)'
  <2>0. CallInv(c) /\ TrueOfModel
    BY <1>5, KnownBefore DEF Rejected
  <2>1. /\ pc[c] = "sent" /\ pc'[c] = "rejected" /\ sent' = sent /\ request' = request
        /\ model' = model /\ complaint'[c] = f
        /\ sends' = sends /\ omitEffort' = omitEffort /\ stepped' = stepped
    BY <1>1 DEF IInv, TypeOK, Rejected, Goto
  <2>2. BuiltForCause(c) /\ OmittedForCause(c)
    BY <2>0 DEF CallInv
  <2>3. BuiltForCause(c)'
    BY <2>1, <2>2 DEF BuiltForCause, EndpointForCause, TokensForCause, EffortForCause,
       EffortCause, NearestSent, TemperatureForCause, TemperatureFlag, Between
  <2>4. OmittedForCause(c)'
    BY <2>1, <2>2 DEF OmittedForCause, EffortCause
  <2>5. ComplaintOfSent(c)'
    <3>1. Complaints(c)' = Complaints(c)
      BY <2>1, ComplaintsKept
    <3>2. complaint'[c] \in Complaints(c)
      BY <1>1, <2>1
    <3>3. QED
      BY <3>1, <3>2 DEF ComplaintOfSent
  <2>6. QED
    BY <2>3, <2>4, <2>5 DEF CallInv
<1>6. \A d \in Calls \ {c} : Same(d)
  BY <1>1 DEF IInv, TypeOK, Rejected, Goto, Same
<1>7. QED
  BY <1>3, <1>4, <1>5, <1>6

\* What a rejection is classified as was in the request, whoever sent it.
LEMMA ClassifyNames ==
  ASSUME TypeOK, NEW c \in Calls, Classify(c) # None
  PROVE  LET adj == Classify(c) IN
         /\ adj = Adjustment(adj.param, adj.action)
         /\ adj.param \in {"max_tokens", "temperature", "effort", "endpoint"}
         /\ adj.param = "max_tokens" => adj.action = "renamed" /\ sent[c].maxTokens
         /\ adj.param = "temperature" => adj.action \in Class /\ sent[c].temperature
         /\ adj.param = "endpoint" => adj.action = "responses" /\ Forced = "unset"
         /\ adj.param = "effort" =>
              adj.action \in Level \cup {"all", "this call"} /\ sent[c].effort # Default
<1>1. CASE RejectsMaxTokens(c)
  BY <1>1 DEF Classify, Adjustment, RejectsMaxTokens
<1>2. CASE ~RejectsMaxTokens(c) /\ RejectsTemperature(c)
  <2>1. TemperatureFlag(sent[c].effort) \in Class
    BY DEF TemperatureFlag, Class
  <2>2. QED
    BY <1>2, <2>1 DEF Classify, Adjustment, RejectsTemperature
<1>3. CASE ~RejectsMaxTokens(c) /\ ~RejectsTemperature(c) /\ RejectsReasoningEffort(c)
  <2>1. Classify(c) = ClassifyEffort(c) /\ sent[c].effort # Default
    BY <1>3 DEF Classify, RejectsReasoningEffort
  <2>2. sent[c].effort \in Level
    BY <2>1, CallTypes
  <2>3. PICK a : /\ a \in Level \cup {"all", "this call"}
                 /\ ClassifyEffort(c) = Adjustment("effort", a)
    BY <2>1, <2>2 DEF ClassifyEffort
  <2>4. Classify(c) = Adjustment("effort", a)
    BY <2>1, <2>3
  <2>5. Classify(c).param = "effort" /\ Classify(c).action = a
    BY <2>4 DEF Adjustment
  <2>6. Classify(c) = Adjustment(Classify(c).param, Classify(c).action)
    BY <2>4, <2>5
  <2>7. QED
    BY <2>1, <2>3, <2>5, <2>6
<1>4. CASE ~RejectsMaxTokens(c) /\ ~RejectsTemperature(c) /\ ~RejectsReasoningEffort(c)
  <2>1. RequiresResponsesAPI(c)
    BY <1>4 DEF Classify
  <2>2. Classify(c) = [param |-> "endpoint", action |-> "responses"]
    BY <1>4, <2>1 DEF Classify, Adjustment
  <2>3. Forced = "unset"
    BY <2>1 DEF RequiresResponsesAPI
  <2>4. QED
    BY <2>2, <2>3 DEF Adjustment
<1>5. QED
  BY <1>1, <1>2, <1>3, <1>4

LEMMA ClassifyType ==
  ASSUME TypeOK, NEW c \in Calls, Classify(c) # None
  PROVE  Classify(c) \in AdjustmentType
<1> DEFINE adj == Classify(c)
<1>1. /\ adj = Adjustment(adj.param, adj.action)
      /\ adj.param \in {"max_tokens", "temperature", "effort", "endpoint"}
      /\ adj.action \in Class \cup Level \cup {"renamed", "all", "this call", "responses"}
  BY ClassifyNames
<1> HIDE DEF adj
<1>2. Adjustment(adj.param, adj.action) \in AdjustmentType
  BY <1>1, AdjustmentParts
<1>3. QED
  BY <1>1, <1>2 DEF adj

\* Learning from a rejection keeps what is learned typed, and forgets nothing of
\* the effort.
LEMMA LearnedType ==
  ASSUME TypeOK, NEW c \in Calls, Adjust(c)
  PROVE  /\ learned' \in [maxCompletionTokens : BOOLEAN, responsesAPI : BOOLEAN,
                          dropTemperature : SUBSET Class, rejectedEffort : SUBSET Level,
                          effortUnsupported : BOOLEAN]
         /\ learned.effortUnsupported => learned'.effortUnsupported
         /\ Classify(c) = Adjustment("effort", "all") => learned'.effortUnsupported
<1> DEFINE adj == Classify(c)
           L == [maxCompletionTokens : BOOLEAN, responsesAPI : BOOLEAN,
                 dropTemperature : SUBSET Class, rejectedEffort : SUBSET Level,
                 effortUnsupported : BOOLEAN]
<1>1. /\ adj.param \in {"max_tokens", "temperature", "effort", "endpoint"}
      /\ adj.param = "temperature" => adj.action \in Class
      /\ adj.param = "effort" => adj.action \in Level \cup {"all", "this call"}
  BY ClassifyNames DEF Adjust, Resolvable
<1>2. learned' = Learn(adj) /\ learned \in L
  BY DEF Adjust, TypeOK
<1>3. "all" \notin Level /\ "this call" \notin Level
  BY DEF Level
<1>4. adj = Adjustment("effort", "all") => adj.param = "effort" /\ adj.action = "all"
  BY DEF Adjustment
<1> HIDE DEF adj
<1>5. /\ learned' \in L
      /\ learned.effortUnsupported => learned'.effortUnsupported
      /\ adj.param = "effort" /\ adj.action = "all" => learned'.effortUnsupported
  <2>1. CASE adj.param = "max_tokens"
    <3>1. learned' = [learned EXCEPT !.maxCompletionTokens = TRUE]
      BY <1>2, <2>1 DEF Learn
    <3>2. QED
      BY <1>2, <2>1, <3>1
  <2>2. CASE adj.param = "temperature"
    <3>1. learned' = [learned EXCEPT !.dropTemperature = @ \cup {adj.action}]
      BY <1>2, <2>2 DEF Learn
    <3>2. QED
      BY <1>1, <1>2, <2>2, <3>1
  <2>3. CASE adj.param = "endpoint"
    <3>1. learned' = [learned EXCEPT !.responsesAPI = TRUE]
      BY <1>2, <2>3 DEF Learn
    <3>2. QED
      BY <1>2, <2>3, <3>1
  <2>4. CASE adj.param = "effort" /\ adj.action = "all"
    <3>1. learned' = [learned EXCEPT !.effortUnsupported = TRUE]
      BY <1>2, <2>4 DEF Learn, LearnEffort
    <3>2. QED
      BY <1>2, <3>1
  <2>5. CASE adj.param = "effort" /\ adj.action = "this call"
    <3>1. learned' = learned
      BY <1>2, <2>5 DEF Learn, LearnEffort
    <3>2. QED
      BY <1>2, <2>5, <3>1
  <2>6. CASE adj.param = "effort" /\ adj.action \in Level
    <3>1. learned' = [learned EXCEPT !.rejectedEffort = @ \cup {adj.action}]
      BY <1>2, <1>3, <2>6 DEF Learn, LearnEffort
    <3>2. learned' \in L /\ learned'.effortUnsupported = learned.effortUnsupported
      BY <1>2, <2>6, <3>1
    <3>3. adj.action # "all"
      BY <1>3, <2>6
    <3>4. QED
      BY <3>2, <3>3
  <2>7. QED
    BY <1>1, <2>1, <2>2, <2>3, <2>4, <2>5, <2>6
<1>6. QED
  BY <1>4, <1>5 DEF adj

\* What is learned of a request the client knows is true of its model.
LEMMA LearnsWhatIsTrue ==
  ASSUME IInv, NEW c \in Calls, Known(c), Adjust(c)
  PROVE  TrueOfModel'
<1> DEFINE adj == Classify(c)
           L == [maxCompletionTokens : BOOLEAN, responsesAPI : BOOLEAN,
                 dropTemperature : SUBSET Class, rejectedEffort : SUBSET Level,
                 effortUnsupported : BOOLEAN]
<1>1. /\ adj.param \in {"max_tokens", "temperature", "effort", "endpoint"}
      /\ adj.param = "max_tokens" => ~model.maxTokens
      /\ adj.param = "temperature" => adj.action \in Class /\ adj.action \in model.noTemperature
      /\ adj.param = "endpoint" => model.responsesOnly
      /\ adj.param = "effort" =>
           /\ adj.action \in Level \cup {"all", "this call"}
           /\ adj.action = "all" => ~model.effort
           /\ adj.action \in Level => ~model.effort \/ adj.action \notin model.levels
  BY ClassifyIsSound DEF Adjust, AdjustmentType
<1>2. /\ learned' = Learn(adj) /\ model' = model /\ learned \in L /\ TrueOfModel
  BY KnownFacts DEF Adjust, IInv, TypeOK
<1>3. "all" \notin Level /\ "this call" \notin Level
  BY DEF Level
<1> HIDE DEF adj
<1>4. CASE adj.param = "max_tokens"
  <2>1. learned' = [learned EXCEPT !.maxCompletionTokens = TRUE]
    BY <1>2, <1>4 DEF Learn
  <2>2. QED
    BY <1>1, <1>2, <1>4, <2>1 DEF TrueOfModel
<1>5. CASE adj.param = "temperature"
  <2>1. learned' = [learned EXCEPT !.dropTemperature = @ \cup {adj.action}]
    BY <1>2, <1>5 DEF Learn
  <2>2. QED
    BY <1>1, <1>2, <1>5, <2>1 DEF TrueOfModel
<1>6. CASE adj.param = "endpoint"
  <2>1. learned' = [learned EXCEPT !.responsesAPI = TRUE]
    BY <1>2, <1>6 DEF Learn
  <2>2. QED
    BY <1>1, <1>2, <1>6, <2>1 DEF TrueOfModel
<1>7. CASE adj.param = "effort" /\ adj.action = "all"
  <2>1. learned' = [learned EXCEPT !.effortUnsupported = TRUE]
    BY <1>2, <1>7 DEF Learn, LearnEffort
  <2>2. QED
    BY <1>1, <1>2, <1>7, <2>1 DEF TrueOfModel
<1>8. CASE adj.param = "effort" /\ adj.action = "this call"
  <2>1. learned' = learned
    BY <1>2, <1>8 DEF Learn, LearnEffort
  <2>2. QED
    BY <1>2, <2>1 DEF TrueOfModel
<1>9. CASE adj.param = "effort" /\ adj.action \in Level
  <2>1. learned' = [learned EXCEPT !.rejectedEffort = @ \cup {adj.action}]
    BY <1>2, <1>3, <1>9 DEF Learn, LearnEffort
  <2>2. learned'.rejectedEffort = learned.rejectedEffort \cup {adj.action}
    BY <1>2, <2>1
  <2>3. learned'.rejectedEffort \cap model.levels = {} \/ ~model.effort
    BY <1>1, <1>2, <1>9, <2>2 DEF TrueOfModel
  <2>4. QED
    BY <1>2, <2>1, <2>3 DEF TrueOfModel
<1>10. QED
  BY <1>1, <1>4, <1>5, <1>6, <1>7, <1>8, <1>9

LEMMA AdjustKeeps ==
  ASSUME IInv, NEW c \in Calls, Adjust(c)
  PROVE  /\ TypeOK' /\ LearnedTrue' /\ (Known(c)' => CallInv(c)')
         /\ \A d \in Calls \ {c} : Same(d)
<1> DEFINE adj == Classify(c)
           level == adj.param = "effort" /\ adj.action \in Level
<1>1. adj \in AdjustmentType /\ pc[c] = "rejected"
  BY ClassifyType DEF IInv, Adjust, Resolvable
<1>2. /\ omitEffort' = [omitEffort EXCEPT ![c] =
                          @ \/ (level /\ stepped[c]) \/ adj.action = "this call"]
      /\ stepped' = [stepped EXCEPT ![c] = @ \/ level]
      /\ applied' = [applied EXCEPT ![c] = @ \cup {adj}]
      /\ complaint' = [complaint EXCEPT ![c] = NoComplaint]
      /\ model' = model /\ request' = request /\ sent' = sent
      /\ misled' = (misled \/ (Replaced(c) /\ ~TrueOfModel'))
  BY DEF Adjust, StepOrOmit
<1>3. \/ pc' = [pc EXCEPT ![c] = "exhausted"] /\ sends' = sends
      \/ /\ pc' = [pc EXCEPT ![c] = "route"]
         /\ sends' = [sends EXCEPT ![c] = sends[c] + 1]
         /\ sends[c] # MaxSends
  BY DEF Adjust, Goto, OutOfSends
<1>4. TypeOK'
  <2>1. learned' \in [maxCompletionTokens : BOOLEAN, responsesAPI : BOOLEAN,
                      dropTemperature : SUBSET Class, rejectedEffort : SUBSET Level,
                      effortUnsupported : BOOLEAN]
    BY LearnedType DEF IInv
  <2>2. sends' \in [Calls -> 0 .. MaxSends]
    <3>1. sends \in [Calls -> 0 .. MaxSends] /\ MaxSends \in Nat
      BY OpenAIAssumption DEF IInv, TypeOK
    <3>2. sends[c] # MaxSends => sends[c] + 1 \in 0 .. MaxSends
      BY <3>1
    <3>3. QED
      BY <1>3, <3>1, <3>2
  <2>3. omitEffort' \in [Calls -> BOOLEAN] /\ stepped' \in [Calls -> BOOLEAN]
    BY <1>2 DEF IInv, TypeOK
  <2>4. applied' \in [Calls -> SUBSET AdjustmentType]
    BY <1>1, <1>2 DEF IInv, TypeOK
  <2>5. complaint' \in [Calls -> ComplaintType]
    BY <1>2 DEF IInv, TypeOK, NoComplaint, ComplaintType
  <2>6. pc' \in [Calls -> Stage]
    BY <1>3 DEF IInv, TypeOK, Stage
  <2>7. QED
    BY <1>2, <2>1, <2>2, <2>3, <2>4, <2>5, <2>6 DEF IInv, TypeOK
<1>5. ASSUME Known(c)' PROVE CallInv(c)'
  <2>0. Known(c) /\ CallInv(c)
    BY <1>2, <1>5, KnownBefore
  <2>1. /\ pc'[c] \in {"exhausted", "route"}
        /\ sends[c] \in Nat /\ sends[c] > 0
        /\ pc'[c] = "route" => sends'[c] = sends[c] + 1
        /\ pc'[c] = "exhausted" => sends'[c] = sends[c]
    BY <1>1, <1>3, <2>0 DEF IInv, TypeOK, CallInv, OmittedForCause
  <2>2. omitEffort[c] \/ stepped[c] => EffortCause(c)
    BY <2>0 DEF CallInv, OmittedForCause
  <2>3. level \/ adj.action = "this call" => EffortCause(c)
    <3>1. adj.action = "this call" => adj.param = "effort"
      BY ClassifyNames DEF IInv, Adjust, Resolvable, Class
    <3>2. QED
      BY <1>1, <2>0, <3>1, ClassifyIsSound DEF Adjust
  <2>4. omitEffort'[c] \/ stepped'[c] => EffortCause(c)
    BY <1>2, <2>2, <2>3 DEF IInv, TypeOK
  <2>5. EffortCause(c)' <=> EffortCause(c)
    BY <1>2 DEF EffortCause
  <2>6. OmittedForCause(c)'
    BY <2>1, <2>4, <2>5 DEF OmittedForCause
  <2>7. QED
    BY <2>1, <2>6 DEF CallInv, BuiltForCause, ComplaintOfSent
<1>6. \A d \in Calls \ {c} : Same(d)
  BY <1>2, <1>3 DEF IInv, TypeOK, Same
<1>7. LearnedTrue'
  <2>1. CASE misled \/ Replaced(c)
    BY <1>2, <2>1 DEF LearnedTrue
  <2>2. CASE Known(c)
    BY <2>2, LearnsWhatIsTrue DEF LearnedTrue
  <2>3. QED
    BY <2>1, <2>2 DEF Known
<1>8. QED
  BY <1>4, <1>5, <1>6, <1>7

-----------------------------------------------------------------------------
(* The invariant *)

\* A call asks for nothing unless it runs; who was misled stays misled.
LEMMA NextKeepsIdle ==
  ASSUME TypeOK, IdleAsksNothing, [Next]_vars
  PROVE  IdleAsksNothing' /\ (misled => misled')
<1>1. CASE UNCHANGED vars
  BY <1>1 DEF vars, callVars, IdleAsksNothing
<1>2. ASSUME NEW c \in Calls, Begin(c) \/ Build(c) \/ Answer(c) \/ Handle(c)
      PROVE  IdleAsksNothing' /\ (misled => misled')
  <2>1. CASE Return(c)
    BY <2>1 DEF TypeOK, IdleAsksNothing, Return, Goto
  <2>2. CASE Begin(c)
    BY <2>2 DEF TypeOK, IdleAsksNothing, Begin, Goto
  <2>3. CASE Route(c) \/ ReadTokens(c) \/ ReadEffort(c) \/ ReadTemperature(c) \/ Rejected(c)
    BY <2>3 DEF TypeOK, IdleAsksNothing, Route, ReadTokens, ReadEffort, ReadTemperature,
       Rejected, Goto
  <2>4. CASE Adjust(c)
    BY <2>4 DEF TypeOK, IdleAsksNothing, Adjust, Goto
  <2>5. QED
    BY <1>2, <2>1, <2>2, <2>3, <2>4
       DEF Build, Answer, Handle, RejectUnsupported, Accepted, Stand, Exhausted
<1>3. QED
  BY <1>1, <1>2 DEF Next

LEMMA NextKeepsIInv ==
  ASSUME IInv, [Next]_vars
  PROVE  IInv'
<1>0. IdleAsksNothing' /\ (misled => misled')
  BY NextKeepsIdle DEF IInv
<1>9. ASSUME NEW d \in Calls, Same(d), Known(d)' PROVE CallInv(d)'
  BY <1>0, <1>9, OthersKeepCallInv DEF IInv, Known, Replaced, Same
<1>1. CASE UNCHANGED vars
  <2>1. /\ model' = model /\ learned' = learned /\ pc' = pc /\ request' = request
        /\ sent' = sent /\ sends' = sends /\ applied' = applied
        /\ omitEffort' = omitEffort /\ stepped' = stepped /\ complaint' = complaint
        /\ misled' = misled
    BY <1>1 DEF vars, callVars
  <2>2. TypeOK' /\ LearnedTrue'
    BY <2>1 DEF IInv, TypeOK, LearnedTrue, TrueOfModel
  <2>3. \A d \in Calls : Same(d)
    BY <2>1 DEF Same
  <2>4. QED
    BY <1>0, <1>9, <2>2, <2>3 DEF IInv
<1>2. ASSUME NEW c \in Calls, Begin(c) \/ Build(c) \/ Answer(c) \/ Handle(c)
      PROVE  IInv'
  <2>1. /\ TypeOK' /\ LearnedTrue' /\ (Known(c)' => CallInv(c)')
        /\ \A d \in Calls \ {c} : Same(d)
    <3>1. CASE Begin(c)
      BY <3>1, BeginKeeps
    <3>2. CASE Route(c)
      BY <3>2, RouteKeeps
    <3>3. CASE ReadTokens(c)
      BY <3>3, ReadTokensKeeps
    <3>4. CASE ReadEffort(c)
      BY <3>4, ReadEffortKeeps
    <3>5. CASE ReadTemperature(c)
      BY <3>5, ReadTemperatureKeeps
    <3>6. CASE Rejected(c)
      BY <3>6, RejectedKeeps
    <3>7. CASE Adjust(c)
      BY <3>7, AdjustKeeps
    <3>8. CASE RejectUnsupported(c) \/ Accepted(c) \/ Stand(c) \/ Exhausted(c)
      <4>1. Return(c)
        BY <3>8 DEF RejectUnsupported, Accepted, Stand, Exhausted
      <4>2. QED
        BY <4>1, ReturnKeeps
    <3>9. QED
      BY <1>2, <3>1, <3>2, <3>3, <3>4, <3>5, <3>6, <3>7, <3>8 DEF Build, Answer, Handle
  <2>2. \A d \in Calls \ {c} : Known(d)' => CallInv(d)'
    BY <1>9, <2>1
  <2>3. QED
    BY <1>0, <2>1, <2>2 DEF IInv
<1>3. QED
  BY <1>1, <1>2 DEF Next

\* The inductive invariant holds always.
THEOREM AdaptInvariance == Spec => []IInv
<1>1. Init => IInv
  BY InitIInv
<1>2. IInv /\ [Next]_vars => IInv'
  BY NextKeepsIInv
<1>3. QED
  BY <1>1, <1>2, PTL DEF Spec

\* Every variable of every call holds a value of its type, and no call makes more
\* than MaxSends requests, whatever the API answers (adapt.go: maxSends "bounds
\* the requests one Chat or ChatStream call makes").
THEOREM AdaptTypes == Spec => []TypeOK
<1>1. IInv => TypeOK
  BY DEF IInv
<1>2. QED
  BY <1>1, AdaptInvariance, PTL

\* What a client has learned is true of its model, for any number of concurrent
\* calls and any order of rejections (adapt.go: classify, learn), until it is
\* misled by a request whose effort, tools or model an extra field replaced; in
\* particular always, when no request has such a field.
THEOREM LearnsTruth == Spec => []LearnedTrue
<1>1. IInv => LearnedTrue
  BY DEF IInv
<1>2. QED
  BY <1>1, AdaptInvariance, PTL

\* When callers set no such fields, what a client has learned is true of its model
\* without exception, and a client is misled by nothing else.
THEOREM LearnsTruthOfItsOwn ==
  ASSUME \A r \in Requests : r.extra \cap Replacing = {}
  PROVE  Spec => []TrueOfModel
<1>1. ASSUME IInv, NEW c \in Calls PROVE ~Replaced(c)
  BY <1>1 DEF IInv, TypeOK, Replaced, NothingAsked
<1>2. Init => IInv /\ ~misled
  BY InitIInv DEF Init
<1>3. ASSUME IInv, ~misled, [Next]_vars PROVE IInv' /\ ~misled'
  <2>1. IInv'
    BY <1>3, NextKeepsIInv
  <2>2. CASE UNCHANGED vars
    BY <1>3, <2>1, <2>2 DEF vars
  <2>3. ASSUME NEW c \in Calls, Begin(c) \/ Build(c) \/ Answer(c) \/ Handle(c)
        PROVE  ~misled'
    <3>1. CASE Adjust(c)
      BY <1>1, <1>3, <3>1 DEF Adjust
    <3>2. CASE Begin(c) \/ Return(c)
      BY <1>3, <3>2 DEF Begin, Return
    <3>3. CASE Route(c) \/ ReadTokens(c) \/ ReadEffort(c) \/ ReadTemperature(c) \/ Rejected(c)
      BY <1>3, <3>3 DEF Route, ReadTokens, ReadEffort, ReadTemperature, Rejected
    <3>4. QED
      BY <2>3, <3>1, <3>2, <3>3
         DEF Build, Answer, Handle, RejectUnsupported, Accepted, Stand, Exhausted
  <2>4. QED
    BY <1>3, <2>1, <2>2, <2>3 DEF Next
<1>4. IInv /\ ~misled => TrueOfModel
  BY DEF IInv, LearnedTrue
<1>5. QED
  BY <1>2, <1>3, <1>4, PTL DEF Spec

\* No request gives up a parameter of its caller's that the model would take
\* (buildChatRequest, buildResponsesRequest), although other calls learn while
\* it is built.
THEOREM AdjustsForCause == Spec => []AdjustedForCause
<1>1. IInv => AdjustedForCause
  BY DEF IInv, CallInv, BuiltForCause, AdjustedForCause
<1>2. QED
  BY <1>1, AdaptInvariance, PTL

\* A replaced effort is the nearest one towards medium that the model takes
\* (reasoningEffort, towardsMedium), whatever levels it takes.
THEOREM ReplacesByNearest == Spec => []EffortNearest
<1>1. IInv => EffortNearest
  BY DEF IInv, CallInv, BuiltForCause, EffortNearest
<1>2. QED
  BY <1>1, AdaptInvariance, PTL

-----------------------------------------------------------------------------
(* What a call gives up *)

Efforts(c) == {a \in applied[c] : a.param = "effort"}
WholeEffort == Adjustment("effort", "all")

\* No later request of the call has an effort.
Settled(c) == omitEffort[c] \/ WholeEffort \in applied[c]

\* Each adjustment is one of those that Refusals counts.
AppliedForCause(c) ==
  \A a \in applied[c] :
    /\ a.param = "max_tokens" =>
         a.action = "renamed" /\ request[c].maxTokens /\ ~model.maxTokens
    /\ a.param = "temperature" => request[c].temperature /\ a.action \in model.noTemperature
    /\ a.param = "endpoint" =>
         a.action = "responses" /\ Forced = "unset" /\ model.responsesOnly
    /\ a.param = "effort" => EffortCause(c)

\* The effort is adjusted twice at most: the second time settles it.
EffortsCounted(c) ==
  /\ \E x, y : Efforts(c) \subseteq {x, y}
  /\ ~Settled(c) => \E x : Efforts(c) \subseteq {x}
  /\ ~Settled(c) /\ ~stepped[c] => Efforts(c) = {}
  /\ WholeEffort \in applied[c] => learned.effortUnsupported
  /\ Settled(c) /\ pc[c] \in {"temperature", "sent", "rejected"} => sent[c].effort = Default

\* A request has a limit and a temperature only if one was asked for.
SentAsAsked(c) ==
  /\ pc[c] \in {"effort", "temperature", "sent", "rejected"} /\ sent[c].maxTokens =>
       request[c].maxTokens
  /\ pc[c] \in {"sent", "rejected"} /\ sent[c].temperature => request[c].temperature

\* Each send but the first follows an adjustment that was not made before.
SendsCounted(c) ==
  /\ IsFiniteSet(applied[c])
  /\ pc[c] = "idle" => applied[c] = {}
  /\ pc[c] = "exhausted" => Cardinality(applied[c]) = MaxSends
  /\ pc[c] \notin {"idle", "exhausted"} => Cardinality(applied[c]) + 1 = sends[c]

GivesUp(c) == AppliedForCause(c) /\ EffortsCounted(c) /\ SentAsAsked(c) /\ SendsCounted(c)

JInv == IInv /\ \A c \in Calls : Known(c) => GivesUp(c)

\* What a call's own adjustments say of its state, when it has changed nothing.
Still(d) ==
  /\ Same(d) /\ applied'[d] = applied[d]
  /\ learned.effortUnsupported => learned'.effortUnsupported

LEMMA StillGivesUp ==
  ASSUME NEW d \in Calls, GivesUp(d), Still(d)
  PROVE  GivesUp(d)'
<1>1. /\ Efforts(d)' = Efforts(d) /\ (Settled(d)' <=> Settled(d))
      /\ WholeEffort' = WholeEffort /\ (EffortCause(d)' <=> EffortCause(d))
  BY DEF Still, Same, Efforts, Settled, WholeEffort, EffortCause
<1>2. AppliedForCause(d)'
  BY <1>1 DEF GivesUp, AppliedForCause, Still, Same
<1>3. EffortsCounted(d)'
  BY <1>1 DEF GivesUp, EffortsCounted, Still, Same
<1>4. SentAsAsked(d)' /\ SendsCounted(d)'
  BY DEF GivesUp, SentAsAsked, SendsCounted, Still, Same
<1>5. QED
  BY <1>2, <1>3, <1>4 DEF GivesUp

\* A step that builds, sends or hears of a request adjusts nothing.
LEMMA BuildGivesUp ==
  ASSUME NEW c \in Calls, GivesUp(c),
         model' = model, learned' = learned, request' = request, applied' = applied,
         sends' = sends, omitEffort' = omitEffort, stepped' = stepped,
         pc[c] \notin {"idle", "exhausted"}, pc'[c] \notin {"idle", "exhausted"},
         SentAsAsked(c)',
         Settled(c) /\ pc'[c] \in {"temperature", "sent", "rejected"} =>
           sent'[c].effort = Default
  PROVE  GivesUp(c)'
<1>1. /\ Efforts(c)' = Efforts(c) /\ (Settled(c)' <=> Settled(c))
      /\ WholeEffort' = WholeEffort /\ (EffortCause(c)' <=> EffortCause(c))
  BY DEF Efforts, Settled, WholeEffort, EffortCause
<1>2. AppliedForCause(c)'
  BY <1>1 DEF GivesUp, AppliedForCause
<1>3. EffortsCounted(c)'
  BY <1>1 DEF GivesUp, EffortsCounted
<1>4. SendsCounted(c)'
  BY DEF GivesUp, SendsCounted
<1>5. QED
  BY <1>2, <1>3, <1>4 DEF GivesUp

\* A call that has adjusted nothing.
Fresh(c) ==
  /\ applied[c] = {} /\ ~omitEffort[c]
  /\ pc[c] = "idle" \/ (pc[c] = "route" /\ sends[c] = 1)

FreshGivesNothing == \A c : Fresh(c) => GivesUp(c)

LEMMA NothingGivenUp == FreshGivesNothing
<1> SUFFICES ASSUME NEW c, Fresh(c) PROVE GivesUp(c)
  BY DEF FreshGivesNothing
<1> USE DEF Fresh
<1>1. Efforts(c) = {} /\ ~Settled(c)
  BY DEF Efforts, Settled
<1>2. AppliedForCause(c)
  BY DEF AppliedForCause
<1>3. EffortsCounted(c)
  BY <1>1 DEF EffortsCounted, Settled
<1>4. SentAsAsked(c)
  BY DEF SentAsAsked
<1>5. SendsCounted(c)
  BY FS_EmptySet DEF SendsCounted
<1>6. QED
  BY <1>2, <1>3, <1>4, <1>5 DEF GivesUp

\* An adjustment is counted, and a second one of the effort settles it.
LEMMA AdjustGivesUp ==
  ASSUME IInv, NEW c \in Calls, Known(c), GivesUp(c), Adjust(c)
  PROVE  GivesUp(c)'
<1> DEFINE adj == Classify(c)
           level == adj.param = "effort" /\ adj.action \in Level
<1>1. /\ pc[c] = "rejected" /\ adj # None /\ adj \notin applied[c]
      /\ applied'[c] = applied[c] \cup {adj}
      /\ omitEffort'[c] = (omitEffort[c] \/ (level /\ stepped[c]) \/ adj.action = "this call")
      /\ stepped'[c] = (stepped[c] \/ level)
      /\ model' = model /\ request' = request /\ learned' = Learn(adj)
  BY DEF IInv, TypeOK, Adjust, Resolvable, StepOrOmit
<1>2. \/ pc'[c] = "exhausted" /\ sends'[c] = sends[c] /\ sends[c] = MaxSends
      \/ pc'[c] = "route" /\ sends'[c] = sends[c] + 1
  BY DEF IInv, TypeOK, Adjust, Goto, OutOfSends
<1>3. /\ adj = Adjustment(adj.param, adj.action)
      /\ adj.param \in {"max_tokens", "temperature", "effort", "endpoint"}
      /\ adj.param = "max_tokens" => adj.action = "renamed" /\ sent[c].maxTokens
      /\ adj.param = "temperature" => sent[c].temperature
      /\ adj.param = "endpoint" => adj.action = "responses" /\ Forced = "unset"
      /\ adj.param = "effort" => sent[c].effort # Default
  BY <1>1, ClassifyNames DEF IInv
<1>4. /\ adj.param = "max_tokens" => ~model.maxTokens
      /\ adj.param = "temperature" => adj.action \in Class /\ adj.action \in model.noTemperature
      /\ adj.param = "endpoint" => model.responsesOnly
      /\ adj.param = "effort" =>
           adj.action \in Level \cup {"all", "this call"} /\ EffortCause(c)
  BY ClassifyIsSound DEF Adjust
<1>5. "this call" \notin Level /\ "all" \notin Level
  BY DEF Level
<1> HIDE DEF adj
<1>6. AppliedForCause(c)'
  <2>1. EffortCause(c)' <=> EffortCause(c)
    BY <1>1 DEF EffortCause
  <2>2. /\ sent[c].maxTokens => request[c].maxTokens
        /\ sent[c].temperature => request[c].temperature
    BY <1>1 DEF GivesUp, SentAsAsked
  <2>3. QED
    BY <1>1, <1>3, <1>4, <2>1, <2>2 DEF GivesUp, AppliedForCause
<1>7. /\ learned.effortUnsupported => learned'.effortUnsupported
      /\ adj = WholeEffort => learned'.effortUnsupported
  BY LearnedType DEF IInv, WholeEffort, adj
<1>8. EffortsCounted(c)'
  <2>1. WholeEffort' = WholeEffort
    BY DEF WholeEffort
  <2>2. WholeEffort \in applied'[c] => learned'.effortUnsupported
    BY <1>1, <1>7 DEF GivesUp, EffortsCounted
  <2>3. CASE adj.param # "effort"
    <3>1. Efforts(c)' = Efforts(c)
      BY <1>1, <2>3 DEF Efforts
    <3>2. adj # WholeEffort
      BY <2>3 DEF WholeEffort, Adjustment
    <3>3. Settled(c) => Settled(c)'
      BY <1>1, <2>1 DEF Settled
    <3>4. stepped'[c] = stepped[c]
      BY <1>1, <2>3 DEF IInv, TypeOK
    <3>5. QED
      BY <1>2, <2>1, <2>2, <3>1, <3>3, <3>4 DEF GivesUp, EffortsCounted
  <2>4. CASE adj.param = "effort"
    <3>1. ~Settled(c)
      BY <1>1, <1>3, <2>4 DEF GivesUp, EffortsCounted
    <3>2. Efforts(c)' = Efforts(c) \cup {adj}
      BY <1>1, <2>4 DEF Efforts
    <3>3. PICK x : Efforts(c) \subseteq {x}
      BY <3>1 DEF GivesUp, EffortsCounted
    <3>4. Efforts(c)' \subseteq {x, adj}
      BY <3>2, <3>3
    <3>5. CASE level /\ ~stepped[c]
      <4>1. Efforts(c) = {}
        BY <3>1, <3>5 DEF GivesUp, EffortsCounted
      <4>2. Efforts(c)' \subseteq {adj} /\ stepped'[c]
        BY <1>1, <3>2, <3>5, <4>1
      <4>3. QED
        BY <1>2, <2>1, <2>2, <3>4, <4>2 DEF EffortsCounted
    <3>6. CASE ~(level /\ ~stepped[c])
      <4>1. adj.action = "all" => adj = WholeEffort
        BY <1>3, <2>4 DEF WholeEffort
      <4>2. adj.action \in Level => level /\ stepped[c]
        BY <2>4, <3>6
      <4>3. Settled(c)'
        <5>1. CASE adj.action = "all"
          BY <1>1, <2>1, <4>1, <5>1 DEF Settled
        <5>2. CASE adj.action = "this call" \/ adj.action \in Level
          BY <1>1, <4>2, <5>2 DEF Settled
        <5>3. QED
          BY <1>4, <2>4, <5>1, <5>2
      <4>4. QED
        BY <1>2, <2>1, <2>2, <3>4, <4>3 DEF EffortsCounted
    <3>7. QED
      BY <3>5, <3>6
  <2>5. QED
    BY <2>3, <2>4
<1>9. SentAsAsked(c)'
  BY <1>2 DEF SentAsAsked
<1>10. SendsCounted(c)'
  <2>1. sends[c] \in Nat
    BY DEF IInv, TypeOK
  <2>2. IsFiniteSet(applied[c]) /\ Cardinality(applied[c]) + 1 = sends[c]
    BY <1>1 DEF GivesUp, SendsCounted
  <2>3. /\ IsFiniteSet(applied[c] \cup {adj})
        /\ Cardinality(applied[c] \cup {adj}) = Cardinality(applied[c]) + 1
    BY <1>1, <2>2, FS_AddElement
  <2>4. QED
    BY <1>1, <1>2, <2>1, <2>2, <2>3 DEF SendsCounted
<1>11. QED
  BY <1>6, <1>8, <1>9, <1>10 DEF GivesUp

\* The steps of a call before its request is sent, and when it is rejected.
LEMMA BuildStepGivesUp ==
  ASSUME IInv, NEW c \in Calls, GivesUp(c),
         Route(c) \/ ReadTokens(c) \/ ReadEffort(c) \/ ReadTemperature(c) \/ Rejected(c)
  PROVE  GivesUp(c)' /\ learned' = learned
<1>1. /\ model' = model /\ learned' = learned /\ request' = request /\ applied' = applied
      /\ sends' = sends /\ omitEffort' = omitEffort /\ stepped' = stepped
  BY DEF Route, ReadTokens, ReadEffort, ReadTemperature, Rejected
<1>2. pc[c] \notin {"idle", "exhausted"} /\ pc'[c] \notin {"idle", "exhausted"}
  BY DEF IInv, TypeOK, Goto, Route, ReadTokens, ReadEffort, ReadTemperature, Rejected
<1>3. sent[c] \in [responses : BOOLEAN, maxTokens : BOOLEAN, effort : Level \cup {Default},
                   temperature : BOOLEAN, tools : BOOLEAN]
  BY CallTypes DEF IInv
<1>4. SentAsAsked(c) /\ EffortsCounted(c)
  BY DEF GivesUp
<1>5. CASE Route(c)
  <2>1. pc'[c] = "tokens"
    BY <1>5 DEF IInv, TypeOK, Route, Goto
  <2>2. SentAsAsked(c)'
    BY <2>1 DEF SentAsAsked
  <2>3. QED
    BY <1>1, <1>2, <2>1, <2>2, BuildGivesUp
<1>6. CASE ReadTokens(c)
  <2>1. pc'[c] = "effort"
        /\ sent'[c].maxTokens = (~sent[c].responses /\ request[c].maxTokens
                                   /\ ~learned.maxCompletionTokens)
    BY <1>3, <1>6 DEF IInv, TypeOK, ReadTokens, Goto
  <2>2. SentAsAsked(c)'
    BY <1>1, <2>1 DEF SentAsAsked
  <2>3. QED
    BY <1>1, <1>2, <2>1, <2>2, BuildGivesUp
<1>7. CASE ReadEffort(c)
  <2>1. /\ pc[c] = "effort" /\ pc'[c] = "temperature"
        /\ sent'[c] = [sent[c] EXCEPT !.effort = ReasoningEffort(c)]
    BY <1>7 DEF IInv, TypeOK, ReadEffort, Goto
  <2>2. sent'[c].effort = ReasoningEffort(c) /\ sent'[c].maxTokens = sent[c].maxTokens
    BY <1>3, <2>1
  <2>3. SentAsAsked(c)'
    BY <1>1, <1>4, <2>1, <2>2 DEF SentAsAsked
  <2>4. Settled(c) => ReasoningEffort(c) = Default
    BY <1>4 DEF Settled, EffortsCounted, ReasoningEffort
  <2>5. QED
    BY <1>1, <1>2, <2>2, <2>3, <2>4, BuildGivesUp
<1>8. CASE ReadTemperature(c)
  <2>1. /\ pc[c] = "temperature" /\ pc'[c] = "sent"
        /\ sent'[c] = [sent[c] EXCEPT !.temperature =
              request[c].temperature
                /\ TemperatureFlag(sent[c].effort) \notin learned.dropTemperature]
    BY <1>8 DEF IInv, TypeOK, ReadTemperature, Goto
  <2>2. /\ sent'[c].effort = sent[c].effort /\ sent'[c].maxTokens = sent[c].maxTokens
        /\ sent'[c].temperature => request[c].temperature
    BY <1>3, <2>1
  <2>3. SentAsAsked(c)'
    BY <1>1, <1>4, <2>1, <2>2 DEF SentAsAsked
  <2>4. Settled(c) => sent[c].effort = Default
    BY <1>4, <2>1 DEF EffortsCounted
  <2>5. QED
    BY <1>1, <1>2, <2>2, <2>3, <2>4, BuildGivesUp
<1>9. CASE Rejected(c)
  <2>1. pc[c] = "sent" /\ pc'[c] = "rejected" /\ sent' = sent
    BY <1>9 DEF IInv, TypeOK, Rejected, Goto
  <2>2. SentAsAsked(c)'
    BY <1>1, <1>4, <2>1 DEF SentAsAsked
  <2>3. Settled(c) => sent[c].effort = Default
    BY <1>4, <2>1 DEF EffortsCounted
  <2>4. QED
    BY <1>1, <1>2, <2>1, <2>2, <2>3, BuildGivesUp
<1>10. QED
  BY <1>5, <1>6, <1>7, <1>8, <1>9

LEMMA BeginGivesUp ==
  ASSUME IInv, NEW c \in Calls, GivesUp(c), CallInv(c), Begin(c)
  PROVE  GivesUp(c)'
<1>1. FreshGivesNothing'
  BY NothingGivenUp, PTL
<1>2. applied[c] = {} /\ ~omitEffort[c]
  BY DEF GivesUp, SendsCounted, CallInv, OmittedForCause, Begin
<1>3. applied'[c] = {} /\ ~omitEffort'[c] /\ pc'[c] = "route" /\ sends'[c] = 1
  BY <1>2 DEF IInv, TypeOK, Begin, Goto
<1>4. QED
  BY <1>1, <1>3 DEF FreshGivesNothing, Fresh

LEMMA ReturnGivesUp ==
  ASSUME IInv, NEW c \in Calls, Return(c)
  PROVE  GivesUp(c)'
<1>1. FreshGivesNothing'
  BY NothingGivenUp, PTL
<1>2. applied'[c] = {} /\ ~omitEffort'[c] /\ pc'[c] = "idle"
  BY DEF IInv, TypeOK, Return, Goto
<1>3. QED
  BY <1>1, <1>2 DEF FreshGivesNothing, Fresh

\* Each step is of one call; the others' adjustments stay theirs.
LEMMA OthersStill ==
  ASSUME IInv, NEW c \in Calls, Begin(c) \/ Build(c) \/ Answer(c) \/ Handle(c)
  PROVE  \A d \in Calls \ {c} : Same(d) /\ applied'[d] = applied[d]
<1>1. CASE Begin(c)
  BY <1>1, BeginKeeps DEF Begin
<1>2. CASE Route(c)
  BY <1>2, RouteKeeps DEF Route
<1>3. CASE ReadTokens(c)
  BY <1>3, ReadTokensKeeps DEF ReadTokens
<1>4. CASE ReadEffort(c)
  BY <1>4, ReadEffortKeeps DEF ReadEffort
<1>5. CASE ReadTemperature(c)
  BY <1>5, ReadTemperatureKeeps DEF ReadTemperature
<1>6. CASE Rejected(c)
  BY <1>6, RejectedKeeps DEF Rejected
<1>7. CASE Adjust(c)
  <2>1. \A d \in Calls \ {c} : applied'[d] = applied[d]
    BY <1>7 DEF IInv, TypeOK, Adjust
  <2>2. QED
    BY <1>7, <2>1, AdjustKeeps
<1>8. CASE Return(c)
  <2>1. \A d \in Calls \ {c} : applied'[d] = applied[d]
    BY <1>8 DEF IInv, TypeOK, Return
  <2>2. QED
    BY <1>8, <2>1, ReturnKeeps
<1>9. QED
  BY <1>1, <1>2, <1>3, <1>4, <1>5, <1>6, <1>7, <1>8
     DEF Build, Answer, Handle, RejectUnsupported, Accepted, Stand, Exhausted

LEMMA NextKeepsJInv ==
  ASSUME JInv, [Next]_vars
  PROVE  JInv'
<1>1. /\ IInv /\ IInv' /\ (misled => misled')
      /\ \A d \in Calls : Known(d) => GivesUp(d)
  BY NextKeepsIInv, NextKeepsIdle DEF JInv, IInv
<1>2. ASSUME NEW d \in Calls, Still(d), Known(d)' PROVE GivesUp(d)'
  BY <1>1, <1>2, StillGivesUp DEF Still, Same, Known, Replaced
<1>3. CASE UNCHANGED vars
  <2>1. \A d \in Calls : Still(d)
    BY <1>3 DEF vars, callVars, Still, Same
  <2>2. QED
    BY <1>1, <1>2, <2>1 DEF JInv
<1>4. ASSUME NEW c \in Calls, Begin(c) \/ Build(c) \/ Answer(c) \/ Handle(c)
      PROVE  JInv'
  <2>1. ASSUME Known(c)' PROVE GivesUp(c)'
    <3>1. CASE Adjust(c)
      <4>1. Known(c)
        BY <1>1, <2>1, <3>1, KnownBefore DEF Adjust
      <4>2. QED
        BY <1>1, <3>1, <4>1, AdjustGivesUp
    <3>2. CASE Route(c) \/ ReadTokens(c) \/ ReadEffort(c) \/ ReadTemperature(c) \/ Rejected(c)
      <4>1. Known(c)
        BY <1>1, <2>1, <3>2, KnownBefore
           DEF Route, ReadTokens, ReadEffort, ReadTemperature, Rejected
      <4>2. QED
        BY <1>1, <3>2, <4>1, BuildStepGivesUp
    <3>3. CASE Begin(c)
      <4>1. Known(c) /\ CallInv(c)
        BY <1>1, <2>1, <3>3, KnownBefore DEF Begin
      <4>2. QED
        BY <1>1, <3>3, <4>1, BeginGivesUp
    <3>4. CASE Return(c)
      BY <1>1, <3>4, ReturnGivesUp
    <3>5. QED
      BY <1>4, <3>1, <3>2, <3>3, <3>4
         DEF Build, Answer, Handle, RejectUnsupported, Accepted, Stand, Exhausted
  <2>2. learned.effortUnsupported => learned'.effortUnsupported
    <3>1. CASE Adjust(c)
      BY <1>1, <3>1, LearnedType DEF IInv
    <3>2. CASE Begin(c) \/ Return(c)
      BY <3>2 DEF Begin, Return
    <3>3. CASE Route(c) \/ ReadTokens(c) \/ ReadEffort(c) \/ ReadTemperature(c) \/ Rejected(c)
      BY <3>3 DEF Route, ReadTokens, ReadEffort, ReadTemperature, Rejected
    <3>4. QED
      BY <1>4, <3>1, <3>2, <3>3
         DEF Build, Answer, Handle, RejectUnsupported, Accepted, Stand, Exhausted
  <2>3. \A d \in Calls \ {c} : Still(d)
    BY <1>1, <1>4, <2>2, OthersStill DEF Still
  <2>4. \A d \in Calls \ {c} : Known(d)' => GivesUp(d)'
    BY <1>2, <2>3
  <2>5. QED
    BY <1>1, <2>1, <2>4 DEF JInv
<1>5. QED
  BY <1>3, <1>4 DEF Next

LEMMA JInvHolds == Spec => []JInv
<1>1. Init => JInv
  <2>1. ASSUME Init, NEW c \in Calls PROVE GivesUp(c)
    BY <2>1, NothingGivenUp DEF Init, Fresh, FreshGivesNothing
  <2>2. QED
    BY <2>1, InitIInv DEF JInv
<1>2. JInv /\ [Next]_vars => JInv'
  BY NextKeepsJInv
<1>3. QED
  BY <1>1, <1>2, PTL DEF Spec

-----------------------------------------------------------------------------
(* Counting what a call gives up *)

LEMMA UnionCount ==
  ASSUME NEW S, NEW T, IsFiniteSet(S), IsFiniteSet(T), NEW m \in Nat, NEW n \in Nat,
         Cardinality(S) <= m, Cardinality(T) <= n
  PROVE  IsFiniteSet(S \cup T) /\ Cardinality(S \cup T) <= m + n
<1>1. /\ IsFiniteSet(S \cup T) /\ IsFiniteSet(S \cap T)
      /\ Cardinality(S \cup T) = Cardinality(S) + Cardinality(T) - Cardinality(S \cap T)
  BY FS_Union, FS_Subset
<1>2. /\ Cardinality(S) \in Nat /\ Cardinality(T) \in Nat
      /\ Cardinality(S \cap T) \in Nat
  BY <1>1, FS_CardinalityType
<1>3. QED
  BY <1>1, <1>2

LEMMA PairCount ==
  ASSUME NEW S, NEW x, NEW y, S \subseteq {x, y}
  PROVE  IsFiniteSet(S) /\ Cardinality(S) <= 2
<1>1. IsFiniteSet({x}) /\ IsFiniteSet({y}) /\ Cardinality({x}) = 1 /\ Cardinality({y}) = 1
  BY FS_Singleton
<1>2. IsFiniteSet({x} \cup {y}) /\ Cardinality({x} \cup {y}) <= 2
  <2> DEFINE one == 1
  <2>1. one \in Nat /\ Cardinality({x}) <= one /\ Cardinality({y}) <= one /\ one + one = 2
    BY <1>1
  <2> HIDE DEF one
  <2>2. IsFiniteSet({x} \cup {y}) /\ Cardinality({x} \cup {y}) <= one + one
    BY <1>1, <2>1, UnionCount
  <2>3. QED
    BY <2>1, <2>2
<1>3. S \in SUBSET ({x} \cup {y})
  OBVIOUS
<1>4. IsFiniteSet(S) /\ Cardinality(S) <= Cardinality({x} \cup {y})
  BY <1>2, <1>3, FS_Subset
<1>5. Cardinality(S) \in Nat /\ Cardinality({x} \cup {y}) \in Nat
  BY <1>2, <1>4, FS_CardinalityType
<1>6. QED
  BY <1>2, <1>4, <1>5

\* The adjustments of the temperature are at most the classes that refuse one.
LEMMA ClassCount ==
  ASSUME NEW C, IsFiniteSet(C)
  PROVE  LET T == {Adjustment("temperature", k) : k \in C}
         IN  IsFiniteSet(T) /\ Cardinality(T) <= Cardinality(C)
<1> DEFINE T == {Adjustment("temperature", k) : k \in C}
           f == [k \in C |-> Adjustment("temperature", k)]
<1>1. f \in Surjection(C, T)
  BY DEF Surjection
<1>2. QED
  BY <1>1, FS_Surjection

LEMMA CountedAsRefused ==
  ASSUME JInv, NEW c \in Calls, Known(c)
  PROVE  Cardinality(applied[c]) <= Refusals(c)
<1> DEFINE one(P) == IF P THEN 1 ELSE 0
           onlyEndpoint == Forced = "unset" /\ model.responsesOnly
           onlyTokens == request[c].maxTokens /\ ~model.maxTokens
           E == {a \in applied[c] : a.param = "endpoint"}
           M == {a \in applied[c] : a.param = "max_tokens"}
           T == {a \in applied[c] : a.param = "temperature"}
           F == Efforts(c)
           e == one(onlyEndpoint)
           m == one(onlyTokens)
           t == IF request[c].temperature THEN Cardinality(model.noTemperature) ELSE 0
           f == 2 * one(EffortCause(c))
<1>1. /\ AppliedForCause(c) /\ EffortsCounted(c) /\ applied[c] \in SUBSET AdjustmentType
      /\ model \in ModelType
  BY CallTypes DEF JInv, GivesUp, IInv, TypeOK
<1>2. \A a \in applied[c] : a = Adjustment(a.param, a.action)
  <2> DEFINE P == {"max_tokens", "temperature", "effort", "endpoint"}
             A == Class \cup Level \cup {"renamed", "all", "this call", "responses"}
  <2>1. \A a \in AdjustmentType : a = [param |-> a.param, action |-> a.action]
    <3>1. AdjustmentType = [param : P, action : A]
      BY DEF AdjustmentType
    <3> HIDE DEF P, A
    <3>2. QED
      BY <3>1
  <2>2. QED
    BY <1>1, <2>1 DEF Adjustment
<1>3. IsFiniteSet(E) /\ Cardinality(E) <= e /\ e \in Nat
  <2>1. E \subseteq {Adjustment("endpoint", "responses")} /\ (~onlyEndpoint => E = {})
    BY <1>1, <1>2 DEF AppliedForCause
  <2> DEFINE x == Adjustment("endpoint", "responses")
  <2> HIDE DEF E, x
  <2>2. IsFiniteSet({x}) /\ Cardinality({x}) = 1 /\ IsFiniteSet({}) /\ Cardinality({}) = 0
    BY FS_Singleton, FS_EmptySet
  <2>3. E = {} \/ (E = {x} /\ onlyEndpoint)
    BY <2>1 DEF x
  <2>4. QED
    BY <2>2, <2>3
<1>4. IsFiniteSet(M) /\ Cardinality(M) <= m /\ m \in Nat
  <2>1. M \subseteq {Adjustment("max_tokens", "renamed")} /\ (~onlyTokens => M = {})
    BY <1>1, <1>2 DEF AppliedForCause
  <2> DEFINE x == Adjustment("max_tokens", "renamed")
  <2> HIDE DEF M, x
  <2>2. IsFiniteSet({x}) /\ Cardinality({x}) = 1 /\ IsFiniteSet({}) /\ Cardinality({}) = 0
    BY FS_Singleton, FS_EmptySet
  <2>3. M = {} \/ (M = {x} /\ onlyTokens)
    BY <2>1 DEF x
  <2>4. QED
    BY <2>2, <2>3
<1>5. IsFiniteSet(T) /\ Cardinality(T) <= t /\ t \in Nat
  <2> DEFINE N == model.noTemperature
             U == {Adjustment("temperature", k) : k \in N}
  <2>1. IsFiniteSet(N) /\ Cardinality(N) \in Nat
    <3>1. IsFiniteSet({"default", "none"} \cup {"reasoning"})
      BY PairCount, FS_Singleton, FS_Union
    <3>2. N \in SUBSET ({"default", "none"} \cup {"reasoning"})
      BY <1>1 DEF ModelType, Class
    <3>3. QED
      BY <3>1, <3>2, FS_Subset, FS_CardinalityType
  <2>2. IsFiniteSet(U) /\ Cardinality(U) <= Cardinality(N)
    BY <2>1, ClassCount
  <2>3. T \in SUBSET U /\ (~request[c].temperature => T = {})
    BY <1>1, <1>2 DEF AppliedForCause
  <2>4. /\ IsFiniteSet(T) /\ Cardinality(T) <= Cardinality(U)
        /\ Cardinality(T) \in Nat /\ Cardinality(U) \in Nat
    BY <2>2, <2>3, FS_Subset, FS_CardinalityType
  <2> HIDE DEF U, T, N
  <2>5. CASE request[c].temperature
    BY <2>1, <2>2, <2>4, <2>5 DEF N
  <2>6. CASE ~request[c].temperature
    BY <2>3, <2>4, <2>6, FS_EmptySet
  <2>7. QED
    BY <2>5, <2>6
<1>6. IsFiniteSet(F) /\ Cardinality(F) <= f /\ f \in Nat
  <2>1. PICK x, y : F \subseteq {x, y}
    BY <1>1 DEF EffortsCounted
  <2>2. ~EffortCause(c) => F = {}
    BY <1>1 DEF AppliedForCause, Efforts
  <2>3. IsFiniteSet(F) /\ Cardinality(F) <= 2
    BY <2>1, PairCount
  <2>4. CASE EffortCause(c)
    BY <2>3, <2>4
  <2>5. CASE ~EffortCause(c)
    BY <2>2, <2>5, FS_EmptySet
  <2>6. QED
    BY <2>4, <2>5
<1>7. applied[c] = ((E \cup M) \cup T) \cup F
  BY <1>1 DEF AdjustmentType, Efforts
<1>8. Refusals(c) = e + m + t + f
  BY DEF Refusals
<1> HIDE DEF E, M, T, F, e, m, t, f
<1>9. e + m \in Nat /\ (e + m) + t \in Nat
  BY <1>3, <1>4, <1>5
<1>10. IsFiniteSet(E \cup M) /\ Cardinality(E \cup M) <= e + m
  BY <1>3, <1>4, UnionCount
<1>11. IsFiniteSet((E \cup M) \cup T) /\ Cardinality((E \cup M) \cup T) <= (e + m) + t
  BY <1>5, <1>9, <1>10, UnionCount
<1>12. Cardinality(((E \cup M) \cup T) \cup F) <= ((e + m) + t) + f
  BY <1>6, <1>9, <1>11, UnionCount
<1>13. QED
  BY <1>7, <1>8, <1>12

\* No send is wasted (adapt.go: maxSends): a call that runs out of sends had that
\* many things to give up, for every model, every request whose effort, tools and
\* model are the library's, any number of calls at a time and any order of
\* rejections.
THEOREM NoSendWasted == Spec => []ExhaustedForCause
<1>1. ASSUME JInv PROVE ExhaustedForCause
  <2>1. ASSUME NEW c \in Calls, pc[c] = "exhausted", Known(c) PROVE Refusals(c) >= MaxSends
    <3>1. Cardinality(applied[c]) = MaxSends
      BY <1>1, <2>1 DEF JInv, GivesUp, SendsCounted
    <3>2. Cardinality(applied[c]) <= Refusals(c)
      BY <1>1, <2>1, CountedAsRefused
    <3>3. Refusals(c) >= Cardinality(applied[c])
      BY <3>2
    <3>4. QED
      BY <3>1, <3>3
  <2>2. QED
    BY <2>1 DEF ExhaustedForCause
<1>2. QED
  BY <1>1, JInvHolds, PTL

=============================================================================
