--------------------------- MODULE AnthropicProofs ---------------------------
(***************************************************************************)
(* Proofs about AnthropicAdapt, for every set of calls, requests, models   *)
(* and endpoints and every number of sends.                                *)
(***************************************************************************)
EXTENDS AnthropicAdapt, FiniteSetTheorems, TLAPS

Lessons == [temperature : BOOLEAN, types : SUBSET Type, levels : SUBSET Level,
            marker : BOOLEAN]
Stages == {"idle", "temperature", "effort", "caching", "sent", "exhausted"}

-----------------------------------------------------------------------------
(* Types *)

\* What is asked and what is sent when there is nothing have their types.
LEMMA NothingTypes == NothingAsked \in RequestType /\ NothingSent \in SentType
BY DEF NothingAsked, NothingSent, RequestType, SentType, Effort, Unset

LEMMA CallTypes ==
  ASSUME TypeOK, NEW c \in Calls
  PROVE  /\ api \in ApiType /\ learned \in Lessons
         /\ request[c] \in RequestType /\ sent[c] \in SentType
         /\ applied[c] \in SUBSET Adjustments /\ sends[c] \in 0 .. MaxSends
         /\ pc[c] \in Stages /\ MaxSends \in Nat \ {0}
BY NothingTypes, AnthropicAssumption DEF TypeOK, Lessons, Stages

\* The thinking type and the level of an effort are ones that can be sent.
LEMMA EffortTypes ==
  ASSUME NEW e \in Effort
  PROVE  /\ TypeOf(e) \in (Type \ {"enabled"}) \cup {Unset}
         /\ LevelOf(e) \in Level \cup {Unset}
         /\ Unset \notin Type /\ Unset \notin Level
BY DEF TypeOf, LevelOf, Type, Level, Effort, Unset

-----------------------------------------------------------------------------
(* Rejections *)

\* A complaint about the temperature names it.
LEMMA TemperatureNamed ==
  ASSUME NEW s, NEW f \in TemperatureFaults(s)
  PROVE  f.about = "temperature"
<1>1. \E t \in BOOLEAN : f = Complaint("temperature", t)
  BY DEF TemperatureFaults
<1>2. QED
  BY <1>1 DEF Complaint

\* What a rejection that is acted on says of the request: it carried the
\* parameter, and one of its faults is named.
LEMMA FaultOf ==
  ASSUME NEW s \in SentType, NEW f \in Faults(s) \cup OtherFaults,
         AdaptToRejection(s, f) # "none"
  PROVE  LET adj == AdaptToRejection(s, f) IN
         /\ adj \in Adjustments /\ f \in Faults(s)
         /\ adj = "thinking blocks" => f \in SignatureFaults(s) /\ f.about = "signature"
         /\ adj = "temperature" => f \in TemperatureFaults(s)
         /\ adj = "effort" => f \in EffortFaults(s) /\ s.effort # Unset
         /\ adj \in {"cache_control", "cache_control/this call"} =>
              f \in MarkerFaults(s) /\ s.marker /\ f.about = "cache_control"
         /\ adj = "cache_control" => s.marks = "none"
         /\ adj = "cache_control/this call" => s.marks # "none"
         /\ adj = "thinking" =>
              f \in ThinkingFaults(s) /\ s.thinking \in {"adaptive", "disabled"}
<1> DEFINE adj == AdaptToRejection(s, f)
<1>1. f \in SignatureFaults(s) \cup TemperatureFaults(s) \cup EffortFaults(s)
              \cup MarkerFaults(s) \cup ThinkingFaults(s) \cup OtherFaults
  BY DEF Faults
<1>2. /\ f \in SignatureFaults(s) => f.about = "signature"
      /\ f \in TemperatureFaults(s) => f.about = "temperature"
      /\ f \in EffortFaults(s) => f.about = "effort"
      /\ f \in MarkerFaults(s) => f.about = "cache_control"
      /\ f \in ThinkingFaults(s) => f.about = "thinking"
      /\ f \in OtherFaults => f.about \in {"other", "blocks"}
  <2>1. f \in SignatureFaults(s) => f.about = "signature"
    BY DEF SignatureFaults, Complaint
  <2>2. f \in TemperatureFaults(s) => f.about = "temperature"
    BY TemperatureNamed
  <2>3. f \in EffortFaults(s) => f.about = "effort"
    BY DEF EffortFaults, Complaint
  <2>4. f \in MarkerFaults(s) => f.about = "cache_control"
    BY DEF MarkerFaults, Complaint
  <2>5. f \in ThinkingFaults(s) => f.about = "thinking"
    BY DEF ThinkingFaults, Complaint
  <2>6. f \in OtherFaults => f.about \in {"other", "blocks"}
    BY DEF OtherFaults, Complaint
  <2>7. QED
    BY <2>1, <2>2, <2>3, <2>4, <2>5, <2>6
<1>3. \/ f.about = "signature" /\ adj = "thinking blocks"
      \/ f.about = "temperature" /\ adj = "temperature"
      \/ f.about = "effort" /\ s.effort # Unset /\ adj = "effort"
      \/ /\ f.about = "cache_control" /\ s.marker
         /\ adj = IF s.marks = "none" THEN "cache_control" ELSE "cache_control/this call"
      \/ f.about = "thinking" /\ s.thinking \in {"adaptive", "disabled"} /\ adj = "thinking"
  BY <1>1, <1>2 DEF AdaptToRejection
<1>4. QED
  BY <1>1, <1>2, <1>3 DEF Adjustments

\* An API that checks signatures first has none to complain of when it complains
\* of anything else, and one that checks them last has nothing else.
LEMMA OrderOfChecks ==
  ASSUME NEW s, NEW f \in Faults(s)
  PROVE  /\ f.about # "signature" /\ api.signatureFirst => s.replayed # "stale"
         /\ f.about = "signature" /\ ~api.signatureFirst => MarkerFaults(s) = {}
<1>1. /\ f \in TemperatureFaults(s) => f.about = "temperature"
      /\ f \in EffortFaults(s) => f.about = "effort"
      /\ f \in MarkerFaults(s) => f.about = "cache_control"
      /\ f \in ThinkingFaults(s) => f.about = "thinking"
  <2>1. f \in TemperatureFaults(s) => f.about = "temperature"
    BY TemperatureNamed
  <2>2. f \in EffortFaults(s) => f.about = "effort"
    BY DEF EffortFaults, Complaint
  <2>3. f \in MarkerFaults(s) => f.about = "cache_control"
    BY DEF MarkerFaults, Complaint
  <2>4. f \in ThinkingFaults(s) => f.about = "thinking"
    BY DEF ThinkingFaults, Complaint
  <2>5. QED
    BY <2>1, <2>2, <2>3, <2>4
<1>2. f \in SignatureFaults(s) => f.about = "signature"
  BY DEF SignatureFaults, Complaint
<1>3. s.replayed = "stale" <=> SignatureFaults(s) # {}
  BY DEF SignatureFaults
<1>4. QED
  BY <1>1, <1>2, <1>3 DEF Faults

\* A request that carries a marker which the API does not take is rejected.
LEMMA MarkerRejected ==
  ASSUME NEW s, MarkerFaults(s) # {}
  PROVE  Faults(s) # {}
BY DEF Faults

-----------------------------------------------------------------------------
(* Steps *)

\* What the client has learned lasts.
Grows ==
  /\ learned.types \subseteq learned'.types
  /\ learned.levels \subseteq learned'.levels
  /\ learned.marker => learned'.marker

\* Nothing that CallInv says of a call has changed.
Same(d) ==
  /\ api' = api /\ Grows
  /\ pc'[d] = pc[d] /\ request'[d] = request[d] /\ sent'[d] = sent[d]
  /\ sends'[d] = sends[d] /\ applied'[d] = applied[d]

\* Which levels the model refuses depends on the model alone.
LEMMA RefusedLevelsKept ==
  ASSUME api' = api
  PROVE  RefusedLevels' = RefusedLevels
BY DEF RefusedLevels

LEMMA SameAppliedForCause ==
  ASSUME NEW d \in Calls, api' = api, Grows, request'[d] = request[d],
         applied'[d] = applied[d], AppliedForCause(d)
  PROVE  AppliedForCause(d)'
BY DEF Grows, AppliedForCause, TemperatureCause, MarkersCause

LEMMA OthersKeepCallInv ==
  ASSUME NEW d \in Calls, Same(d), CallInv(d)
  PROVE  CallInv(d)'
<1>1. AppliedForCause(d)'
  BY SameAppliedForCause DEF Same, CallInv
<1>2. Counted(d)'
  BY DEF Same, CallInv, Counted
<1>3. pc'[d] \in {"effort", "caching", "sent"} => TemperatureBuilt(d)'
  BY DEF Same, CallInv, TemperatureBuilt, TemperatureCause
<1>4. pc'[d] \in {"caching", "sent"} => ThinkingBuilt(d)' /\ EffortBuilt(d)'
  BY RefusedLevelsKept DEF Same, CallInv, ThinkingBuilt, EffortBuilt
<1>5. pc'[d] = "sent" => MarkerBuilt(d)' /\ Omitted(d)'
  BY DEF Same, CallInv, MarkerBuilt, MarkersCause, Omitted, BlocksKept
<1>6. /\ pc'[d] # "idle" => request'[d] \in Requests
      /\ pc'[d] = "effort" => sent'[d].thinking = Unset
      /\ pc'[d] \in {"effort", "caching"} => BlocksKept(d)'
  BY DEF Same, CallInv, BlocksKept
<1>7. QED
  BY <1>1, <1>2, <1>3, <1>4, <1>5, <1>6 DEF CallInv

LEMMA InitIInv == Init => IInv
<1> SUFFICES ASSUME Init PROVE IInv
  OBVIOUS
<1>1. TypeOK
  BY NothingTypes, AnthropicAssumption DEF Init, TypeOK
<1>2. LearnedTrue
  BY DEF Init, LearnedTrue
<1>3. ASSUME NEW c \in Calls PROVE CallInv(c)
  <2>1. pc[c] = "idle" /\ applied[c] = {} /\ sends[c] = 0
    BY DEF Init
  <2>2. QED
    BY <2>1 DEF CallInv, AppliedForCause, Counted
<1>4. QED
  BY <1>1, <1>2, <1>3 DEF IInv

LEMMA BeginKeeps ==
  ASSUME IInv, NEW c \in Calls, Begin(c)
  PROVE  TypeOK' /\ LearnedTrue' /\ CallInv(c)' /\ \A d \in Calls \ {c} : Same(d)
<1>1. PICK r \in Requests : request' = [request EXCEPT ![c] = r]
  BY DEF Begin
<1>2. /\ api' = api /\ learned' = learned /\ sent' = sent
      /\ applied' = [applied EXCEPT ![c] = {}]
      /\ pc' = [pc EXCEPT ![c] = "temperature"] /\ sends' = [sends EXCEPT ![c] = 1]
  BY DEF Begin, Goto
<1>3. TypeOK'
  BY <1>1, <1>2, AnthropicAssumption DEF IInv, TypeOK
<1>4. LearnedTrue'
  BY <1>2, RefusedLevelsKept DEF IInv, LearnedTrue
<1>5. CallInv(c)'
  <2>1. /\ pc'[c] = "temperature" /\ applied'[c] = {} /\ sends'[c] = 1
        /\ request'[c] \in Requests
    BY <1>1, <1>2 DEF IInv, TypeOK
  <2>2. Cardinality(applied'[c]) = 0
    BY <2>1, FS_EmptySet
  <2>3. QED
    BY <2>1, <2>2 DEF CallInv, AppliedForCause, Counted
<1>6. \A d \in Calls \ {c} : Same(d)
  BY <1>1, <1>2 DEF IInv, TypeOK, Same, Grows
<1>7. QED
  BY <1>3, <1>4, <1>5, <1>6

LEMMA ReturnKeeps ==
  ASSUME IInv, NEW c \in Calls, Return(c), learned' \in Lessons, LearnedTrue', Grows
  PROVE  TypeOK' /\ CallInv(c)' /\ \A d \in Calls \ {c} : Same(d)
<1>1. /\ api' = api
      /\ pc' = [pc EXCEPT ![c] = "idle"] /\ request' = [request EXCEPT ![c] = NothingAsked]
      /\ sent' = [sent EXCEPT ![c] = NothingSent] /\ sends' = [sends EXCEPT ![c] = 0]
      /\ applied' = [applied EXCEPT ![c] = {}]
  BY DEF Return, Goto
<1>2. TypeOK'
  BY <1>1, NothingTypes, AnthropicAssumption DEF IInv, TypeOK, Lessons
<1>3. CallInv(c)'
  <2>1. pc'[c] = "idle" /\ applied'[c] = {} /\ sends'[c] = 0
    BY <1>1 DEF IInv, TypeOK
  <2>2. QED
    BY <2>1 DEF CallInv, AppliedForCause, Counted
<1>4. \A d \in Calls \ {c} : Same(d)
  BY <1>1 DEF IInv, TypeOK, Same
<1>5. QED
  BY <1>2, <1>3, <1>4

\* A step of building: the request and the next stage alone change.
Builds(c, s, stage) ==
  /\ sent' = [sent EXCEPT ![c] = s] /\ s \in SentType
  /\ pc' = [pc EXCEPT ![c] = stage] /\ stage \in {"effort", "caching", "sent"}
  /\ pc[c] \notin {"idle", "exhausted"}
  /\ api' = api /\ learned' = learned /\ request' = request /\ sends' = sends
  /\ applied' = applied

LEMMA BuildsKeeps ==
  ASSUME IInv, NEW c \in Calls, NEW s, NEW stage, Builds(c, s, stage)
  PROVE  /\ TypeOK' /\ LearnedTrue'
         /\ AppliedForCause(c)' /\ Counted(c)'
         /\ request'[c] = request[c] /\ request[c] \in Requests
         /\ sent'[c] = s /\ pc'[c] = stage /\ applied'[c] = applied[c]
         /\ \A d \in Calls \ {c} : Same(d)
<1>1. TypeOK'
  BY DEF Builds, IInv, TypeOK
<1>2. LearnedTrue'
  BY RefusedLevelsKept DEF Builds, IInv, LearnedTrue
<1>3. /\ request'[c] = request[c] /\ request[c] \in Requests
      /\ sent'[c] = s /\ pc'[c] = stage /\ applied'[c] = applied[c]
  BY DEF Builds, IInv, TypeOK, CallInv
<1>4. AppliedForCause(c)'
  BY <1>3, SameAppliedForCause DEF Builds, Grows, IInv, CallInv
<1>5. Counted(c)'
  BY <1>3 DEF Builds, IInv, CallInv, Counted
<1>6. \A d \in Calls \ {c} : Same(d)
  BY DEF Builds, IInv, TypeOK, Same, Grows
<1>7. QED
  BY <1>1, <1>2, <1>3, <1>4, <1>5, <1>6

LEMMA ReadTemperatureKeeps ==
  ASSUME IInv, NEW c \in Calls, ReadTemperature(c)
  PROVE  TypeOK' /\ LearnedTrue' /\ CallInv(c)' /\ \A d \in Calls \ {c} : Same(d)
<1> DEFINE s == [NothingSent EXCEPT
                   !.temperature = IF learned.temperature THEN Unset
                                   ELSE request[c].temperature,
                   !.marks = request[c].marks, !.replayed = request[c].replayed]
<1>1. s \in SentType
  <2>1. /\ request[c].temperature \in {Unset, "one", "other"}
        /\ request[c].marks \in {"none", "some", "thinking", "full"}
        /\ request[c].replayed \in {"none", "valid", "stale"}
    BY CallTypes DEF IInv, RequestType
  <2>2. QED
    BY <2>1, NothingTypes DEF SentType
<1>2. /\ s.temperature = IF learned.temperature THEN Unset ELSE request[c].temperature
      /\ s.marks = request[c].marks /\ s.replayed = request[c].replayed
      /\ s.thinking = Unset
  BY DEF NothingSent
<1>3. Builds(c, s, "effort")
  BY <1>1 DEF ReadTemperature, Goto, Builds
<1> HIDE DEF s
<1>4. TemperatureBuilt(c)'
  BY <1>2, <1>3, BuildsKeeps DEF TemperatureBuilt, TemperatureCause, IInv, LearnedTrue, Builds
<1>5. BlocksKept(c)'
  BY <1>2, <1>3, BuildsKeeps DEF BlocksKept
<1>6. CallInv(c)'
  BY <1>2, <1>3, <1>4, <1>5, BuildsKeeps DEF CallInv
<1>7. QED
  BY <1>3, <1>6, BuildsKeeps

LEMMA ReadEffortKeeps ==
  ASSUME IInv, NEW c \in Calls, ReadEffort(c)
  PROVE  TypeOK' /\ LearnedTrue' /\ CallInv(c)' /\ \A d \in Calls \ {c} : Same(d)
<1> DEFINE r == request[c]
           s == [sent[c] EXCEPT !.thinking = Thinking(c), !.effort = EffortLevel(c),
                                !.temperature = Compatible(@, Thinking(c))]
<1>1. pc[c] = "effort" /\ CallInv(c) /\ learned \in Lessons /\ r \in RequestType
      /\ sent[c] \in SentType
  BY CallTypes DEF ReadEffort, IInv
<1>2. r.effort \in Effort
  BY <1>1 DEF RequestType
<1>3. /\ Thinking(c) \in Type \cup {Unset} /\ EffortLevel(c) \in Level \cup {Unset}
      /\ Compatible(sent[c].temperature, Thinking(c)) \in {sent[c].temperature, Unset}
  <2>1. Thinking(c) \in Type \cup {Unset}
    BY <1>2, EffortTypes DEF Thinking, Type
  <2>2. EffortLevel(c) \in Level \cup {Unset}
    BY <1>2, EffortTypes DEF EffortLevel
  <2>3. QED
    BY <2>1, <2>2 DEF Compatible
<1>4. s \in SentType
  BY <1>1, <1>3 DEF SentType
<1>5. /\ s.thinking = Thinking(c) /\ s.effort = EffortLevel(c)
      /\ s.temperature = Compatible(sent[c].temperature, Thinking(c))
      /\ s.marks = sent[c].marks /\ s.replayed = sent[c].replayed
  BY <1>1 DEF SentType
<1>6. Builds(c, s, "caching")
  <2>1. sent' = [sent EXCEPT ![c] = s]
    BY DEF ReadEffort
  <2>2. QED
    BY <1>4, <2>1 DEF ReadEffort, Goto, Builds
<1> HIDE DEF s
<1>7. /\ request'[c] = r /\ sent'[c] = s /\ pc'[c] = "caching" /\ applied'[c] = applied[c]
      /\ api' = api /\ learned' = learned
  BY <1>6, BuildsKeeps DEF Builds
<1>8. learned.types \cap api.types = {} /\ learned.levels \subseteq RefusedLevels
  BY DEF IInv, LearnedTrue
<1>9. TemperatureBuilt(c)'
  <2>1. TemperatureBuilt(c)
    BY <1>1 DEF CallInv
  <2>2. sent[c].thinking = Unset
    BY <1>1 DEF CallInv
  <2>3. s.temperature # r.temperature =>
          /\ s.temperature = Unset
          /\ \/ TemperatureCause(c)
             \/ r.temperature = "other" /\ s.thinking = "adaptive"
    BY <1>5, <2>1, <2>2 DEF TemperatureBuilt, Compatible, Unset
  <2>4. QED
    BY <1>7, <2>3 DEF TemperatureBuilt, TemperatureCause
<1>10. ThinkingBuilt(c)'
  <2>1. TypeOf(r.effort) \in (Type \ {"enabled"}) \cup {Unset} /\ Unset \notin Type
    BY <1>2, EffortTypes
  <2>2. r.extended => s.thinking = "enabled"
    BY <1>5 DEF Thinking
  <2>3. ~r.extended =>
          /\ s.thinking \in {Unset, TypeOf(r.effort)}
          /\ s.thinking # TypeOf(r.effort) => TypeOf(r.effort) \notin api.types
    BY <1>5, <1>8 DEF Thinking
  <2>4. ~r.extended /\ "thinking" \in applied[c] => s.thinking = Unset
    BY <1>1, <1>5 DEF CallInv, AppliedForCause, Thinking
  <2>5. s.thinking = "adaptive" => s.temperature # "other"
    BY <1>5 DEF Compatible, Unset
  <2>6. QED
    BY <1>7, <2>2, <2>3, <2>4, <2>5 DEF ThinkingBuilt
<1>11. EffortBuilt(c)'
  <2>1. /\ s.effort \in {Unset, LevelOf(r.effort)}
        /\ s.effort # LevelOf(r.effort) => LevelOf(r.effort) \in RefusedLevels
    BY <1>5, <1>8 DEF EffortLevel
  <2>2. "effort" \in applied[c] => s.effort = Unset
    BY <1>1, <1>5 DEF CallInv, AppliedForCause, EffortLevel
  <2>3. QED
    BY <1>7, <2>1, <2>2, RefusedLevelsKept DEF EffortBuilt
<1>12. BlocksKept(c)'
  BY <1>1, <1>5, <1>7 DEF CallInv, BlocksKept
<1>13. CallInv(c)'
  BY <1>6, <1>7, <1>9, <1>10, <1>11, <1>12, BuildsKeeps DEF CallInv
<1>14. QED
  BY <1>6, <1>13, BuildsKeeps

LEMMA ReadCachingKeeps ==
  ASSUME IInv, NEW c \in Calls, ReadCaching(c)
  PROVE  TypeOK' /\ LearnedTrue' /\ CallInv(c)' /\ \A d \in Calls \ {c} : Same(d)
<1> DEFINE r == request[c]  t == sent[c]
           m == r.auto /\ ~learned.marker /\ t.marks # "full"
           u == [t EXCEPT !.marker = m]
           s == OmitForCall(c, u)
           strip == "thinking blocks" \in applied[c]
<1>1. pc[c] = "caching" /\ CallInv(c) /\ learned \in Lessons /\ r \in RequestType
      /\ t \in SentType /\ applied[c] \in SUBSET Adjustments
  BY CallTypes DEF ReadCaching, IInv
<1>2. /\ u \in SentType /\ u.marker = m /\ u.temperature = t.temperature
      /\ u.thinking = t.thinking /\ u.effort = t.effort /\ u.marks = t.marks
      /\ u.replayed = t.replayed
  <2>1. m \in BOOLEAN
    BY <1>1 DEF RequestType, Lessons
  <2>2. QED
    BY <1>1, <2>1 DEF SentType
<1> HIDE DEF u
<1>3. /\ s \in SentType
      /\ s.temperature = IF "temperature" \in applied[c] THEN Unset ELSE t.temperature
      /\ s.marker = IF "cache_control/this call" \in applied[c] THEN FALSE ELSE m
      /\ s.marks = IF strip /\ t.marks = "thinking" THEN "none" ELSE t.marks
      /\ s.replayed = IF strip THEN "none" ELSE t.replayed
      /\ s.thinking = t.thinking /\ s.effort = t.effort
  <2>1. s = [u EXCEPT !.temperature = IF "temperature" \in applied[c] THEN Unset
                                      ELSE u.temperature,
                      !.marker = IF "cache_control/this call" \in applied[c] THEN FALSE
                                 ELSE u.marker,
                      !.marks = IF strip /\ u.marks = "thinking" THEN "none" ELSE u.marks,
                      !.replayed = IF strip THEN "none" ELSE u.replayed]
    BY DEF OmitForCall
  <2>2. /\ u.temperature \in {Unset, "one", "other"} /\ u.marker \in BOOLEAN
        /\ u.marks \in {"none", "some", "thinking", "full"}
        /\ u.replayed \in {"none", "valid", "stale"}
    BY <1>2 DEF SentType
  <2> HIDE DEF s
  <2>3. s \in SentType
    <3> DEFINE temperature == IF "temperature" \in applied[c] THEN Unset ELSE u.temperature
               marker == IF "cache_control/this call" \in applied[c] THEN FALSE ELSE u.marker
               marks == IF strip /\ u.marks = "thinking" THEN "none" ELSE u.marks
               replayed == IF strip THEN "none" ELSE u.replayed
    <3>1. /\ temperature \in {Unset, "one", "other"} /\ marker \in BOOLEAN
          /\ marks \in {"none", "some", "thinking", "full"}
          /\ replayed \in {"none", "valid", "stale"}
      BY <2>2
    <3>2. s = [u EXCEPT !.temperature = temperature, !.marker = marker,
                        !.marks = marks, !.replayed = replayed]
      BY <2>1
    <3> HIDE DEF temperature, marker, marks, replayed
    <3> DEFINE v == [u EXCEPT !.temperature = temperature, !.marker = marker]
    <3>3. v \in SentType
      BY <1>2, <3>1 DEF SentType
    <3>4. s = [v EXCEPT !.marks = marks, !.replayed = replayed]
      BY <3>2
    <3> HIDE DEF v
    <3>5. QED
      BY <3>1, <3>3, <3>4 DEF SentType
  <2>4. /\ s.temperature = IF "temperature" \in applied[c] THEN Unset ELSE u.temperature
        /\ s.marker = IF "cache_control/this call" \in applied[c] THEN FALSE ELSE u.marker
    BY <1>2, <2>1 DEF SentType
  <2>5. /\ s.marks = IF strip /\ u.marks = "thinking" THEN "none" ELSE u.marks
        /\ s.replayed = IF strip THEN "none" ELSE u.replayed
        /\ s.thinking = u.thinking /\ s.effort = u.effort
    BY <1>2, <2>1 DEF SentType
  <2>6. QED
    BY <1>2, <2>3, <2>4, <2>5
<1>4. Builds(c, s, "sent")
  <2>1. sent' = [sent EXCEPT ![c] = s]
    BY DEF ReadCaching, u
  <2>2. QED
    BY <1>3, <2>1 DEF ReadCaching, Goto, Builds
<1> HIDE DEF s
<1>5. /\ request'[c] = r /\ sent'[c] = s /\ pc'[c] = "sent" /\ applied'[c] = applied[c]
      /\ api' = api /\ learned' = learned
  BY <1>4, BuildsKeeps DEF Builds
<1>6. TemperatureBuilt(c)'
  <2>1. TemperatureBuilt(c) /\ AppliedForCause(c)
    BY <1>1 DEF CallInv
  <2>2. s.temperature # r.temperature =>
          /\ s.temperature = Unset
          /\ \/ TemperatureCause(c)
             \/ r.temperature = "other" /\ s.thinking = "adaptive"
    BY <1>3, <2>1 DEF TemperatureBuilt, AppliedForCause
  <2>3. QED
    BY <1>5, <2>2 DEF TemperatureBuilt, TemperatureCause
<1>7. ThinkingBuilt(c)'
  <2>1. ThinkingBuilt(c)
    BY <1>1 DEF CallInv
  <2>2. s.thinking = t.thinking /\ s.temperature \in {t.temperature, Unset}
    BY <1>3
  <2>3. QED
    BY <1>5, <2>1, <2>2 DEF ThinkingBuilt, Unset
<1>8. EffortBuilt(c)'
  BY <1>1, <1>3, <1>5, RefusedLevelsKept DEF CallInv, EffortBuilt
<1>9. MarkerBuilt(c)'
  <2>1. AppliedForCause(c) /\ BlocksKept(c)
    BY <1>1 DEF CallInv
  <2>2. s.marker => applied[c] \cap {"cache_control", "cache_control/this call"} = {}
    BY <1>3, <2>1 DEF AppliedForCause
  <2>3. r.auto /\ ~s.marker => ~api.marker \/ MarkersCause(c) \/ r.marks = "full"
    BY <1>3, <2>1 DEF AppliedForCause, BlocksKept, IInv, LearnedTrue
  <2>4. QED
    BY <1>5, <2>2, <2>3 DEF MarkerBuilt, MarkersCause
<1>10. Omitted(c)'
  <2>1. BlocksKept(c)
    BY <1>1 DEF CallInv
  <2>2. QED
    BY <1>3, <1>5, <2>1 DEF BlocksKept, Omitted
<1>11. CallInv(c)'
  BY <1>4, <1>5, <1>6, <1>7, <1>8, <1>9, <1>10, BuildsKeeps DEF CallInv
<1>12. QED
  BY <1>4, <1>11, BuildsKeeps

-----------------------------------------------------------------------------
(* Answers *)

\* A call that succeeds without the top-level marker, and so confirms that the
\* marker was refused, is right: had the API taken the marker, the markers of
\* the blocks would still be refused.
LEMMA ConfirmsTruth ==
  ASSUME IInv, NEW c \in Calls, pc[c] = "sent", Faults(sent[c]) = {},
         "cache_control/this call" \in applied[c]
  PROVE  ~api.marker
<1> SUFFICES ASSUME api.marker PROVE FALSE
  OBVIOUS
<1>1. MarkersCause(c) /\ Omitted(c)
  BY DEF IInv, CallInv, AppliedForCause
<1>2. /\ request[c].marks \notin api.marked \cup {"none"}
      /\ request[c].marks = "thinking" => "thinking blocks" \notin applied[c]
  BY <1>1 DEF MarkersCause
<1>3. sent[c].marks = request[c].marks
  BY <1>1, <1>2 DEF Omitted, BlocksKept
<1>4. MarkerFaults(sent[c]) # {}
  BY <1>2, <1>3 DEF MarkerFaults
<1>5. QED
  BY <1>4, MarkerRejected

LEMMA AcceptedKeeps ==
  ASSUME IInv, NEW c \in Calls, Accepted(c)
  PROVE  TypeOK' /\ LearnedTrue' /\ CallInv(c)' /\ \A d \in Calls \ {c} : Same(d)
<1> DEFINE m == learned.marker \/ "cache_control/this call" \in applied[c]
<1>1. pc[c] = "sent" /\ Faults(sent[c]) = {} /\ Return(c) /\ api' = api
      /\ learned' = [learned EXCEPT !.marker = m]
  BY DEF Accepted, Return
<1>2. m => ~api.marker
  BY <1>1, ConfirmsTruth DEF IInv, LearnedTrue
<1>3. learned \in Lessons /\ m \in BOOLEAN
  BY DEF IInv, TypeOK, Lessons
<1>4. /\ learned' \in Lessons /\ learned'.marker = m
      /\ learned'.temperature = learned.temperature
      /\ learned'.types = learned.types /\ learned'.levels = learned.levels
  BY <1>1, <1>3 DEF Lessons
<1>5. LearnedTrue'
  BY <1>1, <1>2, <1>4, RefusedLevelsKept DEF IInv, LearnedTrue
<1>6. Grows
  BY <1>3, <1>4 DEF Grows, Lessons
<1>7. QED
  BY <1>1, <1>4, <1>5, <1>6, ReturnKeeps

\* A level goes out without thinking only when the model does not take the
\* adaptive thinking that goes with it.
LEMMA LevelWithoutThinking ==
  ASSUME TypeOK, NEW c \in Calls, ThinkingBuilt(c), EffortBuilt(c), sent[c].effort # Unset,
         sent[c].thinking \in {"disabled", Unset}
  PROVE  "adaptive" \notin api.types
<1>1. ~request[c].extended
  BY DEF ThinkingBuilt, Unset
<1>2. request[c].effort \in Effort /\ LevelOf(request[c].effort) # Unset
  BY CallTypes DEF EffortBuilt, RequestType
<1>3. TypeOf(request[c].effort) = "adaptive"
  BY <1>2 DEF TypeOf, LevelOf, Effort, Level, Unset
<1>4. QED
  BY <1>1, <1>3, CallTypes DEF ThinkingBuilt, RequestType, Unset

\* A rejection that is acted on teaches what is true, and nothing is unlearned.
LEMMA LessonKeeps ==
  ASSUME IInv, NEW s \in SentType, NEW f \in Faults(s) \cup OtherFaults,
         learned' = Lesson(s, f), api' = api,
         s.effort # Unset /\ s.thinking \in {"disabled", Unset} =>
           "adaptive" \notin api.types
  PROVE  LET adj == AdaptToRejection(s, f) IN
         /\ learned' \in Lessons /\ LearnedTrue' /\ Grows
         /\ adj = "thinking" => s.thinking \in learned'.types
         /\ adj = "effort" => s.effort \in learned'.levels
         /\ adj = "cache_control" => learned'.marker
<1> DEFINE adj == AdaptToRejection(s, f)
<1>1. learned \in Lessons /\ LearnedTrue /\ api \in ApiType
  BY AnthropicAssumption DEF IInv, TypeOK, Lessons
<1>2. CASE adj = "temperature"
  <2>1. CASE TemperatureRejectedForThinking(s, f)
    <3>1. learned' = learned
      BY <1>2, <2>1 DEF Lesson
    <3>2. QED
      BY <1>1, <1>2, <3>1, RefusedLevelsKept DEF LearnedTrue, Grows
  <2>2. CASE ~TemperatureRejectedForThinking(s, f)
    <3>1. learned' = [learned EXCEPT !.temperature = TRUE]
      BY <1>2, <2>2 DEF Lesson
    <3>2. f \in TemperatureFaults(s)
      BY <1>2, FaultOf
    <3>3. api.temperature = "refused"
      <4>1. SUFFICES ASSUME api.temperature # "refused" PROVE FALSE
        OBVIOUS
      <4>2. s.thinking \in {"adaptive", "enabled"} /\ f = Complaint("temperature", TRUE)
        BY <3>2, <4>1 DEF TemperatureFaults
      <4>3. f.thinking
        BY <4>2 DEF Complaint
      <4>4. QED
        BY <2>2, <4>2, <4>3 DEF TemperatureRejectedForThinking, Unset
    <3>4. /\ learned' \in Lessons /\ learned'.temperature = TRUE
          /\ learned'.types = learned.types /\ learned'.levels = learned.levels
          /\ learned'.marker = learned.marker
      BY <1>1, <3>1 DEF Lessons
    <3>5. QED
      BY <1>1, <1>2, <3>3, <3>4, RefusedLevelsKept DEF LearnedTrue, Grows
  <2>3. QED
    BY <2>1, <2>2
<1>3. CASE adj = "effort"
  <2>1. learned' = [learned EXCEPT !.levels = @ \cup {s.effort}]
    BY <1>3 DEF Lesson
  <2>2. f \in EffortFaults(s) /\ s.effort # Unset
    BY <1>3, FaultOf
  <2>3. s.effort \in Level /\ s.effort \in RefusedLevels
    BY <2>2 DEF EffortFaults, SentType, RefusedLevels
  <2>4. /\ learned' \in Lessons /\ learned'.temperature = learned.temperature
        /\ learned'.types = learned.types
        /\ learned'.levels = learned.levels \cup {s.effort}
        /\ learned'.marker = learned.marker
    BY <1>1, <2>1, <2>3 DEF Lessons
  <2>5. QED
    BY <1>1, <1>3, <2>3, <2>4, RefusedLevelsKept DEF LearnedTrue, Grows
<1>4. CASE adj = "cache_control"
  <2>1. learned' = [learned EXCEPT !.marker = TRUE]
    BY <1>4 DEF Lesson
  <2>2. f \in MarkerFaults(s) /\ s.marks = "none"
    BY <1>4, FaultOf
  <2>3. ~api.marker
    BY <2>2 DEF MarkerFaults
  <2>4. /\ learned' \in Lessons /\ learned'.temperature = learned.temperature
        /\ learned'.types = learned.types /\ learned'.levels = learned.levels
        /\ learned'.marker = TRUE
    BY <1>1, <2>1 DEF Lessons
  <2>5. QED
    BY <1>1, <1>4, <2>3, <2>4, RefusedLevelsKept DEF LearnedTrue, Grows
<1>5. CASE adj = "thinking"
  <2>1. learned' = [learned EXCEPT !.types = @ \cup {s.thinking}]
    BY <1>5 DEF Lesson
  <2>2. f \in ThinkingFaults(s) /\ s.thinking \in {"adaptive", "disabled"}
    BY <1>5, FaultOf
  <2>3. s.thinking \in Type /\ s.thinking \notin api.types
    BY <2>2 DEF ThinkingFaults, Type
  <2>4. /\ learned' \in Lessons /\ learned'.temperature = learned.temperature
        /\ learned'.types = learned.types \cup {s.thinking}
        /\ learned'.levels = learned.levels /\ learned'.marker = learned.marker
    BY <1>1, <2>1, <2>3 DEF Lessons
  <2>5. QED
    BY <1>1, <1>5, <2>3, <2>4, RefusedLevelsKept DEF LearnedTrue, Grows
<1>6. CASE adj \notin {"temperature", "effort", "cache_control", "thinking"}
  <2>1. learned' = learned
    BY <1>6 DEF Lesson
  <2>2. QED
    BY <1>1, <1>6, <2>1, RefusedLevelsKept DEF LearnedTrue, Grows
<1>7. QED
  BY <1>2, <1>3, <1>4, <1>5, <1>6

\* An adjustment that a call makes has a cause.
LEMMA AdjustedKeepsCause ==
  ASSUME IInv, NEW c \in Calls, pc[c] = "sent",
         NEW f \in Faults(sent[c]) \cup OtherFaults,
         learned' = Lesson(sent[c], f), api' = api, request' = request,
         AdaptToRejection(sent[c], f) \notin applied[c] \cup {"none"},
         applied'[c] = applied[c] \cup {AdaptToRejection(sent[c], f)}
  PROVE  AppliedForCause(c)'
<1> DEFINE s == sent[c]  r == request[c]  adj == AdaptToRejection(s, f)
<1>1. s \in SentType /\ r \in RequestType /\ api \in ApiType
  BY CallTypes DEF IInv
<1>2. /\ AppliedForCause(c) /\ TemperatureBuilt(c) /\ ThinkingBuilt(c)
      /\ EffortBuilt(c) /\ MarkerBuilt(c) /\ Omitted(c)
  BY DEF IInv, CallInv
<1>3. /\ Grows
      /\ adj = "thinking" => s.thinking \in learned'.types
      /\ adj = "effort" => s.effort \in learned'.levels
      /\ adj = "cache_control" => learned'.marker
  <2>1. s.effort # Unset /\ s.thinking \in {"disabled", Unset} => "adaptive" \notin api.types
    BY <1>2, LevelWithoutThinking DEF IInv
  <2>2. QED
    BY <1>1, <2>1, LessonKeeps
<1>4. /\ f \in Faults(s)
      /\ adj = "thinking blocks" => f \in SignatureFaults(s) /\ f.about = "signature"
      /\ adj = "temperature" => f \in TemperatureFaults(s)
      /\ adj = "effort" => s.effort # Unset
      /\ adj \in {"cache_control", "cache_control/this call"} =>
           f \in MarkerFaults(s) /\ s.marker /\ f.about = "cache_control"
      /\ adj = "cache_control/this call" => s.marks # "none"
      /\ adj = "thinking" => s.thinking \in {"adaptive", "disabled"}
  BY <1>1, FaultOf
<1>5. TypeOf(r.effort) # "enabled"
  BY <1>1, EffortTypes DEF RequestType, Type, Unset
<1>6. adj = "thinking blocks" => s.replayed = "stale" /\ r.replayed = "stale"
                                 /\ BlocksKept(c)
  <2>1. adj = "thinking blocks" => s.replayed = "stale"
    BY <1>4 DEF SignatureFaults
  <2>2. QED
    BY <1>2, <2>1 DEF Omitted, BlocksKept
<1>7. "temperature" \in applied'[c] => TemperatureCause(c)
  <2>1. CASE adj = "temperature"
    <3>1. \/ api.temperature = "refused"
          \/ /\ s.temperature = "other" /\ api.temperature = "not with thinking"
             /\ s.thinking \in {"adaptive", "enabled"}
      BY <1>4, <2>1 DEF TemperatureFaults
    <3>2. s.thinking = "enabled" => r.extended
      BY <1>2, <1>5 DEF ThinkingBuilt, Unset
    <3>3. QED
      BY <1>2, <3>1, <3>2 DEF ThinkingBuilt, TemperatureCause
  <2>2. CASE adj # "temperature"
    BY <1>2, <2>2 DEF AppliedForCause
  <2>3. QED
    BY <2>1, <2>2
<1>8. "thinking" \in applied'[c] =>
        ~r.extended /\ TypeOf(r.effort) \in learned'.types
  <2>1. CASE adj = "thinking"
    BY <1>2, <1>3, <1>4, <2>1 DEF ThinkingBuilt, Unset
  <2>2. CASE adj # "thinking"
    BY <1>2, <1>3, <2>2 DEF AppliedForCause, Grows
  <2>3. QED
    BY <2>1, <2>2
<1>9. "effort" \in applied'[c] => LevelOf(r.effort) \in learned'.levels
  <2>1. CASE adj = "effort"
    BY <1>2, <1>3, <1>4, <2>1 DEF EffortBuilt
  <2>2. CASE adj # "effort"
    BY <1>2, <1>3, <2>2 DEF AppliedForCause, Grows
  <2>3. QED
    BY <2>1, <2>2
<1>10. /\ "cache_control" \in applied'[c] => learned'.marker
       /\ "cache_control" \in applied'[c] => "cache_control/this call" \notin applied'[c]
  BY <1>2, <1>3, <1>4 DEF AppliedForCause, Grows, MarkerBuilt
<1>11. "cache_control/this call" \in applied'[c] => MarkersCause(c)'
  <2>1. CASE adj = "cache_control/this call"
    <3>1. ~api.marker \/ s.marks \notin api.marked \cup {"none"}
      BY <1>4, <2>1 DEF MarkerFaults
    <3>2. /\ s.marks = r.marks
          /\ r.marks = "thinking" => "thinking blocks" \notin applied[c] /\ BlocksKept(c)
      BY <1>2, <1>4, <2>1 DEF Omitted, BlocksKept
    <3>3. api.signatureFirst => s.replayed # "stale"
      BY <1>4, <2>1, OrderOfChecks
    <3>4. r.marks = "thinking" => "thinking blocks" \notin applied'[c]
      BY <2>1, <3>2
    <3>5. QED
      BY <3>1, <3>2, <3>3, <3>4 DEF MarkersCause, BlocksKept
  <2>2. CASE /\ "cache_control/this call" \in applied[c]
             /\ adj = "thinking blocks" /\ r.marks = "thinking"
    <3>1. MarkersCause(c)
      BY <1>2, <2>2 DEF AppliedForCause
    <3>2. SUFFICES ASSUME api.marker PROVE FALSE
      BY DEF MarkersCause
    <3>3. r.marks \notin api.marked \cup {"none"} /\ ~api.signatureFirst
      BY <1>6, <2>2, <3>1, <3>2, <1>1 DEF MarkersCause, ApiType
    <3>4. MarkerFaults(s) = {}
      BY <1>4, <2>2, <3>3, OrderOfChecks
    <3>5. s.marks = r.marks
      BY <1>6, <2>2 DEF BlocksKept
    <3>6. QED
      BY <3>3, <3>4, <3>5 DEF MarkerFaults
  <2>3. CASE /\ "cache_control/this call" \in applied[c]
             /\ ~(adj = "thinking blocks" /\ r.marks = "thinking")
    BY <1>2, <2>3 DEF AppliedForCause, MarkersCause
  <2>4. QED
    BY <2>1, <2>2, <2>3
<1>12. "thinking blocks" \in applied'[c] => r.replayed = "stale"
  BY <1>2, <1>6 DEF AppliedForCause
<1>13. TemperatureCause(c)' = TemperatureCause(c)
  BY DEF TemperatureCause
<1>14. QED
  BY <1>7, <1>8, <1>9, <1>10, <1>11, <1>12, <1>13 DEF AppliedForCause

\* One more element adds at most one.
LEMMA AtMostOneMore ==
  ASSUME NEW S, IsFiniteSet(S), NEW n \in Nat, Cardinality(S) <= n, NEW x
  PROVE  IsFiniteSet(S \cup {x}) /\ Cardinality(S \cup {x}) <= n + 1
<1>1. Cardinality(S) \in Nat
  BY FS_CardinalityType
<1>2. IsFiniteSet(S \cup {x}) /\ (\/ Cardinality(S \cup {x}) = Cardinality(S)
                                 \/ Cardinality(S \cup {x}) = Cardinality(S) + 1)
  BY FS_AddElement
<1>3. QED
  BY <1>1, <1>2

\* Five elements are at most five.
LEMMA AtMostFive ==
  ASSUME NEW v, NEW w, NEW x, NEW y, NEW z
  PROVE  IsFiniteSet({v, w, x, y, z}) /\ Cardinality({v, w, x, y, z}) <= 5
<1>1. IsFiniteSet({v}) /\ Cardinality({v}) <= 1
  <2>1. IsFiniteSet({v}) /\ Cardinality({v}) = 1
    BY FS_Singleton
  <2>2. QED
    BY <2>1
<1>2. IsFiniteSet({v} \cup {w}) /\ Cardinality({v} \cup {w}) <= 1 + 1
  BY <1>1, AtMostOneMore
<1>3. IsFiniteSet({v, w} \cup {x}) /\ Cardinality({v, w} \cup {x}) <= 2 + 1
  <2>1. {v, w} = {v} \cup {w}
    OBVIOUS
  <2>2. IsFiniteSet({v, w}) /\ Cardinality({v, w}) <= 2
    BY <1>2, <2>1
  <2>3. QED
    BY <2>2, AtMostOneMore
<1>4. IsFiniteSet({v, w, x} \cup {y}) /\ Cardinality({v, w, x} \cup {y}) <= 3 + 1
  <2>1. {v, w, x} = {v, w} \cup {x}
    OBVIOUS
  <2>2. IsFiniteSet({v, w, x}) /\ Cardinality({v, w, x}) <= 3
    BY <1>3, <2>1
  <2>3. QED
    BY <2>2, AtMostOneMore
<1>5. IsFiniteSet({v, w, x, y} \cup {z}) /\ Cardinality({v, w, x, y} \cup {z}) <= 4 + 1
  <2>1. {v, w, x, y} = {v, w, x} \cup {y}
    OBVIOUS
  <2>2. IsFiniteSet({v, w, x, y}) /\ Cardinality({v, w, x, y}) <= 4
    BY <1>4, <2>1
  <2>3. QED
    BY <2>2, AtMostOneMore
<1>6. {v, w, x, y, z} = {v, w, x, y} \cup {z}
  OBVIOUS
<1>7. QED
  BY <1>5, <1>6

LEMMA AdjustmentsFinite ==
  ASSUME NEW S \in SUBSET Adjustments
  PROVE  IsFiniteSet(S) /\ Cardinality(S) \in Nat
<1> DEFINE five == {"temperature", "thinking", "effort", "cache_control",
                    "cache_control/this call"}
<1>1. IsFiniteSet(five \cup {"thinking blocks"})
  BY AtMostFive, FS_AddElement
<1>2. Adjustments = five \cup {"thinking blocks"}
  BY DEF Adjustments
<1>3. IsFiniteSet(Adjustments)
  BY <1>1, <1>2
<1>4. QED
  BY <1>3, FS_Subset, FS_CardinalityType

LEMMA RejectedKeeps ==
  ASSUME IInv, NEW c \in Calls, Rejected(c)
  PROVE  TypeOK' /\ LearnedTrue' /\ CallInv(c)' /\ \A d \in Calls \ {c} : Same(d)
<1> DEFINE s == sent[c]
<1>1. PICK f \in Faults(s) \cup OtherFaults :
        LET adj == AdaptToRejection(s, f)
        IN  /\ learned' = Lesson(s, f)
            /\ \/ adj \in applied[c] \cup {"none"} /\ Return(c)
               \/ /\ adj \notin applied[c] \cup {"none"}
                  /\ applied' = [applied EXCEPT ![c] = @ \cup {adj}]
                  /\ Goto(c, IF OutOfSends(c) THEN "exhausted" ELSE "temperature")
                  /\ sends' = [sends EXCEPT ![c] = IF OutOfSends(c) THEN @ ELSE @ + 1]
                  /\ UNCHANGED <<api, request, sent>>
  BY DEF Rejected
<1> DEFINE adj == AdaptToRejection(s, f)
<1>2. pc[c] = "sent" /\ s \in SentType /\ CallInv(c) /\ learned' = Lesson(s, f)
  BY <1>1, CallTypes DEF Rejected, IInv
<1>3. api' = api
  BY <1>1 DEF Return
<1>4. learned' \in Lessons /\ LearnedTrue' /\ Grows
  <2>1. s.effort # Unset /\ s.thinking \in {"disabled", Unset} => "adaptive" \notin api.types
    BY <1>2, LevelWithoutThinking DEF IInv, CallInv
  <2>2. QED
    BY <1>2, <1>3, <2>1, LessonKeeps
<1>5. CASE adj \in applied[c] \cup {"none"}
  BY <1>1, <1>4, <1>5, ReturnKeeps
<1>6. CASE adj \notin applied[c] \cup {"none"}
  <2>1. /\ applied' = [applied EXCEPT ![c] = @ \cup {adj}]
        /\ pc' = [pc EXCEPT ![c] = IF OutOfSends(c) THEN "exhausted" ELSE "temperature"]
        /\ sends' = [sends EXCEPT ![c] = IF OutOfSends(c) THEN @ ELSE @ + 1]
        /\ request' = request /\ sent' = sent
    BY <1>1, <1>6 DEF Goto
  <2>2. /\ applied[c] \in SUBSET Adjustments /\ sends[c] \in 0 .. MaxSends
        /\ MaxSends \in Nat \ {0}
    BY CallTypes DEF IInv
  <2>3. adj \in Adjustments
    BY <1>2, <1>6, FaultOf
  <2>4. applied'[c] = applied[c] \cup {adj}
    BY <2>1 DEF IInv, TypeOK
  <2>5. Cardinality(applied'[c]) = Cardinality(applied[c]) + 1
        /\ Cardinality(applied[c]) \in Nat
    BY <1>6, <2>2, <2>4, AdjustmentsFinite, FS_AddElement
  <2>6. sends[c] = Cardinality(applied[c]) + 1
    BY <1>2, <2>5 DEF CallInv, Counted
  <2>7. TypeOK'
    <3>1. applied' \in [Calls -> SUBSET Adjustments]
      BY <2>1, <2>3 DEF IInv, TypeOK
    <3>2. sends' \in [Calls -> 0 .. MaxSends]
      <4>1. ~OutOfSends(c) => sends[c] + 1 \in 0 .. MaxSends
        BY <2>2 DEF OutOfSends
      <4>2. QED
        BY <2>1, <4>1 DEF IInv, TypeOK
    <3>3. pc' \in [Calls -> Stages]
      BY <2>1 DEF IInv, TypeOK, Stages
    <3>4. QED
      BY <1>3, <1>4, <2>1, <3>1, <3>2, <3>3 DEF IInv, TypeOK, Lessons, Stages
  <2>8. CallInv(c)'
    <3>1. AppliedForCause(c)'
      BY <1>2, <1>3, <1>6, <2>1, <2>4, AdjustedKeepsCause
    <3>2. \/ OutOfSends(c) /\ pc'[c] = "exhausted"
          \/ /\ ~OutOfSends(c) /\ pc'[c] = "temperature"
             /\ sends'[c] = sends[c] + 1
      BY <2>1 DEF IInv, TypeOK
    <3>3. Counted(c)'
      BY <2>5, <2>6, <3>2 DEF Counted, OutOfSends
    <3>4. request'[c] \in Requests
      BY <1>2, <2>1 DEF CallInv
    <3>5. QED
      BY <3>1, <3>2, <3>3, <3>4 DEF CallInv
  <2>9. \A d \in Calls \ {c} : Same(d)
    BY <1>3, <1>4, <2>1 DEF IInv, TypeOK, Same
  <2>10. QED
    BY <1>4, <2>7, <2>8, <2>9
<1>7. QED
  BY <1>5, <1>6

LEMMA NextKeepsIInv == IInv /\ [Next]_vars => IInv'
<1> SUFFICES ASSUME IInv, [Next]_vars PROVE IInv'
  OBVIOUS
<1>1. ASSUME NEW c \in Calls, Begin(c) \/ Build(c) \/ Answer(c)
      PROVE  IInv'
  <2>1. TypeOK' /\ LearnedTrue' /\ CallInv(c)' /\ \A d \in Calls \ {c} : Same(d)
    <3>1. CASE Begin(c)
      BY <3>1, BeginKeeps
    <3>2. CASE ReadTemperature(c)
      BY <3>2, ReadTemperatureKeeps
    <3>3. CASE ReadEffort(c)
      BY <3>3, ReadEffortKeeps
    <3>4. CASE ReadCaching(c)
      BY <3>4, ReadCachingKeeps
    <3>5. CASE Accepted(c)
      BY <3>5, AcceptedKeeps
    <3>6. CASE Rejected(c)
      BY <3>6, RejectedKeeps
    <3>7. QED
      BY <1>1, <3>1, <3>2, <3>3, <3>4, <3>5, <3>6 DEF Build, Answer
  <2>2. ASSUME NEW d \in Calls \ {c} PROVE CallInv(d)'
    BY <2>1, OthersKeepCallInv DEF IInv
  <2>3. QED
    BY <2>1, <2>2 DEF IInv
<1>2. CASE UNCHANGED vars
  <2>1. TypeOK' /\ LearnedTrue'
    BY <1>2, RefusedLevelsKept DEF IInv, TypeOK, LearnedTrue, vars
  <2>2. ASSUME NEW d \in Calls PROVE CallInv(d)'
    <3>1. Same(d)
      BY <1>2 DEF vars, Same, Grows
    <3>2. QED
      BY <3>1, OthersKeepCallInv DEF IInv
  <2>3. QED
    BY <2>1, <2>2 DEF IInv
<1>3. QED
  BY <1>1, <1>2 DEF Next

-----------------------------------------------------------------------------
(* Theorems *)

\* The inductive invariant holds of every behaviour.
THEOREM AnthropicInvariance == Spec => []IInv
<1>1. Init => IInv
  BY InitIInv
<1>2. IInv /\ [Next]_vars => IInv'
  BY NextKeepsIInv
<1>3. QED
  BY <1>1, <1>2, PTL DEF Spec

\* Every variable keeps its type (adapt.go, anthropic.go), and no call sends
\* more than MaxSends requests.
THEOREM AnthropicTypes == Spec => []TypeOK
<1>1. IInv => TypeOK
  BY DEF IInv
<1>2. QED
  BY <1>1, AnthropicInvariance, PTL

\* What the client has learned is true, whatever its calls do at a time
\* (adaptToRejection, confirmAdjustments).
THEOREM AnthropicLearnsTruth == Spec => []LearnedTrue
<1>1. IInv => LearnedTrue
  BY DEF IInv
<1>2. QED
  BY <1>1, AnthropicInvariance, PTL

\* No request gives up what its caller asked for without a cause (buildRequest,
\* omitForCall).
THEOREM AdjustsForCause == Spec => []AdjustedForCause
<1>1. ASSUME IInv PROVE AdjustedForCause
  <2> SUFFICES ASSUME NEW c \in Calls, pc[c] = "sent"
      PROVE  LET r == request[c]  s == sent[c]
             IN  /\ s.temperature # r.temperature =>
                      \/ api.temperature = "refused"
                      \/ api.temperature = "not with thinking" /\ s.thinking = "enabled"
                      \/ r.temperature = "other" /\ s.thinking = "adaptive"
                 /\ s.thinking # (IF r.extended THEN "enabled" ELSE TypeOf(r.effort)) =>
                      ~r.extended /\ TypeOf(r.effort) \notin api.types
                 /\ s.effort # LevelOf(r.effort) => LevelOf(r.effort) \in RefusedLevels
                 /\ r.auto /\ ~s.marker =>
                      ~api.marker \/ r.marks \notin api.marked \cup {"none"} \/ r.marks = "full"
                 /\ s.replayed # r.replayed => r.replayed = "stale"
    BY DEF AdjustedForCause
  <2>1. /\ TemperatureBuilt(c) /\ ThinkingBuilt(c) /\ EffortBuilt(c) /\ MarkerBuilt(c)
        /\ Omitted(c) /\ AppliedForCause(c) /\ request[c] \in RequestType
    BY <1>1, CallTypes DEF IInv, CallInv
  <2>2. sent[c].temperature # request[c].temperature =>
          \/ api.temperature = "refused"
          \/ api.temperature = "not with thinking" /\ sent[c].thinking = "enabled"
          \/ request[c].temperature = "other" /\ sent[c].thinking = "adaptive"
    BY <2>1 DEF TemperatureBuilt, ThinkingBuilt, TemperatureCause
  <2>3. sent[c].thinking # (IF request[c].extended THEN "enabled"
                            ELSE TypeOf(request[c].effort)) =>
          ~request[c].extended /\ TypeOf(request[c].effort) \notin api.types
    BY <2>1 DEF ThinkingBuilt, RequestType
  <2>4. sent[c].effort # LevelOf(request[c].effort) =>
          LevelOf(request[c].effort) \in RefusedLevels
    BY <2>1 DEF EffortBuilt
  <2>5. request[c].auto /\ ~sent[c].marker =>
          ~api.marker \/ request[c].marks \notin api.marked \cup {"none"}
            \/ request[c].marks = "full"
    BY <2>1 DEF MarkerBuilt, MarkersCause
  <2>6. sent[c].replayed # request[c].replayed => request[c].replayed = "stale"
    BY <2>1 DEF Omitted, AppliedForCause, BlocksKept
  <2>7. QED
    BY <2>2, <2>3, <2>4, <2>5, <2>6
<1>2. QED
  BY <1>1, AnthropicInvariance, PTL

\* An adjustment that a call has made is still there in each of its later
\* requests, so no rejection asks for it again (omitForCall).
THEOREM AdjustmentsLast == Spec => []AdjustmentsHold
<1>1. ASSUME IInv PROVE AdjustmentsHold
  <2> SUFFICES ASSUME NEW c \in Calls, pc[c] = "sent", NEW f \in Faults(sent[c])
      PROVE  AdaptToRejection(sent[c], f) \notin applied[c]
    BY DEF AdjustmentsHold
  <2> DEFINE s == sent[c]  adj == AdaptToRejection(s, f)
  <2>1. /\ TemperatureBuilt(c) /\ ThinkingBuilt(c) /\ EffortBuilt(c) /\ MarkerBuilt(c)
        /\ Omitted(c) /\ AppliedForCause(c) /\ s \in SentType
        /\ applied[c] \in SUBSET Adjustments
    BY <1>1, CallTypes DEF IInv, CallInv
  <2>2. adj # "none" =>
          /\ adj = "thinking blocks" => f \in SignatureFaults(s)
          /\ adj = "temperature" => f \in TemperatureFaults(s)
          /\ adj = "effort" => s.effort # Unset
          /\ adj \in {"cache_control", "cache_control/this call"} => s.marker
          /\ adj = "thinking" => s.thinking \in {"adaptive", "disabled"}
          /\ adj \in Adjustments
    BY <2>1, FaultOf
  <2>3. /\ f \in SignatureFaults(s) => s.replayed = "stale"
        /\ f \in TemperatureFaults(s) => s.temperature # Unset
    <3>1. f \in SignatureFaults(s) => s.replayed = "stale"
      BY DEF SignatureFaults
    <3>2. f \in TemperatureFaults(s) => s.temperature # Unset
      BY DEF TemperatureFaults, Unset
    <3>3. QED
      BY <3>1, <3>2
  <2>4. SUFFICES ASSUME adj \in applied[c] PROVE FALSE
    OBVIOUS
  <2>5. adj # "none"
    BY <2>1, <2>4 DEF Adjustments
  <2>6. CASE adj = "thinking blocks"
    BY <2>1, <2>2, <2>3, <2>4, <2>6 DEF Omitted
  <2>7. CASE adj = "temperature"
    BY <2>1, <2>2, <2>3, <2>4, <2>7 DEF Omitted
  <2>8. CASE adj = "effort"
    BY <2>1, <2>2, <2>4, <2>8 DEF EffortBuilt
  <2>9. CASE adj \in {"cache_control", "cache_control/this call"}
    BY <2>1, <2>2, <2>4, <2>9 DEF MarkerBuilt
  <2>10. CASE adj = "thinking"
    BY <2>1, <2>2, <2>4, <2>10 DEF ThinkingBuilt, AppliedForCause, Unset
  <2>11. QED
    BY <2>2, <2>5, <2>6, <2>7, <2>8, <2>9, <2>10 DEF Adjustments
<1>2. QED
  BY <1>1, AnthropicInvariance, PTL

LEMMA LeqTransitive ==
  ASSUME NEW k \in Nat, NEW m \in Nat, NEW n \in Nat, k <= m, m <= n
  PROVE  k <= n
OBVIOUS

\* A call that runs out of sends has made at most five adjustments, since it
\* makes at most one of the two about the top-level marker.
LEMMA AtMostFiveAdjustments ==
  ASSUME IInv, NEW c \in Calls, pc[c] = "exhausted"
  PROVE  MaxSends <= 5
<1>1. /\ applied[c] \in SUBSET Adjustments /\ MaxSends \in Nat
      /\ AppliedForCause(c) /\ Counted(c)
  BY CallTypes DEF IInv, CallInv
<1>2. Cardinality(applied[c]) = MaxSends
  BY <1>1 DEF Counted
<1>3. PICK x \in {"cache_control", "cache_control/this call"} :
        applied[c] \subseteq {"temperature", "thinking", "effort", x, "thinking blocks"}
  BY <1>1 DEF AppliedForCause, Adjustments
<1>4. PICK five : /\ applied[c] \subseteq five
                  /\ IsFiniteSet(five) /\ Cardinality(five) <= 5
  BY <1>3, AtMostFive
<1>5. Cardinality(applied[c]) <= Cardinality(five) /\ Cardinality(five) \in Nat
  BY <1>4, FS_Subset, FS_CardinalityType
<1>6. MaxSends \in Nat /\ MaxSends <= Cardinality(five)
  BY <1>1, <1>2, <1>5
<1>7. 5 \in Nat /\ Cardinality(five) <= 5
  BY <1>4
<1>8. QED
  BY <1>5, <1>6, <1>7, LeqTransitive, Zenon

\* Six sends suffice, whatever the API refuses and other calls learn (adapt.go:
\* maxAdaptiveSends).
THEOREM SixSendsSuffice ==
  ASSUME MaxSends >= 6
  PROVE  Spec => []GetsThrough
<1>1. ASSUME IInv PROVE GetsThrough
  <2>1. ASSUME NEW c \in Calls, pc[c] = "exhausted" PROVE FALSE
    <3>1. MaxSends <= 5
      BY <1>1, <2>1, AtMostFiveAdjustments
    <3>2. QED
      BY <3>1, AnthropicAssumption
  <2>2. QED
    BY <2>1 DEF GetsThrough
<1>2. QED
  BY <1>1, AnthropicInvariance, PTL

=============================================================================
