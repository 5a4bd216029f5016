------------------------------ MODULE Decisions ------------------------------
(***************************************************************************)
(* What Decide of the OpenAI and the TypeSafe client makes of a request    *)
(* before it is sent, and of the reply: DecisionRequest.Validate of        *)
(* decision.go, Decide and convertDecisionAnswer of openai/decide.go,      *)
(* Decide and convertAnswer of typesafe/decide.go.  The two differ in the  *)
(* requests they take, in refusals and in how an answer may repeat; both   *)
(* put probabilities, which a reply gives by key, in the order of the      *)
(* question's options.                                                     *)
(*                                                                         *)
(* The values of options are numbers, as are the indices of levels, so     *)
(* that one may be taken for the other.  0 is the empty string, and a      *)
(* number that is missing or out of its range is Missing.                  *)
(***************************************************************************)
EXTENDS Integers, Sequences, FiniteSets, SequencesExt

CONSTANTS
  MaxDecisionChoices,  \* options of a choice question, 255 in the code
  MaxScoreLevels       \* levels of a score question to TypeSafe, 10 in the code

ASSUME DecisionAssumption == MaxDecisionChoices \in Nat /\ MaxScoreLevels \in Nat

EmptyString == 0
Missing     == <<>>

-----------------------------------------------------------------------------
(* Requests *)

Questions == [name : Nat, kind : STRING, instructed : BOOLEAN, options : Seq(Nat)]

ValidImage(img) == img.url # img.data /\ (img.data => img.typed)

ValidOptions(q) ==
  IF q.kind = "yes_no" THEN q.options = <<>>
  ELSE /\ q.kind \in {"choice", "score"}
       /\ Len(q.options) >= 2
       /\ q.kind = "choice" => Len(q.options) <= MaxDecisionChoices
       /\ EmptyString \notin ToSet(q.options)
       /\ IsInjective(q.options)

Validate(r) ==
  /\ r.input \/ r.images # <<>>
  /\ \A i \in DOMAIN r.images : ValidImage(r.images[i])
  /\ r.questions # <<>>
  /\ \A i \in DOMAIN r.questions :
       /\ r.questions[i].name # EmptyString
       /\ r.questions[i].instructed
       /\ ValidOptions(r.questions[i])
  /\ IsInjective([i \in DOMAIN r.questions |-> r.questions[i].name])

\* The request is sent: TypeSafe takes no images and few levels.
Answerable(r) ==
  /\ Validate(r)
  /\ r.provider = "typesafe" =>
       /\ r.images = <<>>
       /\ \A i \in DOMAIN r.questions :
            r.questions[i].kind = "score" => Len(r.questions[i].options) <= MaxScoreLevels

-----------------------------------------------------------------------------
(* Replies *)

\* mutant: the probabilities of a score are looked up by label
Label(q, j) == q.options[j]

\* The key of an option's probability: its value in a choice, and the index of a
\* level, "so a label the service re-cases or rewords cannot misplace" it.
Key(q, j) == IF q.kind = "choice" THEN q.options[j] ELSE j

\* A key that is null.
Null == -2

\* What a key is read as: null leaves OpenAI's variable as it was declared, 0 for
\* the index of a level, which is the first one's, and "" for a value.
Read(q, key) ==
  IF key # Null THEN key ELSE IF q.kind = "choice" THEN EmptyString ELSE 1

\* Of two probabilities with one key the later counts.
Probability(q, wa, j) ==
  LET given == {k \in DOMAIN wa.probabilities : Read(q, wa.probabilities[k].key) = Key(q, j)}
  IN  IF given = {} THEN Missing ELSE wa.probabilities[Max(given)].probability

IsRefusal(r, wa) == r.provider = "openai" /\ wa.type = "refusal"

\* The answer has all that its question asked for, each in its range.
Usable(q, wa) ==
  /\ wa.type = q.kind
  /\ q.kind \in {"yes_no", "score"} => wa.value # Missing
  /\ q.kind = "choice" => wa.choice \in ToSet(q.options)
  /\ q.kind \in {"choice", "score"} =>
       /\ wa.confidence # Missing
       /\ \A j \in DOMAIN q.options : Probability(q, wa, j) # Missing

DecisionAnswer(q, refused, value, choice, probabilities) ==
  [name |-> q.name, kind |-> q.kind, refused |-> refused, value |-> value,
   choice |-> choice, probabilities |-> probabilities]

ConvertAnswer(r, q, wa) ==
  IF IsRefusal(r, wa) THEN DecisionAnswer(q, TRUE, Missing, EmptyString, <<>>)
  ELSE DecisionAnswer(q, FALSE,
         IF q.kind = "choice" THEN Missing ELSE wa.value,
         IF q.kind = "choice" THEN wa.choice ELSE EmptyString,
         [j \in DOMAIN q.options |->
            [value |-> q.options[j], probability |-> Probability(q, wa, j)]])

AnswersTo(answers, q) == {k \in DOMAIN answers : answers[k].name = q.name}

\* The reply answers each question, once and usably; answers to questions that
\* nobody asked are ignored.
UsableReply(r, answers) ==
  \A i \in DOMAIN r.questions :
    \E k \in DOMAIN answers :
      /\ AnswersTo(answers, r.questions[i]) = {k}
      /\ IsRefusal(r, answers[k]) \/ Usable(r.questions[i], answers[k])

Convert(r, answers) ==
  [i \in DOMAIN r.questions |->
     LET k == CHOOSE k \in DOMAIN answers : answers[k].name = r.questions[i].name
     IN  ConvertAnswer(r, r.questions[i], answers[k])]

-----------------------------------------------------------------------------
(* What the two services may reply *)

\* A name, an option or a key that is nobody's.
Unknown == -1

\* The number a service gives for an option, or for a question (option 0).
Truth(q, option) == <<q.name, option>>

WireAnswer(q) ==
  [name |-> q.name, type |-> q.kind,
   choice |-> IF q.kind = "choice" THEN Head(q.options) ELSE EmptyString,
   value |-> Truth(q, 0), confidence |-> Truth(q, 0),
   probabilities |->
     [j \in DOMAIN q.options |-> [key |-> IF q.kind = "choice" THEN q.options[j] ELSE j,
                                  probability |-> Truth(q, q.options[j])]]]

\* An answer as it should be, in any order and with a key too many, or with one
\* thing wrong in it.
WireAnswers(q) ==
  LET good == WireAnswer(q)  ps == good.probabilities
  IN  {good,
       [good EXCEPT !.probabilities = Reverse(@)],
       [good EXCEPT !.probabilities = Append(@, [key |-> Unknown, probability |-> <<0>>])],
       [good EXCEPT !.type = "refusal"],
       [good EXCEPT !.type = IF @ = "score" THEN "choice" ELSE "score"],
       [good EXCEPT !.value = Missing],
       [good EXCEPT !.confidence = Missing],
       [good EXCEPT !.choice = Unknown],
       [good EXCEPT !.probabilities = IF ps = <<>> THEN @ ELSE Front(@)],
       [good EXCEPT !.probabilities = IF ps = <<>> THEN @ ELSE [@ EXCEPT ![1].probability = Missing]]}

\* The number that stands under a key that is null.
Keyless == <<1>>

\* A null for one of the keys, or besides them; the keys of TypeSafe's probabilities
\* are names in an object, which are never null.
NullKeyed(q) ==
  LET good == WireAnswer(q)
  IN  {[good EXCEPT !.probabilities = Append(@, [key |-> Null, probability |-> Keyless])],
       [good EXCEPT !.probabilities = IF @ = <<>> THEN @ ELSE [@ EXCEPT ![1].key = Null]]}

AnswersTold(r, q) == WireAnswers(q) \cup (IF r.provider = "openai" THEN NullKeyed(q) ELSE {})

\* The answers in the order of the questions or another, without the first, with
\* one that nobody asked for, or, in OpenAI's list, with one twice.
DecisionReplies(r) ==
  LET qs       == r.questions
      unasked  == [WireAnswer(qs[1]) EXCEPT !.name = Unknown]
      complete == {s \in [DOMAIN qs -> UNION {AnswersTold(r, qs[i]) : i \in DOMAIN qs}] :
                     \A i \in DOMAIN qs : s[i] \in AnswersTold(r, qs[i])}
  IN  UNION {{s, Reverse(s), Tail(s), Append(s, unasked)}
             \cup (IF r.provider = "openai" THEN {Append(s, s[1])} ELSE {}) : s \in complete}
=============================================================================
