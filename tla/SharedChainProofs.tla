-------------------------- MODULE SharedChainProofs --------------------------
(***************************************************************************)
(* Theorems about SharedChain, for any number of callers and any schemas.  *)
(* The argument is that the words of the type only grow: what a structured *)
(* caller has written stays, and what a constructor has set stays.         *)
(***************************************************************************)
EXTENDS SharedChain, TLAPS

\* Both words of the type are written together or one by one, never taken back.
LEMMA StaysStructured ==
  ASSUME IInv, [Next]_vars
  PROVE  /\ kind' = kind /\ schemas' = schemas
         /\ typeWords \subseteq typeWords'
         /\ IsStructured => IsStructured'
<1>1. kind' = kind /\ schemas' = schemas
  BY DEF Next, vars, chainVars, GenerateTextAnswer, GenerateStructuredAnswer, Enter, SetChainType,
         ChooseParser, GetOptimalTemperature, CallAnswers, CallFails, Return, ReturnFailure,
         ExtractJSON, ReturnText, Validate
<1>2. typeWords' = typeWords \/ \E w \in Words : typeWords' = typeWords \cup {w}
  BY DEF Next, vars, chainVars, GenerateTextAnswer, GenerateStructuredAnswer, Enter, SetChainType,
         ChooseParser, GetOptimalTemperature, CallAnswers, CallFails, Return, ReturnFailure,
         ExtractJSON, ReturnText, Validate
<1>3. QED
  BY <1>1, <1>2 DEF IInv, TypeOK, IsStructured

\* The values and outcomes a step can make.
LEMMA RecordFacts ==
  /\ NoValue \in Values
  /\ \A k \in {"none", "text", "printed", "map", "error", "unsupported", "panic"} :
       Outcome(k) \in Outcomes /\ Outcome(k).kind = k
BY DEF NoValue, Values, Outcome, Outcomes

LEMMA InitEstablishes == Init => IInv
<1> SUFFICES ASSUME Init PROVE IInv
  OBVIOUS
<1>1. TypeOK
  BY RecordFacts DEF Init, TypeOK, Kinds, Words, Stages
<1>2. TypeGrows /\ SettersDone /\ RawWhereStructured /\ SetBeforeValidated
  BY RecordFacts DEF Init, TypeGrows, SettersDone, RawWhereStructured, SetBeforeValidated, IsStructured
<1>3. StructuredComplete /\ StructuredThroughout /\ NeverPanics
  BY RecordFacts DEF Init, StructuredComplete, StructuredThroughout, NeverPanics
<1>4. QED
  BY <1>1, <1>2, <1>3 DEF IInv

------------------------------------------------------------------------------
(* The invariant is preserved by each action.                              *)

\* A call begins with nothing chosen and nothing returned.
LEMMA EnterPreserves ==
  ASSUME IInv, NEW c \in Callers,
         \/ Enter(c, "text", "parser")
         \/ Enter(c, "structured", "setting")
  PROVE  IInv'
<1>1. UNCHANGED chainVars /\ (IsStructured <=> IsStructured')
  BY DEF Enter, chainVars, IsStructured
<1>2. TypeOK'
  <2>1. PICK s \in {"parser", "setting"} : at' = [at EXCEPT ![c] = s]
    BY DEF Enter, Move
  <2>2. PICK o \in {"text", "structured"} : op' = [op EXCEPT ![c] = o]
    BY DEF Enter
  <2>3. /\ wrote' = [wrote EXCEPT ![c] = {}]
        /\ raw' = [raw EXCEPT ![c] = FALSE] /\ cool' = [cool EXCEPT ![c] = FALSE]
        /\ value' = [value EXCEPT ![c] = NoValue]
        /\ outcome' = [outcome EXCEPT ![c] = Outcome("none")]
    BY DEF Enter
  <2>4. NoValue \in Values /\ Outcome("none") \in Outcomes
    BY RecordFacts
  <2>5. QED
    BY <1>1, <2>1, <2>2, <2>3, <2>4 DEF IInv, TypeOK, chainVars, Stages
<1>3. TypeGrows' /\ SettersDone' /\ RawWhereStructured' /\ SetBeforeValidated'
  BY <1>1, RecordFacts DEF IInv, TypeOK, TypeGrows, SettersDone, RawWhereStructured, SetBeforeValidated, Enter, Move,
                           chainVars
<1>4. StructuredComplete' /\ StructuredThroughout' /\ NeverPanics'
  BY <1>1, RecordFacts DEF IInv, TypeOK, StructuredComplete, StructuredThroughout, NeverPanics,
                           Enter, Move, chainVars
<1>5. QED
  BY <1>2, <1>3, <1>4 DEF IInv

LEMMA SetPreserves ==
  ASSUME IInv, NEW c \in Callers, SetChainType(c), [Next]_vars
  PROVE  IInv'
<1>1. PICK w \in Words \ wrote[c] :
        /\ typeWords' = typeWords \cup {w}
        /\ wrote' = [wrote EXCEPT ![c] = @ \cup {w}]
        /\ Move(c, "setting", IF wrote[c] \cup {w} = Words THEN "parser" ELSE "setting")
  BY DEF SetChainType
<1>2. /\ kind' = kind /\ schemas' = schemas /\ (IsStructured => IsStructured')
      /\ UNCHANGED <<op, raw, cool, value, outcome>>
  BY StaysStructured DEF SetChainType
<1>3. TypeOK'
  BY <1>1, <1>2 DEF IInv, TypeOK, Move, Stages
<1>4. TypeGrows'
  BY <1>1, <1>2 DEF IInv, TypeOK, TypeGrows
<1>5. SettersDone'
  <2>1. wrote[c] \cup {w} = Words => IsStructured'
    BY <1>1, <1>3, <1>4 DEF TypeGrows, TypeOK, IInv, IsStructured
  <2>2. QED
    BY <1>1, <1>2, <2>1 DEF IInv, TypeOK, SettersDone, Move
<1>6. RawWhereStructured' /\ SetBeforeValidated' /\ StructuredComplete' /\ StructuredThroughout' /\ NeverPanics'
  BY <1>1, <1>2 DEF IInv, TypeOK, RawWhereStructured, SetBeforeValidated, StructuredComplete,
                    StructuredThroughout, NeverPanics, Move
<1>7. QED
  BY <1>3, <1>4, <1>5, <1>6 DEF IInv

\* The choices made before the call see the type the caller has set.
LEMMA ChoosePreserves ==
  ASSUME IInv, NEW c \in Callers, ChooseParser(c) \/ GetOptimalTemperature(c)
  PROVE  IInv'
<1>1. UNCHANGED chainVars /\ (IsStructured <=> IsStructured') /\ UNCHANGED <<op, wrote, value, outcome>>
  BY DEF ChooseParser, GetOptimalTemperature, chainVars, IsStructured
<1>2. IsStructured \in BOOLEAN
  BY DEF IsStructured
<1>3. op[c] = "structured" \/ kind # "base" => IsStructured
  BY DEF IInv, TypeGrows, SettersDone, ChooseParser, GetOptimalTemperature, Move
<1>4. CASE ChooseParser(c)
  <2> /\ at[c] = "parser" /\ at' = [at EXCEPT ![c] = "temperature"]
      /\ raw' = [raw EXCEPT ![c] = IsStructured] /\ UNCHANGED cool
    BY <1>4 DEF ChooseParser, Move
  <2> HIDE DEF IsStructured
  <2>1. TypeOK'
    BY <1>1, <1>2 DEF IInv, TypeOK, chainVars, Stages
  <2>2. TypeGrows' /\ SettersDone' /\ SetBeforeValidated' /\ StructuredComplete' /\ NeverPanics'
    BY <1>1 DEF IInv, TypeOK, TypeGrows, SettersDone, SetBeforeValidated, StructuredComplete,
                    NeverPanics, chainVars
  <2>3. RawWhereStructured'
    BY <1>1, <1>3 DEF IInv, TypeOK, RawWhereStructured, chainVars
  <2>4. StructuredThroughout'
    BY <1>1, <1>3 DEF IInv, TypeOK, StructuredThroughout
  <2>5. QED
    BY <2>1, <2>2, <2>3, <2>4 DEF IInv
<1>5. CASE GetOptimalTemperature(c)
  <2> /\ at[c] = "temperature" /\ at' = [at EXCEPT ![c] = "calling"]
      /\ cool' = [cool EXCEPT ![c] = IsStructured] /\ UNCHANGED raw
    BY <1>5 DEF GetOptimalTemperature, Move
  <2> HIDE DEF IsStructured
  <2>1. TypeOK'
    BY <1>1, <1>2 DEF IInv, TypeOK, chainVars, Stages
  <2>2. TypeGrows' /\ SettersDone' /\ SetBeforeValidated' /\ StructuredComplete' /\ NeverPanics'
    BY <1>1 DEF IInv, TypeOK, TypeGrows, SettersDone, SetBeforeValidated, StructuredComplete,
                    NeverPanics, chainVars
  <2>3. RawWhereStructured'
    BY <1>1 DEF IInv, TypeOK, RawWhereStructured, chainVars
  <2>4. StructuredThroughout'
    BY <1>1, <1>3 DEF IInv, TypeOK, StructuredThroughout
  <2>5. QED
    BY <2>1, <2>2, <2>3, <2>4 DEF IInv
<1>6. QED
  BY <1>4, <1>5

\* The LLM fails or answers: the value is a string, since no structured parser
\* is in use.
LEMMA CallPreserves ==
  ASSUME IInv, NEW c \in Callers, CallAnswers(c) \/ CallFails(c)
  PROVE  IInv'
<1>1. /\ UNCHANGED <<chainVars, op, wrote, raw, cool, outcome>> /\ (IsStructured <=> IsStructured')
      /\ at[c] = "calling"
      /\ \E s \in {"answered", "failed", "refused"} : at' = [at EXCEPT ![c] = s]
  BY DEF CallAnswers, CallFails, chainVars, IsStructured, Move
<1>2. \/ at' # [at EXCEPT ![c] = "answered"] /\ value' = value
      \/ \E v \in Values : v.form = "string" /\ value' = [value EXCEPT ![c] = v]
  <2>1. ~Parses(c)
    BY <1>1 DEF IInv, RawWhereStructured, Parses
  <2>2. CASE CallAnswers(c)
    BY <2>1, <2>2 DEF CallAnswers
  <2>3. CASE CallFails(c)
    BY <1>1, <2>3 DEF CallFails, Move, IInv, TypeOK
  <2>4. QED
    BY <2>2, <2>3
<1>3. op[c] = "structured" => IsStructured
  BY <1>1 DEF IInv, SettersDone
<1>4. TypeOK'
  BY <1>1, <1>2 DEF IInv, TypeOK, chainVars, Stages
<1>5. TypeGrows' /\ SettersDone' /\ RawWhereStructured' /\ SetBeforeValidated'
  BY <1>1, <1>2 DEF IInv, TypeOK, TypeGrows, SettersDone, RawWhereStructured, SetBeforeValidated, chainVars
<1>6. StructuredComplete' /\ StructuredThroughout' /\ NeverPanics'
  BY <1>1, <1>3 DEF IInv, TypeOK, StructuredComplete, StructuredThroughout, NeverPanics, chainVars
<1>7. QED
  BY <1>4, <1>5, <1>6 DEF IInv

\* A call returns: what it returns is no panic, and if it is a map then it is
\* complete or made for a text call.
LEMMA ReturnPreserves ==
  ASSUME IInv, NEW c \in Callers, NEW o \in Outcomes, Return(c, o), UNCHANGED typeWords,
         at[c] \in {"failed", "refused", "answered", "validating"},
         o.kind # "panic",
         op[c] = "structured" /\ o.kind = "map" => schemas \subseteq o.fields
  PROVE  IInv'
<1>1. UNCHANGED chainVars /\ (IsStructured <=> IsStructured')
  BY DEF Return, chainVars, IsStructured
<1>2. TypeOK'
  BY <1>1 DEF IInv, TypeOK, Return, Stages, chainVars
<1>3. TypeGrows' /\ SettersDone' /\ RawWhereStructured' /\ SetBeforeValidated'
  BY <1>1 DEF IInv, TypeOK, TypeGrows, SettersDone, RawWhereStructured, SetBeforeValidated, Return, chainVars
<1>4. StructuredComplete' /\ StructuredThroughout' /\ NeverPanics'
  BY <1>1 DEF IInv, TypeOK, StructuredComplete, StructuredThroughout, NeverPanics, Return, chainVars
<1>5. QED
  BY <1>2, <1>3, <1>4 DEF IInv

LEMMA AnswerPreserves ==
  ASSUME IInv, NEW c \in Callers,
         ReturnFailure(c) \/ ExtractJSON(c) \/ ReturnText(c) \/ Validate(c)
  PROVE  IInv'
<1>1. CASE ReturnFailure(c)
  <2>1. PICK k \in {"unsupported", "error"} : Return(c, Outcome(k)) /\ UNCHANGED typeWords
    BY <1>1 DEF ReturnFailure
  <2>2. Outcome(k) \in Outcomes /\ Outcome(k).kind = k
    BY RecordFacts
  <2>3. QED
    BY <1>1, <2>1, <2>2, ReturnPreserves DEF ReturnFailure
<1>2. CASE ExtractJSON(c)
  <2>1. CASE Return(c, Outcome("error")) /\ UNCHANGED typeWords
    BY <1>2, <2>1, RecordFacts, ReturnPreserves DEF ExtractJSON
  <2>2. CASE /\ at' = [at EXCEPT ![c] = "validating"]
             /\ UNCHANGED <<chainVars, op, wrote, raw, cool, value, outcome>>
    <3>1. at[c] = "answered" /\ IsStructured /\ IsStructured'
      BY <1>2, <2>2 DEF ExtractJSON, IsStructured, chainVars
    <3>2. TypeOK'
      BY <2>2 DEF IInv, TypeOK, Stages, chainVars
    <3>3. TypeGrows' /\ SettersDone' /\ RawWhereStructured' /\ SetBeforeValidated'
      BY <2>2, <3>1 DEF IInv, TypeOK, TypeGrows, SettersDone, RawWhereStructured, SetBeforeValidated, chainVars
    <3>4. StructuredComplete' /\ StructuredThroughout' /\ NeverPanics'
      BY <2>2, <3>1 DEF IInv, TypeOK, StructuredComplete, StructuredThroughout, NeverPanics, chainVars
    <3>5. QED
      BY <3>2, <3>3, <3>4 DEF IInv
  <2>3. QED
    BY <1>2, <2>1, <2>2 DEF ExtractJSON
<1>3. CASE ReturnText(c)
  <2>1. value[c].form = "string" /\ op[c] = "text"
    BY <1>3 DEF ReturnText, IInv, TypeOK, RawWhereStructured, StructuredThroughout
  <2>2. Return(c, Outcome("text")) /\ UNCHANGED typeWords
    BY <1>3, <2>1 DEF ReturnText
  <2>3. QED
    BY <1>3, <2>2, RecordFacts, ReturnPreserves DEF ReturnText
<1>4. CASE Validate(c)
  <2>1. CASE IsStructured /\ ~(schemas \subseteq value[c].fields)
    BY <1>4, <2>1, RecordFacts, ReturnPreserves DEF Validate
  <2>2. CASE ~(IsStructured /\ ~(schemas \subseteq value[c].fields))
    <3> DEFINE o == MapReturned(c)
    <3>1. Return(c, o) /\ UNCHANGED typeWords /\ at[c] = "validating"
      BY <1>4, <2>2 DEF Validate
    <3>2. o \in Outcomes /\ o.kind # "panic" /\ o.fields = value[c].fields
      BY DEF IInv, TypeOK, Values, Outcomes, MapReturned
    <3>3. op[c] = "structured" => schemas \subseteq value[c].fields
      BY <2>2, <3>1 DEF IInv, StructuredThroughout
    <3> HIDE DEF o
    <3>4. QED
      BY <3>1, <3>2, <3>3, ReturnPreserves
  <2>3. QED
    BY <2>1, <2>2
<1>5. QED
  BY <1>1, <1>2, <1>3, <1>4

LEMMA NextPreserves ==
  ASSUME IInv, [Next]_vars
  PROVE  IInv'
<1>1. CASE UNCHANGED vars
  BY <1>1 DEF vars, chainVars, IInv, TypeOK, TypeGrows, SettersDone, RawWhereStructured, SetBeforeValidated,
              StructuredComplete, StructuredThroughout, NeverPanics, IsStructured
<1>2. ASSUME NEW c \in Callers, GenerateTextAnswer(c) \/ GenerateStructuredAnswer(c)
      PROVE  IInv'
  BY <1>2, EnterPreserves DEF GenerateTextAnswer, GenerateStructuredAnswer
<1>3. ASSUME NEW c \in Callers, SetChainType(c)
      PROVE  IInv'
  BY <1>3, SetPreserves
<1>4. QED
  BY <1>1, <1>2, <1>3, ChoosePreserves, CallPreserves, AnswerPreserves DEF Next

------------------------------------------------------------------------------
(* Each step is a step of the atomic chain, or none.                       *)

\* What of the state the atomic chain looks at.
Seen == <<schemas, IsStructured, Pending, outcome>>

\* A call has begun, has returned, or is at some stage in between.
LEMMA PendingFacts ==
  ASSUME IInv, NEW c \in Callers
  PROVE  /\ at[c] \in {"idle", "done"} => Pending[c] = "none"
         /\ at[c] \notin {"idle", "done"} => Pending[c] = op[c]
         /\ op[c] \in {"text", "structured"}
BY DEF IInv, TypeOK, Pending

\* A step inside a call, which changes neither the type nor what is returned.
LEMMA InsideStutters ==
  ASSUME IInv, NEW c \in Callers, at[c] \notin {"idle", "done"},
         NEW s \in Stages \ {"idle", "done"}, at' = [at EXCEPT ![c] = s], op' = op
  PROVE  Pending' = Pending
<1>1. ASSUME NEW d \in Callers
      PROVE  (at'[d] \in {"idle", "done"}) = (at[d] \in {"idle", "done"})
  BY DEF IInv, TypeOK
<1>2. QED
  BY <1>1 DEF Pending

\* A call begins.
LEMMA EnterCalls ==
  ASSUME IInv, NEW c \in Callers, NEW o \in {"text", "structured"},
         NEW s \in {"parser", "setting"}, Enter(c, o, s)
  PROVE  Atomic!Call(c, o)
<1>1. /\ at[c] \in {"idle", "done"}
      /\ at' = [at EXCEPT ![c] = s] /\ op' = [op EXCEPT ![c] = o]
      /\ outcome' = [outcome EXCEPT ![c] = Outcome("none")]
      /\ UNCHANGED chainVars
  BY DEF Enter, Move
<1>2. Pending[c] = "none"
  BY <1>1, PendingFacts
<1>3. Pending' = [Pending EXCEPT ![c] = o]
  BY <1>1 DEF IInv, TypeOK, Pending
<1>4. schemas' = schemas /\ IsStructured' = IsStructured
  BY <1>1 DEF chainVars, IsStructured
<1>5. QED
  BY <1>1, <1>2, <1>3, <1>4 DEF Atomic!Call, Atomic!Result, Outcome

\* The word that completes the type sets the flag; the other one does nothing.
LEMMA SetTurns ==
  ASSUME IInv, NEW c \in Callers, SetChainType(c), [Next]_vars
  PROVE  Atomic!Turn \/ UNCHANGED Seen
<1>1. /\ at[c] = "setting" /\ op[c] = "structured"
      /\ UNCHANGED <<schemas, op, outcome>>
      /\ at' = [at EXCEPT ![c] = "parser"] \/ at' = [at EXCEPT ![c] = "setting"]
  BY DEF SetChainType, Move, IInv, SetBeforeValidated
<1>2. Pending' = Pending /\ Pending[c] = "structured"
  BY <1>1, InsideStutters, PendingFacts DEF Stages
<1>3. IsStructured => IsStructured'
  BY StaysStructured
<1>4. CASE IsStructured \/ ~IsStructured'
  BY <1>1, <1>2, <1>3, <1>4 DEF Seen, IsStructured
<1>5. CASE ~IsStructured /\ IsStructured'
  <2>1. IsStructured' = TRUE
    BY <1>5 DEF IsStructured
  <2>2. QED
    BY <1>1, <1>2, <1>5, <2>1 DEF Atomic!Turn
<1>6. QED
  BY <1>4, <1>5

\* The choices, and the call of the LLM.
LEMMA CallStutters ==
  ASSUME IInv, NEW c \in Callers,
         ChooseParser(c) \/ GetOptimalTemperature(c) \/ CallAnswers(c) \/ CallFails(c)
  PROVE  UNCHANGED Seen
<1>1. /\ at[c] \in {"parser", "temperature", "calling"}
      /\ \E s \in {"temperature", "calling", "answered", "failed", "refused"} :
           at' = [at EXCEPT ![c] = s]
      /\ UNCHANGED <<chainVars, op, outcome>>
  BY DEF ChooseParser, GetOptimalTemperature, CallAnswers, CallFails, Move
<1>2. Pending' = Pending
  BY <1>1, InsideStutters DEF Stages
<1>3. QED
  BY <1>1, <1>2 DEF Seen, IsStructured, chainVars

\* A call returns.
LEMMA ReturnEnds ==
  ASSUME IInv, NEW c \in Callers, NEW k, NEW fs, Return(c, [kind |-> k, fields |-> fs]),
         UNCHANGED typeWords
  PROVE  Atomic!Return(c, Atomic!Result(k, fs))
<1>1. Pending' = [Pending EXCEPT ![c] = "none"]
  BY DEF Return, IInv, TypeOK, Pending
<1>2. schemas' = schemas /\ IsStructured' = IsStructured
  BY DEF Return, IsStructured
<1>3. QED
  BY <1>1, <1>2 DEF Return, Atomic!Return, Atomic!Result

\* What it returns it may return on the flag as it is then.
LEMMA AnswerReturns ==
  ASSUME IInv, NEW c \in Callers,
         ReturnFailure(c) \/ ExtractJSON(c) \/ ReturnText(c) \/ Validate(c)
  PROVE  [Atomic!Next]_Seen
<1>1. /\ at[c] \in {"failed", "refused", "answered", "validating"}
      /\ Pending[c] = op[c] /\ op[c] \in {"text", "structured"}
      /\ op[c] = "structured" => IsStructured
  BY PendingFacts DEF ReturnFailure, ExtractJSON, ReturnText, Validate, IInv, SettersDone
<1>2. Return(c, Outcome("error")) /\ UNCHANGED typeWords => Atomic!Fail(c)
  BY <1>1, ReturnEnds DEF Outcome, Atomic!Fail
<1>3. CASE ReturnFailure(c)
  <2>1. CASE at[c] = "refused" /\ IsStructured
    BY <1>1, <1>3, <2>1, ReturnEnds DEF ReturnFailure, Outcome, Atomic!Refuse, Atomic!Next
  <2>2. CASE ~(at[c] = "refused" /\ IsStructured)
    BY <1>2, <1>3, <2>2 DEF ReturnFailure, Atomic!Next
  <2>3. QED
    BY <2>1, <2>2
<1>4. CASE ExtractJSON(c)
  <2>1. CASE value[c].json
    <3>1. /\ at' = [at EXCEPT ![c] = "validating"]
          /\ UNCHANGED <<chainVars, op, outcome>>
      BY <1>4, <2>1 DEF ExtractJSON
    <3>2. Pending' = Pending
      BY <1>1, <3>1, InsideStutters DEF Stages
    <3>3. QED
      BY <3>1, <3>2 DEF Seen, IsStructured, chainVars
  <2>2. CASE ~value[c].json
    BY <1>2, <1>4, <2>2 DEF ExtractJSON, Atomic!Next
  <2>3. QED
    BY <2>1, <2>2
<1>5. CASE ReturnText(c)
  <2>1. op[c] = "text" /\ value[c].form = "string"
    BY <1>1, <1>5 DEF ReturnText, IInv, RawWhereStructured
  <2>2. Return(c, Outcome("text")) /\ UNCHANGED typeWords /\ ~IsStructured
    BY <1>5, <2>1 DEF ReturnText
  <2>3. QED
    BY <1>1, <2>1, <2>2, ReturnEnds DEF Outcome, Atomic!ReturnText, Atomic!Next
<1>6. CASE Validate(c)
  <2>1. IsStructured
    BY <1>6 DEF Validate, IInv, SetBeforeValidated
  <2>2. CASE schemas \subseteq value[c].fields
    <3>1. Return(c, MapReturned(c)) /\ UNCHANGED typeWords
      BY <1>6, <2>2 DEF Validate
    <3>2. value[c].fields \in SUBSET Fields
      BY DEF IInv, TypeOK, Values
    <3>3. Atomic!ReturnMap(c, value[c].fields)
      BY <1>1, <2>1, <2>2, <3>1, ReturnEnds DEF MapReturned, Atomic!ReturnMap
    <3>4. QED
      BY <3>2, <3>3 DEF Atomic!Next
  <2>3. CASE ~(schemas \subseteq value[c].fields)
    BY <1>2, <1>6, <2>1, <2>3 DEF Validate, Atomic!Next
  <2>4. QED
    BY <2>2, <2>3
<1>7. QED
  BY <1>3, <1>4, <1>5, <1>6

LEMMA InitRefines == Init => Atomic!Init
<1> SUFFICES ASSUME Init PROVE Atomic!Init
  OBVIOUS
<1>1. Pending = [c \in Callers |-> "none"]
  BY DEF Init, Pending
<1>2. IsStructured \in BOOLEAN
  BY DEF IsStructured
<1>3. QED
  BY <1>1, <1>2 DEF Init, Atomic!Init, Atomic!Result, Outcome

LEMMA StepRefines ==
  ASSUME IInv, [Next]_vars
  PROVE  [Atomic!Next]_Seen
<1>1. CASE UNCHANGED vars
  BY <1>1 DEF vars, chainVars, Seen, Pending, IsStructured
<1>2. ASSUME NEW c \in Callers, GenerateTextAnswer(c) \/ GenerateStructuredAnswer(c)
      PROVE  Atomic!Next
  BY <1>2, EnterCalls DEF GenerateTextAnswer, GenerateStructuredAnswer, Atomic!Next
<1>3. ASSUME NEW c \in Callers, SetChainType(c)
      PROVE  [Atomic!Next]_Seen
  BY <1>3, SetTurns DEF Atomic!Next
<1>4. QED
  BY <1>1, <1>2, <1>3, CallStutters, AnswerReturns DEF Next

------------------------------------------------------------------------------
(* The theorems.                                                           *)

\* The inductive invariant holds in every reachable state.
THEOREM Invariance == Spec => []IInv
<1>1. IInv /\ [Next]_vars => IInv'
  BY NextPreserves
<1>2. QED
  BY <1>1, InitEstablishes, PTL DEF Spec

\* Every variable keeps its type.
THEOREM TypeCorrect == Spec => []TypeOK
<1>1. IInv => TypeOK
  BY DEF IInv
<1>2. QED
  BY <1>1, Invariance, PTL

\* The map a structured call returns has every field of the schemas.
THEOREM StructuredAnswersComplete == Spec => []StructuredComplete
<1>1. IInv => StructuredComplete
  BY DEF IInv
<1>2. QED
  BY <1>1, Invariance, PTL

\* No caller turns the structured call of another into a text call.
THEOREM StructuredUndisturbed == Spec => []StructuredThroughout
<1>1. IInv => StructuredThroughout
  BY DEF IInv
<1>2. QED
  BY <1>1, Invariance, PTL

\* The type assertion on the answer of a text call never panics.
THEOREM AssertionSafe == Spec => []NeverPanics
<1>1. IInv => NeverPanics
  BY DEF IInv
<1>2. QED
  BY <1>1, Invariance, PTL

\* Every behaviour of a shared chain is one of a chain whose calls are atomic.
THEOREM ImplementsAtomicChain == Spec => AtomicSpec
<1>1. IInv /\ [Next]_vars => [Atomic!Next]_(Atomic!vars)
  BY StepRefines DEF Seen, Atomic!vars
<1>2. QED
  BY <1>1, InitRefines, Invariance, PTL DEF Spec, AtomicSpec, Atomic!Spec
==============================================================================
