----------------------------- MODULE SharedChain -----------------------------
(***************************************************************************)
(* Callers of GenerateTextAnswer and GenerateStructuredAnswer over one     *)
(* BaseChain.  A structured call sets the type of the chain; every call    *)
(* reads the type again and again: to choose its output parser, to choose  *)
(* its temperature, after the LLM failed or answered, and to validate the  *)
(* answer.  Nothing synchronizes the writes and the reads.                 *)
(*                                                                         *)
(* The type is a Go string, two words in memory, which an unsynchronized   *)
(* reader may see half written.  What it then sees is not "structured".    *)
(*                                                                         *)
(* An answer of the LLM is abstracted to whether it holds JSON that can be *)
(* decoded, and to the fields of that.                                     *)
(***************************************************************************)
CONSTANTS Callers,   \* goroutines that use the chain
          Fields     \* names of fields, in schemas and in answers

\* The words of a string: its data and its length.
Words == {"data", "length"}

\* How the chain was built: NewBaseChain, NewStructuredChain with schemas, and
\* NewStructuredChain with instructions of the caller's.
Kinds == {"base", "schemas", "custom"}

VARIABLES
  kind,       \* how the chain was built
  schemas,    \* the fields an answer must have
  typeWords,  \* the words of chainType that hold "structured"
  at,         \* where the call of c is
  op,         \* op[c] : "text" or "structured", the function c has called
  wrote,      \* wrote[c] : the words SetChainType of c has written
  raw,        \* raw[c] : the raw parser takes the place of the chain's own
  cool,       \* cool[c] : the temperature is capped
  value,      \* value[c] : what the parser made of the LLM's answer
  outcome     \* outcome[c] : what the call of c returned

chainVars == <<kind, schemas, typeWords>>
vars == <<chainVars, at, op, wrote, raw, cool, value, outcome>>

\* A string, or the map of a structured parser.
Values == [form : {"none", "string", "map"}, json : BOOLEAN, fields : SUBSET Fields]
NoValue == [form |-> "none", json |-> FALSE, fields |-> {}]

\* "unsupported" is ERR_MODEL_DOES_NOT_SUPPORT_JSON_OBJECT, "printed" a map
\* that GenerateTextAnswer prints in the syntax of Go.
Outcomes == [kind : {"none", "text", "printed", "map", "error", "unsupported", "panic"},
             fields : SUBSET Fields]
Outcome(k) == [kind |-> k, fields |-> {}]

Stages == {"idle", "setting", "parser", "temperature", "calling",
           "failed", "refused", "answered", "validating", "done"}

TypeOK ==
  /\ kind \in Kinds
  /\ schemas \in SUBSET Fields
  /\ typeWords \in SUBSET Words
  /\ at \in [Callers -> Stages]
  /\ op \in [Callers -> {"text", "structured"}]
  /\ wrote \in [Callers -> SUBSET Words]
  /\ raw \in [Callers -> BOOLEAN]
  /\ cool \in [Callers -> BOOLEAN]
  /\ value \in [Callers -> Values]
  /\ outcome \in [Callers -> Outcomes]

\* Fault: NewStructuredChain leaves the type at its default.
InitUntyped ==
  /\ kind \in Kinds
  /\ schemas \in SUBSET Fields
  /\ kind = "schemas" <=> schemas # {}
  /\ typeWords = {}
  /\ at = [c \in Callers |-> "idle"]
  /\ op = [c \in Callers |-> "text"]
  /\ wrote = [c \in Callers |-> {}]
  /\ raw = [c \in Callers |-> FALSE]
  /\ cool = [c \in Callers |-> FALSE]
  /\ value = [c \in Callers |-> NoValue]
  /\ outcome = [c \in Callers |-> Outcome("none")]

\* The chain as its constructor leaves it.
Init ==
  /\ kind \in Kinds
  /\ schemas \in SUBSET Fields
  /\ kind = "schemas" <=> schemas # {}
  /\ typeWords = IF kind = "base" THEN {} ELSE Words
  /\ at = [c \in Callers |-> "idle"]
  /\ op = [c \in Callers |-> "text"]
  /\ wrote = [c \in Callers |-> {}]
  /\ raw = [c \in Callers |-> FALSE]
  /\ cool = [c \in Callers |-> FALSE]
  /\ value = [c \in Callers |-> NoValue]
  /\ outcome = [c \in Callers |-> Outcome("none")]

IsStructured == typeWords = Words

------------------------------------------------------------------------------
(* A call.                                                                 *)

Move(c, from, to) == at[c] = from /\ at' = [at EXCEPT ![c] = to]

\* A call begins; a caller makes one after the other.
Enter(c, o, stage) ==
  /\ \/ Move(c, "idle", stage) \/ Move(c, "done", stage)
  /\ op' = [op EXCEPT ![c] = o]
  /\ wrote' = [wrote EXCEPT ![c] = {}]
  /\ raw' = [raw EXCEPT ![c] = FALSE]
  /\ cool' = [cool EXCEPT ![c] = FALSE]
  /\ value' = [value EXCEPT ![c] = NoValue]
  /\ outcome' = [outcome EXCEPT ![c] = Outcome("none")]
  /\ UNCHANGED chainVars

GenerateTextAnswer(c) == Enter(c, "text", "parser")

\* Fault: the type of the chain is not set.
GenerateStructuredAnswerUnset(c) == Enter(c, "structured", "parser")

GenerateStructuredAnswer(c) == Enter(c, "structured", "setting")

\* bc.chainType = chainType, one word after the other, in any order.
SetChainType(c) ==
  /\ \E w \in Words \ wrote[c] :
       /\ typeWords' = typeWords \cup {w}
       /\ wrote' = [wrote EXCEPT ![c] = @ \cup {w}]
       /\ Move(c, "setting", IF wrote[c] \cup {w} = Words THEN "parser" ELSE "setting")
  /\ UNCHANGED <<kind, schemas, op, raw, cool, value, outcome>>

ChooseParser(c) ==
  /\ Move(c, "parser", "temperature")
  /\ raw' = [raw EXCEPT ![c] = IsStructured]
  /\ UNCHANGED <<chainVars, op, wrote, cool, value, outcome>>

GetOptimalTemperature(c) ==
  /\ Move(c, "temperature", "calling")
  /\ cool' = [cool EXCEPT ![c] = IsStructured]
  /\ UNCHANGED <<chainVars, op, wrote, raw, value, outcome>>

\* The parser that is not a pass-through: outputparser.Structured.
Parses(c) == ~raw[c] /\ kind = "schemas"

\* chains.Call returns: the LLM has answered anything, and the parser has
\* accepted that.
CallAnswers(c) ==
  /\ Move(c, "calling", "answered")
  /\ \E v \in Values :
       /\ v.form = IF Parses(c) THEN "map" ELSE "string"
       /\ v.fields # {} => v.json
       /\ Parses(c) => v.json /\ schemas \subseteq v.fields
       /\ value' = [value EXCEPT ![c] = v]
  /\ UNCHANGED <<chainVars, op, wrote, raw, cool, outcome>>

\* It fails; the model may have refused to answer in JSON.
CallFails(c) ==
  /\ Move(c, "calling", "failed") \/ Move(c, "calling", "refused")
  /\ UNCHANGED <<chainVars, op, wrote, raw, cool, value, outcome>>

Return(c, o) == /\ at' = [at EXCEPT ![c] = "done"]
                /\ outcome' = [outcome EXCEPT ![c] = o]
                /\ UNCHANGED <<kind, schemas, op, wrote, raw, cool, value>>

\* The call failed.  The comment in the code announces a second call for a
\* refused one; the code has none.
ReturnFailure(c) ==
  /\ at[c] \in {"failed", "refused"}
  /\ Return(c, Outcome(IF at[c] = "refused" /\ IsStructured THEN "unsupported" ELSE "error"))
  /\ UNCHANGED typeWords

\* The answer is taken for a structured one: a string has to hold JSON, a map
\* is validated as it is.
ExtractJSON(c) ==
  /\ at[c] = "answered" /\ IsStructured
  /\ \/ /\ value[c].json
        /\ at' = [at EXCEPT ![c] = "validating"]
        /\ UNCHANGED <<chainVars, op, wrote, raw, cool, value, outcome>>
     \/ /\ ~value[c].json
        /\ Return(c, Outcome("error"))
        /\ UNCHANGED typeWords

\* The answer is taken for a text: res["text"].(string) panics on a map, and
\* GenerateStructuredAnswer has no use for a string.
ReturnText(c) ==
  /\ at[c] = "answered" /\ ~IsStructured
  /\ Return(c, Outcome(IF value[c].form = "map" THEN "panic"
                       ELSE IF op[c] = "text" THEN "text" ELSE "error"))
  /\ UNCHANGED typeWords

\* What is returned of a map that passes: GenerateTextAnswer prints it.
MapReturned(c) == [kind |-> IF op[c] = "text" THEN "printed" ELSE "map",
                   fields |-> value[c].fields]

\* Fault: a call puts the type back to text when it has validated its answer.
ValidateAndReset(c) ==
  /\ at[c] = "validating"
  /\ Return(c, IF IsStructured /\ ~(schemas \subseteq value[c].fields)
               THEN Outcome("error") ELSE MapReturned(c))
  /\ typeWords' = {}

\* The map is complete, if the chain still is a structured one.
Validate(c) ==
  /\ at[c] = "validating"
  /\ Return(c, IF IsStructured /\ ~(schemas \subseteq value[c].fields)
               THEN Outcome("error") ELSE MapReturned(c))
  /\ UNCHANGED typeWords

Next ==
  \E c \in Callers :
    \/ GenerateTextAnswer(c) \/ GenerateStructuredAnswer(c) \/ SetChainType(c)
    \/ ChooseParser(c) \/ GetOptimalTemperature(c)
    \/ CallAnswers(c) \/ CallFails(c)
    \/ ReturnFailure(c) \/ ExtractJSON(c) \/ ReturnText(c) \/ Validate(c)

Spec == Init /\ [][Next]_vars

------------------------------------------------------------------------------
(* What a chain promises to its callers.                                   *)

\* A structured call returns a map with every field of the chain's schemas,
\* or an error: the validation is not skipped because another caller changed
\* the type between the call and the validation.
StructuredComplete ==
  \A c \in Callers :
    op[c] = "structured" /\ outcome[c].kind = "map" => schemas \subseteq outcome[c].fields

\* A structured call is structured throughout: once it has set the type, it
\* reads "structured" each time, uses the raw parser and the capped
\* temperature, and is not taken for a text call.
StructuredThroughout ==
  \A c \in Callers : op[c] = "structured" =>
    /\ at[c] \in {"temperature", "calling", "failed", "refused", "answered", "validating", "done"}
         => raw[c]
    /\ at[c] \in {"calling", "failed", "refused", "answered", "validating", "done"} => cool[c]
    /\ at[c] \in {"failed", "refused", "answered", "validating"} => IsStructured

\* The unchecked type assertion of generateAnswer never panics: a parser that
\* does not give a string is only used where the type is looked at first.
NeverPanics == \A c \in Callers : outcome[c].kind # "panic"

\* "GenerateTextAnswer specifically returns string responses": a text call that
\* began on a text chain and whose LLM has answered returns the answer.
TextReturned ==
  \A c \in Callers :
    op[c] = "text" /\ at[c] = "done" /\ ~raw[c] /\ value[c].form = "string"
      => outcome[c].kind = "text"

------------------------------------------------------------------------------
(* The chain behaves as one whose calls are atomic.                        *)

\* A call that has begun and not returned.
Pending == [c \in Callers |-> IF at[c] \in {"idle", "done"} THEN "none" ELSE op[c]]

Atomic == INSTANCE AtomicChain WITH structured <- IsStructured, pending <- Pending

\* However the reads of the type and the two words of its writes interleave,
\* each call does what it would do if it read, when it returns, one flag that
\* is set at once: half a string is never acted on, and a call whose reads
\* differ returns what the last of them alone would give.
AtomicSpec == Atomic!Spec

------------------------------------------------------------------------------
(* The inductive invariant.                                                *)

\* A chain that was built structured is so for ever; one that was not becomes
\* so word by word, and no word is taken back.
TypeGrows ==
  /\ kind # "base" => IsStructured
  /\ \A c \in Callers : wrote[c] \subseteq typeWords

\* Behind SetChainType all of the type is written.
SettersDone ==
  \A c \in Callers :
    op[c] = "structured" /\ at[c] \notin {"idle", "setting"} => IsStructured

\* A structured parser is never used, so that every answer is a string.
RawWhereStructured ==
  \A c \in Callers :
    /\ kind # "base" /\ at[c] \notin {"idle", "setting", "parser"} => raw[c]
    /\ at[c] = "answered" => value[c].form = "string"

\* Only a structured call sets the type, and a map is validated after the type
\* was seen to be set.
SetBeforeValidated ==
  \A c \in Callers :
    /\ at[c] = "setting" => op[c] = "structured"
    /\ at[c] = "validating" => IsStructured

IInv == /\ TypeOK /\ TypeGrows /\ SettersDone /\ RawWhereStructured /\ SetBeforeValidated
        /\ StructuredComplete /\ StructuredThroughout /\ NeverPanics
==============================================================================
