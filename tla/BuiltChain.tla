------------------------------ MODULE BuiltChain ------------------------------
(***************************************************************************)
(* A chain from its builder to the structured answers it is used for:      *)
(* ChainBuilder, then GenerateStructuredAnswer with the extraction and the *)
(* validation of JsonAnswer.  One caller; SharedChain has several.         *)
(***************************************************************************)
EXTENDS ChainBuilder

CONSTANT Answers   \* what an LLM may answer

ASSUME AnswerAssumption == Answers \subseteq Seq(Tokens)

VARIABLES
  answer,   \* the last answer of the LLM, <<>> before the first of a chain
  result    \* what the last call returned, "none" before

vars == <<builderVars, chain, answer, result>>

Results == [kind : {"none", "map", "error"}, fields : SUBSET Fields]
Result(k) == [kind |-> k, fields |-> {}]

TypeOK == /\ BuilderTypeOK
          /\ answer \in Seq(Tokens)
          /\ result \in Results

Init == BuilderInit /\ answer = <<>> /\ result = Result("none")

\* A setter leaves the chains that were built alone.
Setter == Set /\ UNCHANGED <<chain, answer, result>>

\* A chain takes the place of the one before, in this model.
NewChain == (Build \/ BuildFails) /\ answer' = <<>> /\ result' = Result("none")

\* ValidateStructuredResponse: the fields of the chain's schemas are there,
\* and other fields may be.
Validated(fields) == IF chain.schemas \subseteq fields
                     THEN [kind |-> "map", fields |-> fields] ELSE Result("error")

\* GenerateStructuredAnswer.  The empty answer is an error, as is one whose
\* block or whole is no map; null is a map, nil.
GenerateStructuredAnswer(s) ==
  /\ chain.kind # "none"
  /\ answer' = s
  /\ result' = IF s # <<>> /\ Decodes(extractJSONFromResponse(s))
               THEN Validated(FieldsOf(extractJSONFromResponse(s))) ELSE Result("error")
  /\ UNCHANGED <<builderVars, chain>>

Next == Setter \/ NewChain \/ \E s \in Answers : GenerateStructuredAnswer(s)

Spec == Init /\ [][Next]_vars

------------------------------------------------------------------------------
(* What a chain promises.                                                  *)

\* The fields the prompt asks for, in its last block of instructions.
Asked == IF chain.blocks = <<>> THEN {} ELSE chain.blocks[Len(chain.blocks)]

\* Whatever the order of the setters, the instructions in the prompt and the
\* validation agree: an LLM that does as its last instructions say is never
\* refused and never misread, whether it gives the object as it is or in the
\* first block of JSON of its answer.
AskedIsEnough ==
  \A S \in SUBSET Fields :
    result.kind # "none" /\ answer # <<>> /\ Clean(answer, S) /\ Asked \subseteq S
      => result = [kind |-> "map", fields |-> S]

\* And a chain with schemas returns no map without the fields it asked for.
NothingLacks == result.kind = "map" /\ chain.schemas # {} => Asked \subseteq result.fields

\* JSON mode, which OpenAI refuses for a prompt that does not ask for JSON, is
\* only asked for by such prompts; and chains with schemas have it, whatever
\* WithJSON was told before or after.
JsonModeAsked ==
  /\ chain.json => chain.blocks # <<>>
  /\ chain.schemas # {} /\ chain.provider = "OPENAI" => chain.json

------------------------------------------------------------------------------
(* The inductive invariant.                                                *)

\* A chain with schemas asks for them in its last block.
AsksForSchemas ==
  chain.schemas # {} => chain.blocks # <<>> /\ Asked = chain.schemas

IInv == /\ TypeOK /\ AsksForSchemas
        /\ AskedIsEnough /\ NothingLacks /\ JsonModeAsked
==============================================================================
