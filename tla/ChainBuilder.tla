----------------------------- MODULE ChainBuilder -----------------------------
(***************************************************************************)
(* ChainBuilder: setters in any order, each of which overwrites what some  *)
(* of the others have set, and Build, which may be called again and again. *)
(*                                                                         *)
(* A template is abstracted to the blocks of instructions that were added  *)
(* to it, a block to the fields it asks for, a list of schemas to its      *)
(* fields, and an optional string to a sequence of at most one.            *)
(***************************************************************************)
EXTENDS JsonAnswer

CONSTANTS Providers,   \* providers and other strings a caller may name
          Keys,        \* those whose key (or URL) is in the environment
          Settings,    \* parameters, number of tokens, temperature
          MaxBlocks    \* bounds the blocks of a template

\* llmmodels.Provider
Supported == {"OPENAI", "GOOGLEAI", "MISTRAL", "ANTHROPIC", "OLLAMA"}

ASSUME BuilderAssumption == MaxBlocks \in Nat

VARIABLES
  blocks,     \* the blocks of templateText
  schemas,    \* responseSchemas
  chainType,  \* chainType
  format,     \* formatInstrLLMWithNoJSONSupport
  isJson,     \* isJson
  provider,   \* provider
  settings,   \* paramDefinition, maxTokens, temperature
  chain       \* what the last Build returned

builderVars == <<blocks, schemas, chainType, format, isJson, provider, settings>>

\* A BaseChain; "none" is an error.  json is the JSON mode of its LLM.
Chains == [kind : {"none", "default", "schemas", "custom"}, blocks : Seq(SUBSET Fields),
           schemas : SUBSET Fields, provider : Providers \cup {""}, json : BOOLEAN,
           settings : Settings]

NoChain == [kind |-> "none", blocks |-> <<>>, schemas |-> {}, provider |-> "", json |-> FALSE,
            settings |-> settings]

BuilderTypeOK ==
  /\ blocks \in Seq(SUBSET Fields)
  /\ schemas \in SUBSET Fields
  /\ chainType \in {"default", "structured"}
  /\ format \in Seq(SUBSET Fields)
  /\ isJson \in BOOLEAN
  /\ provider \in Providers \cup {""}
  /\ settings \in Settings
  /\ chain \in Chains

BuilderInit ==
  /\ blocks = <<>>
  /\ schemas = {}
  /\ chainType = "default"
  /\ format = <<>>
  /\ isJson = FALSE
  /\ provider = ""
  /\ settings \in Settings
  /\ chain = NoChain

------------------------------------------------------------------------------
(* The setters.                                                            *)

WithTemplate ==
  /\ blocks' = <<>>
  /\ UNCHANGED <<schemas, chainType, format, isJson, provider, settings>>

WithModel(p) ==
  /\ provider' = p
  /\ UNCHANGED <<blocks, schemas, chainType, format, isJson, settings>>

\* WithParams, WithMaxTokens, WithTemperature
WithSettings(v) ==
  /\ settings' = v
  /\ UNCHANGED <<blocks, schemas, chainType, format, isJson, provider>>

WithJSON(b) ==
  /\ isJson' = b
  /\ UNCHANGED <<blocks, schemas, chainType, format, provider, settings>>

WithStructuredOutput(S) ==
  /\ chainType' = "structured"
  /\ schemas' = S
  /\ isJson' = TRUE
  /\ UNCHANGED <<blocks, format, provider, settings>>

\* The instructions are made from the schemas at hand and put into the
\* template at hand.
WithCustomJSONFormat ==
  /\ Len(blocks) < MaxBlocks
  /\ chainType' = "default"
  /\ format' = <<schemas>>
  /\ blocks' = Append(blocks, schemas)
  /\ isJson' = FALSE
  /\ UNCHANGED <<schemas, provider, settings>>

------------------------------------------------------------------------------
(* Build.                                                                  *)

\* NewLLM has a model for the provider.
Available(p) == p \in Supported \cap Keys

\* Only OpenAI is put into JSON mode.
NewLLM(json) == json /\ provider = "OPENAI"

NewBaseChain ==
  chain' = [kind |-> "default", blocks |-> blocks, schemas |-> {}, provider |-> provider,
            json |-> NewLLM(FALSE), settings |-> settings]

\* Fault: a template that has instructions is not given others.
NewStructuredChainOnce(instructions) ==
  chain' = [kind |-> IF schemas # {} THEN "schemas" ELSE "custom",
            blocks |-> IF blocks = <<>> THEN <<instructions>> ELSE blocks,
            schemas |-> schemas, provider |-> provider,
            json |-> NewLLM(TRUE), settings |-> settings]

\* Fault: the JSON mode is the one WithJSON has set.
NewStructuredChainAsSet(instructions) ==
  chain' = [kind |-> IF schemas # {} THEN "schemas" ELSE "custom",
            blocks |-> Append(blocks, instructions), schemas |-> schemas, provider |-> provider,
            json |-> NewLLM(isJson), settings |-> settings]

\* The instructions come last in the template, whatever it had before.
NewStructuredChain(instructions) ==
  chain' = [kind |-> IF schemas # {} THEN "schemas" ELSE "custom",
            blocks |-> Append(blocks, instructions), schemas |-> schemas, provider |-> provider,
            json |-> NewLLM(TRUE), settings |-> settings]

\* Schemas go before a format; isJson is not looked at.
Build ==
  /\ UNCHANGED builderVars
  /\ Available(provider)
  /\ \/ chainType = "default" /\ NewBaseChain
     \/ chainType = "structured" /\ schemas # {} /\ NewStructuredChain(schemas)
     \/ chainType = "structured" /\ schemas = {} /\ format # <<>> /\ NewStructuredChain(format[1])

BuildFails ==
  /\ UNCHANGED builderVars
  /\ \/ ~Available(provider)
     \/ chainType = "structured" /\ schemas = {} /\ format = <<>>
  /\ chain' = NoChain

Set ==
  \/ WithTemplate
  \/ \E p \in Providers : WithModel(p)
  \/ \E v \in Settings : WithSettings(v)
  \/ \E b \in BOOLEAN : WithJSON(b)
  \/ \E S \in SUBSET Fields : WithStructuredOutput(S)
  \/ WithCustomJSONFormat
==============================================================================
