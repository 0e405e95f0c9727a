--------------------------- MODULE BuiltChainProofs ---------------------------
(***************************************************************************)
(* Proofs about BuiltChain: what extractJSONFromResponse returns, and that *)
(* the chains of the builder keep their promises.                          *)
(***************************************************************************)
EXTENDS BuiltChain, SequenceTheorems, TLAPS

USE BuilderAssumption, AnswerAssumption

------------------------------------------------------------------------------
(* The extraction.                                                         *)

\* There is at most one block that is cut out.
LEMMA OneBlock ==
  ASSUME NEW s \in Seq(Tokens), NEW i \in DOMAIN s, NEW j \in DOMAIN s,
         NEW a \in DOMAIN s, NEW b \in DOMAIN s, Enclosed(s, i, j), Enclosed(s, a, b)
  PROVE  a = i /\ b = j
<1>1. DOMAIN s = 1 .. Len(s) /\ Len(s) \in Nat
  OBVIOUS
<1>2. ~(a < i) /\ ~(i < a)
  BY DEF Enclosed
<1>3. a = i
  BY <1>1, <1>2
<1>4. ~(b < j) /\ ~(j < b)
  BY <1>3 DEF Enclosed
<1> QED BY <1>1, <1>3, <1>4

\* The block that is there is cut out.
LEMMA CutsBlock ==
  ASSUME NEW s \in Seq(Tokens), NEW i \in DOMAIN s, NEW j \in DOMAIN s, Enclosed(s, i, j)
  PROVE  extractJSONFromResponse(s) = SubSeq(s, i + 1, j - 1)
<1> DEFINE P(p) == Enclosed(s, p[1], p[2])
           q == CHOOSE p \in (DOMAIN s) \X (DOMAIN s) : P(p)
<1>1. <<i, j>> \in (DOMAIN s) \X (DOMAIN s) /\ P(<<i, j>>)
  OBVIOUS
<1>2. q \in (DOMAIN s) \X (DOMAIN s) /\ P(q)
  BY <1>1, Zenon
<1>3. q[1] \in DOMAIN s /\ q[2] \in DOMAIN s
  BY <1>2
<1>4. q[1] = i /\ q[2] = j
  BY <1>2, <1>3, OneBlock
<1>5. \E p \in (DOMAIN s) \X (DOMAIN s) : Enclosed(s, p[1], p[2])
  BY <1>1, Zenon
<1>6. extractJSONFromResponse(s) = SubSeq(s, q[1] + 1, q[2] - 1)
  BY <1>5, Zenon DEF extractJSONFromResponse
<1> HIDE DEF q
<1> QED BY <1>4, <1>6

\* Without a block, nothing is.
LEMMA KeepsWhole ==
  ASSUME NEW s \in Seq(Tokens), \A i, j \in DOMAIN s : ~Enclosed(s, i, j)
  PROVE  extractJSONFromResponse(s) = s
<1>1. ~\E p \in (DOMAIN s) \X (DOMAIN s) : Enclosed(s, p[1], p[2])
  OBVIOUS
<1> QED BY <1>1, Zenon DEF extractJSONFromResponse

\* An answer of an LLM that did as it was told gives its object.
THEOREM CleanIsFound ==
  ASSUME NEW s \in Seq(Tokens), NEW S, Clean(s, S)
  PROVE  Decodes(extractJSONFromResponse(s)) /\ FieldsOf(extractJSONFromResponse(s)) = S
<1>1. CASE Decodes(s) /\ FieldsOf(s) = S /\ \A k \in DOMAIN s : s[k].kind # "open"
  <2>1. \A i, j \in DOMAIN s : ~Enclosed(s, i, j)
    BY <1>1 DEF Enclosed
  <2> QED BY <1>1, <2>1, KeepsWhole
<1>2. ASSUME NEW i \in DOMAIN s, NEW j \in DOMAIN s,
             i < j, s[i].kind = "open", s[j].kind = "fence",
             \A k \in 1 .. i - 1 : s[k].kind # "open",
             Decodes(SubSeq(s, i + 1, j - 1)), FieldsOf(SubSeq(s, i + 1, j - 1)) = S,
             \A k \in DOMAIN SubSeq(s, i + 1, j - 1) : ~IsFence(SubSeq(s, i + 1, j - 1)[k])
      PROVE  Decodes(extractJSONFromResponse(s)) /\ FieldsOf(extractJSONFromResponse(s)) = S
  <2>1. /\ DOMAIN s = 1 .. Len(s) /\ Len(s) \in Nat /\ i \in Nat /\ j \in Nat
        /\ i + 1 \in 1 .. Len(s) + 1 /\ j - 1 \in (i + 1) - 1 .. Len(s)
    BY <1>2
  <2>2. /\ DOMAIN SubSeq(s, i + 1, j - 1) = 1 .. (j - 1) - (i + 1) + 1
        /\ \A k \in 1 .. (j - 1) - (i + 1) + 1 : SubSeq(s, i + 1, j - 1)[k] = s[(i + 1) + k - 1]
    BY <2>1, SubSeqProperties, SMTT(20)
  <2>3. \A k \in DOMAIN s : k > i /\ k < j => ~IsFence(s[k])
    <3> SUFFICES ASSUME NEW k \in DOMAIN s, k > i, k < j PROVE ~IsFence(s[k])
      OBVIOUS
    <3>1. k - i \in 1 .. (j - 1) - (i + 1) + 1 /\ (i + 1) + (k - i) - 1 = k
      BY <2>1
    <3> QED BY <1>2, <2>2, <3>1
  <2>4. Enclosed(s, i, j)
    BY <1>2, <2>1, <2>3 DEF Enclosed, IsFence
  <2> QED BY <1>2, <2>4, CutsBlock
<1> QED BY <1>1, <1>2 DEF Clean

\* What is extracted begins with a token of the answer.
LEMMA BeginsInAnswer ==
  ASSUME NEW s \in Seq(Tokens), Decodes(extractJSONFromResponse(s))
  PROVE  \E i \in DOMAIN s : extractJSONFromResponse(s)[1] = s[i]
<1>1. DOMAIN s = 1 .. Len(s) /\ Len(s) \in Nat
  OBVIOUS
<1>2. CASE \A i, j \in DOMAIN s : ~Enclosed(s, i, j)
  <2>1. extractJSONFromResponse(s) = s
    BY <1>2, KeepsWhole
  <2>2. 1 \in DOMAIN s
    BY <1>1, <2>1 DEF Decodes
  <2> QED BY <2>1, <2>2
<1>3. ASSUME NEW a \in DOMAIN s, NEW b \in DOMAIN s, Enclosed(s, a, b)
      PROVE  \E i \in DOMAIN s : extractJSONFromResponse(s)[1] = s[i]
  <2> DEFINE body == SubSeq(s, a + 1, b - 1)
  <2>1. extractJSONFromResponse(s) = body
    BY <1>3, CutsBlock
  <2>2. a + 1 \in 1 .. Len(s) + 1 /\ b - 1 \in (a + 1) - 1 .. Len(s) /\ a \in Nat /\ b \in Nat
    BY <1>1, <1>3 DEF Enclosed
  <2>3. /\ Len(body) = (b - 1) - (a + 1) + 1
        /\ \A k \in 1 .. (b - 1) - (a + 1) + 1 : body[k] = s[(a + 1) + k - 1]
    BY <2>2, SubSeqProperties, SMTT(20)
  <2>4. Len(body) >= 1
    BY <2>1, <2>2, <2>3, SMTT(20) DEF Decodes
  <2>5. 1 \in 1 .. (b - 1) - (a + 1) + 1 /\ (a + 1) + 1 - 1 = a + 1
    BY <2>2, <2>3, <2>4
  <2>6. a + 1 \in DOMAIN s
    BY <1>1, <2>2, <2>5, SMTT(20)
  <2> QED BY <2>1, <2>3, <2>5, <2>6
<1> QED BY <1>2, <1>3

\* The fields of what is extracted are fields.
LEMMA FieldsAreFields ==
  ASSUME NEW s \in Seq(Tokens), Decodes(extractJSONFromResponse(s))
  PROVE  FieldsOf(extractJSONFromResponse(s)) \in SUBSET Fields
<1>1. PICK i \in DOMAIN s : extractJSONFromResponse(s)[1] = s[i]
  BY BeginsInAnswer
<1>2. s[i] \in Tokens
  OBVIOUS
<1> QED BY <1>1, <1>2 DEF FieldsOf, Tokens

------------------------------------------------------------------------------
(* The builder.                                                            *)

\* A block that is added is the last one.
LEMMA AddedLast ==
  ASSUME NEW T, NEW s \in Seq(T), NEW e \in T
  PROVE  /\ Append(s, e) \in Seq(T) /\ <<e>> \in Seq(T)
         /\ Append(s, e) # <<>> /\ Append(s, e)[Len(Append(s, e))] = e
<1>1. Len(s) \in Nat
  OBVIOUS
<1>2. Append(s, e) \in Seq(T) /\ Len(Append(s, e)) = Len(s) + 1 /\ Append(s, e)[Len(s) + 1] = e
  BY AppendProperties
<1>3. Append(s, e) # <<>> /\ Append(s, e)[Len(Append(s, e))] = e
  BY <1>1, <1>2
<1>4. <<e>> \in Seq(T)
  OBVIOUS
<1> QED BY <1>2, <1>3, <1>4

LEMMA Initial == Init => IInv
<1> SUFFICES ASSUME Init PROVE IInv
  OBVIOUS
<1>1. TypeOK
  <2>1. <<>> \in Seq(SUBSET Fields) /\ <<>> \in Seq(Tokens)
    OBVIOUS
  <2>2. chain \in Chains
    BY <2>1 DEF Init, BuilderInit, NoChain, Chains
  <2> QED BY <2>1, <2>2 DEF Init, BuilderInit, TypeOK, BuilderTypeOK, Results, Result
<1>2. result.kind = "none" /\ chain.schemas = {} /\ ~chain.json
  BY DEF Init, BuilderInit, Result, NoChain
<1> QED BY <1>1, <1>2 DEF IInv, AsksForSchemas, AskedIsEnough, NothingLacks, JsonModeAsked

\* A setter changes nothing that was promised.
LEMMA Sets ==
  ASSUME IInv, Setter
  PROVE  IInv'
<1>1. chain' = chain /\ answer' = answer /\ result' = result
  BY DEF Setter
<1>2. TypeOK'
  <2> USE <1>1 DEF IInv, TypeOK, BuilderTypeOK
  <2>1. CASE WithTemplate
    <3>1. <<>> \in Seq(SUBSET Fields)
      BY EmptySeq
    <3> QED BY <2>1, <3>1 DEF WithTemplate
  <2>2. ASSUME NEW p \in Providers, WithModel(p) PROVE TypeOK'
    BY <2>2 DEF WithModel
  <2>3. ASSUME NEW v \in Settings, WithSettings(v) PROVE TypeOK'
    BY <2>3 DEF WithSettings
  <2>4. ASSUME NEW b \in BOOLEAN, WithJSON(b) PROVE TypeOK'
    BY <2>4 DEF WithJSON
  <2>5. ASSUME NEW S \in SUBSET Fields, WithStructuredOutput(S) PROVE TypeOK'
    BY <2>5 DEF WithStructuredOutput
  <2>6. CASE WithCustomJSONFormat
    <3>1. Append(blocks, schemas) \in Seq(SUBSET Fields) /\ <<schemas>> \in Seq(SUBSET Fields)
      BY AddedLast DEF IInv, TypeOK, BuilderTypeOK
    <3> QED BY <2>6, <3>1 DEF WithCustomJSONFormat
  <2> QED BY <2>1, <2>2, <2>3, <2>4, <2>5, <2>6 DEF Setter, Set
<1>3. Asked' = Asked
  BY <1>1 DEF Asked
<1> QED BY <1>1, <1>2, <1>3 DEF IInv, AsksForSchemas, AskedIsEnough, NothingLacks, JsonModeAsked

\* What a Build returns asks for what it validates.
LEMMA Builds ==
  ASSUME IInv, NewChain
  PROVE  IInv'
<1>1. answer' = <<>> /\ result' = Result("none") /\ UNCHANGED builderVars
  BY DEF NewChain, Build, BuildFails
<1>2. BuilderTypeOK
  BY DEF IInv, TypeOK
<1>3. chain' \in Chains /\ AsksForSchemas' /\ JsonModeAsked'
  <2>1. CASE BuildFails
    <3>1. <<>> \in Seq(SUBSET Fields)
      BY EmptySeq
    <3>2. chain' = NoChain
      BY <2>1 DEF BuildFails
    <3> QED BY <1>2, <3>1, <3>2 DEF NoChain, Chains, AsksForSchemas, JsonModeAsked, BuilderTypeOK
  <2>2. CASE NewBaseChain
    BY <1>2, <2>2 DEF NewBaseChain, NewLLM, Chains, AsksForSchemas, JsonModeAsked, BuilderTypeOK
  <2>3. ASSUME NEW S \in SUBSET Fields, NewStructuredChain(S), schemas # {} => S = schemas
        PROVE  chain' \in Chains /\ AsksForSchemas' /\ JsonModeAsked'
    <3>1. /\ chain'.blocks = Append(blocks, S) /\ chain'.schemas = schemas
          /\ chain'.json = (provider = "OPENAI") /\ chain'.provider = provider
      BY <2>3 DEF NewStructuredChain, NewLLM
    <3>2. /\ Append(blocks, S) \in Seq(SUBSET Fields) /\ Append(blocks, S) # <<>>
          /\ Append(blocks, S)[Len(Append(blocks, S))] = S
      <4>1. blocks \in Seq(SUBSET Fields)
        BY <1>2 DEF BuilderTypeOK
      <4> QED BY <4>1, AddedLast
    <3>3. chain' \in Chains
      BY <1>2, <2>3, <3>2 DEF NewStructuredChain, NewLLM, Chains, BuilderTypeOK
    <3>4. Asked' = S
      BY <3>1, <3>2 DEF Asked
    <3>5. chain'.schemas # {} => S = chain'.schemas
      BY <2>3, <3>1
    <3>6. chain'.blocks # <<>>
      BY <3>1, <3>2
    <3>7. AsksForSchemas'
      BY <3>4, <3>5, <3>6 DEF AsksForSchemas
    <3>8. JsonModeAsked'
      BY <3>1, <3>6 DEF JsonModeAsked
    <3> QED BY <3>3, <3>7, <3>8
  <2>4. format # <<>> => format[1] \in SUBSET Fields
    <3>1. format \in Seq(SUBSET Fields)
      BY <1>2 DEF BuilderTypeOK
    <3>2. format # <<>> => 1 \in 1 .. Len(format)
      BY <3>1, EmptySeq
    <3> QED BY <3>1, <3>2, ElementOfSeq
  <2>5. schemas \in SUBSET Fields
    BY <1>2 DEF BuilderTypeOK
  <2> QED BY <2>1, <2>2, <2>3, <2>4, <2>5 DEF NewChain, Build
<1>4. TypeOK'
  <2>1. <<>> \in Seq(Tokens)
    BY EmptySeq
  <2> QED BY <1>1, <1>2, <1>3, <2>1 DEF TypeOK, BuilderTypeOK, builderVars, Results, Result
<1>5. result'.kind = "none"
  BY <1>1 DEF Result
<1> QED BY <1>3, <1>4, <1>5 DEF IInv, AskedIsEnough, NothingLacks

LEMMA Generates ==
  ASSUME IInv, NEW s \in Answers, GenerateStructuredAnswer(s)
  PROVE  IInv'
<1> DEFINE x == extractJSONFromResponse(s)
<1>1. s \in Seq(Tokens) /\ answer' = s /\ chain' = chain /\ UNCHANGED builderVars
  BY DEF GenerateStructuredAnswer
<1>2. result' = IF s # <<>> /\ Decodes(x) THEN Validated(FieldsOf(x)) ELSE Result("error")
  BY DEF GenerateStructuredAnswer
<1>3. Decodes(x) => FieldsOf(x) \in SUBSET Fields
  BY <1>1, FieldsAreFields
<1>4. \A S : Clean(s, S) => Decodes(x) /\ FieldsOf(x) = S
  BY <1>1, CleanIsFound
<1> HIDE DEF x
<1>5. /\ result'.kind = "map" =>
           Decodes(x) /\ result'.fields = FieldsOf(x) /\ chain.schemas \subseteq FieldsOf(x)
      /\ s # <<>> /\ Decodes(x) /\ chain.schemas \subseteq FieldsOf(x)
           => result' = [kind |-> "map", fields |-> FieldsOf(x)]
      /\ result' \in Results
  BY <1>2, <1>3 DEF Validated, Result, Results
<1>6. Asked' = Asked /\ (chain.schemas # {} => Asked = chain.schemas)
  BY <1>1 DEF Asked, IInv, AsksForSchemas
<1>7. TypeOK'
  BY <1>1, <1>5 DEF IInv, TypeOK, BuilderTypeOK, builderVars
<1>8. AsksForSchemas' /\ JsonModeAsked'
  BY <1>1, <1>6 DEF IInv, AsksForSchemas, JsonModeAsked
<1>9. AskedIsEnough'
  <2> SUFFICES ASSUME NEW S \in SUBSET Fields, s # <<>>, Clean(s, S), Asked \subseteq S
               PROVE  result' = [kind |-> "map", fields |-> S]
    BY <1>1, <1>6 DEF AskedIsEnough
  <2>1. Decodes(x) /\ FieldsOf(x) = S
    BY <1>4
  <2>2. chain.schemas \subseteq S
    BY <1>6
  <2> QED BY <1>5, <2>1, <2>2
<1>10. NothingLacks'
  BY <1>1, <1>5, <1>6 DEF NothingLacks
<1> QED BY <1>7, <1>8, <1>9, <1>10 DEF IInv

LEMMA Stutters ==
  ASSUME IInv, UNCHANGED vars
  PROVE  IInv'
<1>1. TypeOK' /\ Asked' = Asked
  BY DEF IInv, TypeOK, BuilderTypeOK, vars, builderVars, Asked
<1> QED BY <1>1 DEF IInv, vars, AsksForSchemas, AskedIsEnough, NothingLacks, JsonModeAsked

\* The inductive invariant: for any providers, keys, fields and answers.
THEOREM Invariance == Spec => []IInv
<1>1. IInv /\ [Next]_vars => IInv'
  BY Sets, Builds, Generates, Stutters DEF Next
<1> QED BY Initial, <1>1, PTL DEF Spec

\* WithCustomJSONFormat, WithStructuredOutput and Build: prompt and validation
\* agree, so that an answer as asked for is never refused.
THEOREM AskedAnswersAccepted == Spec => []AskedIsEnough
<1>1. IInv => AskedIsEnough
  BY DEF IInv
<1> QED BY Invariance, <1>1, PTL

\* ValidateStructuredResponse: no map lacks a field that was asked for.
THEOREM MapsAreComplete == Spec => []NothingLacks
<1>1. IInv => NothingLacks
  BY DEF IInv
<1> QED BY Invariance, <1>1, PTL

\* NewLLM: JSON mode and prompt agree, whatever WithJSON is told.
THEOREM JsonModeFits == Spec => []JsonModeAsked
<1>1. IInv => JsonModeAsked
  BY DEF IInv
<1> QED BY Invariance, <1>1, PTL
==============================================================================
