------------------------------ MODULE JsonAnswer ------------------------------
(***************************************************************************)
(* The JSON in the answer of an LLM: extractJSONFromResponse, which looks  *)
(* for a fenced block, and the decoding of what that returns into a map.   *)
(*                                                                         *)
(* An answer is a sequence of tokens: objects with their fields, null,     *)
(* text, "```json" (open) and "```" (fence).  An object with fences in its *)
(* strings has a left and a right half around the first and the last of    *)
(* them.                                                                   *)
(***************************************************************************)
EXTENDS Integers, Sequences

CONSTANT Fields   \* names of fields, in schemas and in answers

Tokens == [kind : {"text", "open", "fence", "null", "object", "left", "right"},
           fields : SUBSET Fields]

Token(k) == [kind |-> k, fields |-> {}]
Object(S) == [kind |-> "object", fields |-> S]

\* "```json" begins with a fence.
IsFence(t) == t.kind \in {"open", "fence"}

\* Fault: (?s)```json(.*)```, the expression that is commented out.
EnclosedGreedily(s, i, j) ==
  /\ i < j /\ s[i].kind = "open" /\ IsFence(s[j])
  /\ \A k \in DOMAIN s : k < i => s[k].kind # "open"
  /\ \A k \in DOMAIN s : k > j => ~IsFence(s[k])

\* (?s)```json(.*?)```: from the first "```json" to the next fence.
Enclosed(s, i, j) ==
  /\ i < j /\ s[i].kind = "open" /\ IsFence(s[j])
  /\ \A k \in DOMAIN s : k < i => s[k].kind # "open"
  /\ \A k \in DOMAIN s : k > i /\ k < j => ~IsFence(s[k])

extractJSONFromResponse(s) ==
  IF \E p \in (DOMAIN s) \X (DOMAIN s) : Enclosed(s, p[1], p[2])
  THEN LET p == CHOOSE p \in (DOMAIN s) \X (DOMAIN s) : Enclosed(s, p[1], p[2])
       IN  SubSeq(s, p[1] + 1, p[2] - 1)
  ELSE s

\* What json.Unmarshal takes for a map.  Between the fences of an object there
\* may be anything, an object with fields too, as in {"k":["```json{", ":", "}```"]}:
\* the fences are in two strings, and cutting at them swaps what is quoted and
\* what is not.
Decodes(s) ==
  \/ Len(s) = 1 /\ s[1].kind \in {"object", "null"}
  \/ /\ Len(s) > 1 /\ s[1].kind = "left" /\ s[Len(s)].kind = "right"
     /\ \A k \in DOMAIN s : k > 1 /\ k < Len(s) => s[k].kind \notin {"left", "right"}

\* The fields of the map, none for null.
FieldsOf(s) == IF s[1].kind = "null" THEN {} ELSE s[1].fields

------------------------------------------------------------------------------
(* The reference.                                                          *)

\* The LLM did as it was told: the answer is an object with the fields S and
\* without "```json" in a string, or has one without fences in its strings in
\* its first block of JSON, whatever is around the block.
Clean(s, S) ==
  \/ Decodes(s) /\ FieldsOf(s) = S /\ \A k \in DOMAIN s : s[k].kind # "open"
  \/ \E i, j \in DOMAIN s :
       /\ i < j /\ s[i].kind = "open" /\ s[j].kind = "fence"
       /\ \A k \in 1 .. i - 1 : s[k].kind # "open"
       /\ LET body == SubSeq(s, i + 1, j - 1)
          IN  Decodes(body) /\ FieldsOf(body) = S /\ \A k \in DOMAIN body : ~IsFence(body[k])
==============================================================================
