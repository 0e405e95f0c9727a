----------------------------- MODULE MCPromptApi -----------------------------
(***************************************************************************)
(* Instances of PromptApi for TLC.                                         *)
(***************************************************************************)
EXTENDS PromptApi, FiniteSets, TLC

\* A body that overrides nothing and gives the values vs.
Plain(vs) == [content |-> Nil, params |-> Nil, values |-> vs]

PlainBodies == {Plain(Vars)}

\* The body of a format request may lack its values.
OptionalValues == {Plain(Vars), Plain(Nil)}

\* At most MaxVersions versions are stored: two prompts of one name, or one
\* prompt before and after a change.  What follows a request that was turned
\* away is what follows none.
MaxVersions == 2
FewVersions == /\ Cardinality(versions) <= MaxVersions
               /\ \A c \in Clients : at[c] = "idle" => status[c] = 0

Symmetry == Permutations(Clients) \cup Permutations(Ids) \cup Permutations(Names)
==============================================================================
