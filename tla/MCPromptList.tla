---------------------------- MODULE MCPromptList ----------------------------
(***************************************************************************)
(* Instances of PromptList for TLC.                                        *)
(***************************************************************************)
EXTENDS PromptList, TLC

CONSTANTS t1, g1

Symmetry == Permutations(Ids)

Ask(l, gs, s, o, n) ==
  [tenant |-> t1, like |-> l, tags |-> gs, sortBy |-> s, order |-> o, size |-> n]

\* All prompts one by one, and two by two the other way round; those with a
\* tag that stands among empty ones; some, in an order that tells none apart.
MCAsks == {Ask(Nil, Nil, "name", "asc", 1), Ask(Nil, <<Empty, Empty>>, "name", "desc", 2),
           Ask(Nil, <<Empty, Empty, g1, Empty>>, "name", "asc", 1),
           Ask({1, 3}, <<>>, "content", "asc", 1)}
=============================================================================
