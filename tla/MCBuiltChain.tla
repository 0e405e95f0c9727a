----------------------------- MODULE MCBuiltChain -----------------------------
(***************************************************************************)
(* An instance of BuiltChain for TLC.                                      *)
(***************************************************************************)
EXTENDS BuiltChain, TLC

CONSTANTS f, g

MCProviders == {"OPENAI", "OLLAMA", "OTHER"}
MCKeys == {"OPENAI", "OLLAMA"}

Text  == Token("text")
Open  == Token("open")
Fence == Token("fence")
Null  == Token("null")
Left(S) == [kind |-> "left", fields |-> S]
Right == Token("right")

\* Objects as they are, in a block, in two blocks, in a block of another kind
\* or not closed, beside text, and with fences in one string or in two, where
\* another object appears between them; and no object.
MCAnswers == {
  <<>>, <<Text>>, <<Object({f})>>, <<Object({f, g})>>, <<Text, Object({f, g})>>,
  <<Text, Open, Object({f}), Fence, Text>>, <<Open, Object({f, g}), Fence, Open, Object({g}), Fence>>,
  <<Fence, Object({f}), Fence>>, <<Open, Object({f})>>,
  <<Left({f, g}), Fence, Text, Fence, Right>>, <<Open, Left({f, g}), Fence, Right, Fence>>,
  <<Left({f, g}), Open, Object({}), Fence, Right>>, <<Left({f}), Open, Object({g}), Fence, Right>>,
  <<Left({f}), Open, Null, Open, Right>>,
  <<Null>>, <<Open, Null, Fence>>, <<Open, Fence>>}
==============================================================================
