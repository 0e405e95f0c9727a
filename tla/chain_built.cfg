SPECIFICATION Spec
CONSTANTS
  f = f  g = g
  Fields = {f, g}
  Providers <- MCProviders
  Keys <- MCKeys
  Settings = {s1, s2}
  MaxBlocks = 1
  Answers <- MCAnswers
INVARIANTS
  IInv
  AskedIsEnough
  NothingLacks
  JsonModeAsked
