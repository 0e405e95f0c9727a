SPECIFICATION FairSpec
CONSTANTS
  Requests = {r1, r2}
  Contexts = {c1, c2}
  NoContext = NoContext
  MaxChunks = 2
INVARIANTS
  IInv
  OutlivesOnlyIfAbandoned
  ContextNotShared
  ChunksInOrder
  ErrorIsLast
  EofIsComplete
  NobodyStuck
PROPERTIES
  PromisedSpec
  HandlerAdvances
  HandlerReturns
  FailureExits
  GeneratorSettles
\* The requests end; an abandoned generator stays blocked for ever.
CHECK_DEADLOCK FALSE
