SPECIFICATION Spec
CONSTANTS
  Requests = {r1}
  Contexts = {c1}
  NoContext = NoContext
  MaxChunks = 2
INVARIANT FailureReported
\* The requests end; an abandoned generator stays blocked for ever.
CHECK_DEADLOCK FALSE
