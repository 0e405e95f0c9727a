SPECIFICATION Spec
CONSTANTS
  Callers = {g1, g2}
  Fields = {f1}
INVARIANT TextReturned
