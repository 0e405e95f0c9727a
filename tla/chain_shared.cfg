SPECIFICATION Spec
CONSTANTS
  Callers = {g1, g2, g3}
  Fields = {f1, f2}
SYMMETRY Symmetry
INVARIANTS
  IInv
  StructuredThroughout
PROPERTY
  AtomicSpec
