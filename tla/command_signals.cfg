SPECIFICATION FairSpec
CONSTANT MaxSignals = 3
INVARIANTS
  IInv
  HeardOnce
PROPERTY Obeys
\* The command ends, or waits for a signal that nobody sends.
CHECK_DEADLOCK FALSE
