SPECIFICATION Spec
CONSTANTS
  Clients = {c1, c2}
  Tenants = {t1}
  Names = {n1, n2}
  Vars = {}
  Ids = {i1, i2}
  Bodies <- PlainBodies
  Nil = Nil
  AnObject = AnObject
SYMMETRY Symmetry
INVARIANTS
  ConfirmedWasStored
  DeletedStaysDeleted
  DeletedOnce
