SPECIFICATION Spec
CONSTANTS
  Clients = {c1}
  Ids = {i1, i2, i3}
  t1 = t1 g1 = g1
  Tenants = {t1}
  Names = {1, 2, 3}
  Contents = {1}
  Tags = {g1}
  Asks <- MCAsks
  Empty = Empty
  Nil = Nil
SYMMETRY Symmetry
INVARIANTS
  IInv
  TagsCleaned
  NoMiss
  NoRepeat
  NothingForeign
