SPECIFICATION Spec
CONSTANTS
  Clients = {c1, c2}
  Tenants = {t1}
  Names = {n1}
  Vars = {v1}
  Ids = {i1, i2}
  Bodies <- PlainBodies
  Nil = Nil
  AnObject = AnObject
CONSTRAINT FewVersions
SYMMETRY Symmetry
INVARIANT ExecutedTogether
