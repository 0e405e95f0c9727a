SPECIFICATION Spec
CONSTANTS
  Clients = {c1, c2}
  Tenants = {t1, t2}
  Names = {n1}
  Vars = {}
  Ids = {i1}
  Bodies <- OptionalValues
  Nil = Nil
  AnObject = AnObject
INVARIANT TypeOK
PROPERTY CatalogsSpec
