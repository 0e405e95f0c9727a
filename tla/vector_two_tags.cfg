SPECIFICATION Spec
CONSTANTS
  Adds = {a1}
  Searches = {s1}
  near = near far = far t1 = t1 t2 = t2 d1 = d1 r1 = r1 r2 = r2 g1 = g1 g2 = g2
  Texts = {near, far}
  Tenants = {t1, t2}
  DocIds = {d1}
  Roles = {r1, r2}
  Tags = {g1, g2}
  Score <- MCScore
  Batches <- MCBatches
  Asks <- MCAsks
  Parents <- MCParents
  saveMetadata = TRUE
  Null = Null
INVARIANT SearchAnswered
\* All calls end.
CHECK_DEADLOCK FALSE
