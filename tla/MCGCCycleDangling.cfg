SPECIFICATION Spec
CONSTANTS
  m1 = m1
  w2 = w2
  w1 = w1
  a = a
  b = b
  r = r
  Null = Null
  Mutators = {m1}
  Workers = {w1, w2}
  Cells = {a, b}
  Regions = {r}
  RegionOf <- OneRegion
  Fields = {f}
SYMMETRY Symmetry
INVARIANT NoDangling
